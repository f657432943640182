-------------------------------- MODULE AdBreak --------------------------------
(***************************************************************************)
(* What an ad break in the app's own player promises to the content that   *)
(* it interrupts, whichever of the two ad players plays it:                *)
(*   - the content leaves the player for a break that was asked to start,  *)
(*     and for nothing else;                                               *)
(*   - until the app plays something itself, the content is in the player  *)
(*     or kept for it: there is no state in which it is lost;              *)
(*   - it comes back where it was, less a rewind, and plays at the app's   *)
(*     speed; of content in a longer queue only that it comes back.        *)
(***************************************************************************)
EXTENDS Naturals

CONSTANTS
  None,
  Rewind   \* how far the content goes back, in steps

VARIABLES
  break,   \* "none", "asked" to start, or "begun"
  ads,     \* the player holds the ads
  content, \* "none"; in "front", as the app plays it; "kept" while it is not;
           \* "returning" to the player; "back" in it; or "broken" there
  due,     \* the place and speed owed to content that was displaced, if exact
  shown    \* the place and speed (0 if paused) of content in the player

vars == <<break, ads, content, due, shown>>

Marks == [pos : Nat, rate : Nat]
Dues  == [pos : Nat, rate : Nat, exact : BOOLEAN]
InPlayer == {"front", "back", "broken"}
Owed == {"kept", "returning", "back", "broken"}

Later(pos) == IF pos > Rewind THEN pos - Rewind ELSE 0
Due(exact) == [pos |-> Later(shown.pos), rate |-> IF shown.rate > 0 THEN shown.rate ELSE 1,
               exact |-> exact]

\* The content may show m, if it is back as it was.
AsItWas(m) == due.exact => m.pos = due.pos /\ m.rate = due.rate

TypeOK ==
  /\ break \in {"none", "asked", "begun"} /\ ads \in BOOLEAN
  /\ content \in {"none", "front"} \cup Owed
  /\ ads => content \in {"none", "kept"}
  /\ due \in Dues \cup {None} /\ (due = None <=> content \notin Owed)
  /\ shown \in Marks \cup {None} /\ (shown = None <=> content \notin InPlayer)

Init ==
  /\ break = "none" /\ ads = FALSE /\ due = None
  /\ \/ content = "none" /\ shown = None
     \/ content = "front" /\ shown \in Marks

Ask == /\ break = "none" /\ break' = "asked"
       /\ UNCHANGED <<ads, content, due, shown>>

\* The ads take the player; content that plays in it is displaced, and what is on
\* its way back is still owed what it was.
Begin ==
  /\ break = "asked" /\ break' = "begun"
  /\ ads' = TRUE
  /\ \/ content = "none" /\ UNCHANGED <<content, due>>
     \/ content \in InPlayer /\ content' = "kept" /\ due' \in {Due(TRUE), Due(FALSE)}
     \/ content \in {"kept", "returning"} /\ content' = "kept" /\ UNCHANGED due
  /\ shown' = None

\* The break is over, and the player keeps what it holds.
Over == /\ break # "none" /\ break' = "none"
        /\ UNCHANGED <<ads, content, due, shown>>

\* A stop empties the player of a break that has begun; only what the app put in it
\* meanwhile goes with it.
Clear == /\ break = "begun" /\ break' = "none"
         /\ ads' = FALSE
         /\ content' = IF content \in Owed THEN "kept" ELSE "none"
         /\ shown' = None
         /\ UNCHANGED due

\* The ads leave the player to nothing, or to the content.
AdsEnd == /\ ads /\ ads' = FALSE /\ content = "none"
          /\ UNCHANGED <<break, content, due, shown>>

Return == /\ content = "kept" /\ content' = "returning"
          /\ ads' = FALSE
          /\ UNCHANGED <<break, due, shown>>

Resume == /\ content \in {"kept", "returning"} /\ content' = "back"
          /\ ads' = FALSE
          /\ shown' \in Marks /\ AsItWas(shown')
          /\ UNCHANGED <<break, due>>

\* Content that is back pauses, or gets its speed again.
Pause == /\ content = "back"
         /\ shown' \in Marks
         /\ shown' = [shown EXCEPT !.rate = 0] \/ AsItWas(shown')
         /\ UNCHANGED <<break, ads, content, due>>

\* Content that cannot play on its return is there all the same.
Fail == /\ content \in Owed /\ content' = "broken"
        /\ ads' = FALSE
        /\ shown' \in Marks
        /\ UNCHANGED <<break, due>>

\* Content plays to its end, or cannot play at all, and leaves the player empty.
End == /\ content \in {"front", "returning", "back", "broken"} /\ content' = "none"
       /\ due' = None /\ shown' = None
       /\ UNCHANGED <<break, ads>>

\* The app, or its queue, plays what it likes.
AppPlays == /\ ~ads
            /\ content' = "front" /\ due' = None /\ shown' \in Marks
            /\ UNCHANGED <<break, ads>>

Next ==
  \/ Ask \/ Begin \/ Over \/ Clear \/ AdsEnd
  \/ Return \/ Resume \/ Pause \/ Fail \/ End \/ AppPlays

Spec == Init /\ [][Next]_vars
==============================================================================
