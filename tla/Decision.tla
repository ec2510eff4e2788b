-------------------------------- MODULE Decision -------------------------------
(***************************************************************************)
(* What callers who ask the same question are promised, without a word of  *)
(* how: a question is decided once, by whoever may, and everyone who asks  *)
(* is told what has been decided, each alone or many at once.              *)
(***************************************************************************)
CONSTANTS
  Caller,
  Kind,      \* the questions
  None

VARIABLES
  decided,   \* by question, TRUE or FALSE once it is decided
  asking,    \* what each caller asks
  told       \* what each caller has been told

vars == <<decided, asking, told>>

Init ==
  /\ decided = [k \in Kind |-> None]
  /\ asking = [c \in Caller |-> None]
  /\ told = [c \in Caller |-> None]

Ask(c) ==
  /\ asking[c] = None
  /\ \E k \in Kind : asking' = [asking EXCEPT ![c] = k]
  /\ UNCHANGED <<decided, told>>

Decide(k) ==
  /\ decided[k] = None
  /\ \E b \in BOOLEAN : decided' = [decided EXCEPT ![k] = b]
  /\ UNCHANGED <<asking, told>>

Tell(callers) ==
  /\ \A c \in callers : /\ asking[c] # None
                        /\ told[c] = None
                        /\ decided[asking[c]] # None
  /\ told' = [c \in Caller |-> IF c \in callers THEN decided[asking[c]] ELSE told[c]]
  /\ UNCHANGED <<decided, asking>>

Leave(c) ==
  /\ told[c] # None
  /\ asking' = [asking EXCEPT ![c] = None]
  /\ told' = [told EXCEPT ![c] = None]
  /\ UNCHANGED decided

Next ==
  \/ \E c \in Caller : Ask(c) \/ Leave(c)
  \/ \E k \in Kind : Decide(k)
  \/ \E callers \in SUBSET Caller : Tell(callers)

Spec == Init /\ [][Next]_vars
================================================================================
