------------------------------- MODULE BleCalls -------------------------------
(***************************************************************************)
(* The way the BLE library makes its calls out of the stack's events: the  *)
(* program's task takes a binary semaphore, asks the stack, and waits until*)
(* the Bluetooth task gives the semaphore when the stack's event comes.    *)
(* FreeRTOS::Semaphore::wait() takes the semaphore and gives it back.      *)
(* Calls are sequences of steps; a refused request ends its function.      *)
(***************************************************************************)
EXTENDS Integers, FiniteSets, SequencesExt

VARIABLES
  todo,   \* the steps that are left of the call in progress
  taken,  \* semaphores taken: <<kind, object>>
  asked   \* requests the stack has not answered: <<kind, object>>

Do(do, kind, x) == <<[do |-> do, kind |-> kind, x |-> x, skip |-> 0]>>
Take(kind, x)   == Do("take", kind, x)
Wait(kind, x)   == Do("wait", kind, x)
\* A step that may fail; then the steps of rest are skipped.
Fallible(do, kind, x, rest) == <<[do |-> do, kind |-> kind, x |-> x, skip |-> Len(rest)]>> \o rest
Ask(kind, x, rest) == Fallible("ask", kind, x, rest)
Exchange(kind, x) == Take(kind, x) \o Ask(kind, x, Wait(kind, x))

Sem == <<todo[1].kind, todo[1].x>>
Doing(do) == todo # <<>> /\ todo[1].do = do
Proceed == todo' = Tail(todo)
Fail    == todo' = SubSeq(todo, 2 + todo[1].skip, Len(todo))

TakeStep == Doing("take") /\ Sem \notin taken /\ taken' = taken \cup {Sem} /\ Proceed /\ UNCHANGED asked
WaitStep == Doing("wait") /\ Sem \notin taken /\ Proceed /\ UNCHANGED <<taken, asked>>
Accept   == Doing("ask") /\ asked' = Append(asked, Sem) /\ Proceed /\ UNCHANGED taken
Refuse   == Doing("ask") /\ Fail /\ UNCHANGED <<taken, asked>>
=============================================================================
