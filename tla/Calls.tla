--------------------------------- MODULE Calls ---------------------------------
(***************************************************************************)
(* Requests in flight, for the modules of what is administered:            *)
(* a handler reads and checks in one step, and then has writes left, each  *)
(* a step of its own.  An await may throw, and the process may die: what   *)
(* was written stays, and the rest is lost.                                *)
(***************************************************************************)
EXTENDS Naturals

CONSTANTS
  Call,           \* the HTTP requests that may be in flight together
  MaxAccidents,   \* bound: awaits that throw, process deaths
  SerialModes     \* {TRUE}: calls do not overlap, {FALSE}: they may, or both

ASSUME CallsBoundAssumption == MaxAccidents \in Nat /\ SerialModes \subseteq BOOLEAN

VARIABLES
  work,           \* what each call still has to write
  accidents,      \* history: accidents so far
  serial          \* whether calls overlap; never changes

calls == <<work, accidents, serial>>

Idle == [op |-> "idle"]

CallsInit ==
  /\ work = [c \in Call |-> Idle]
  /\ accidents = 0
  /\ serial \in SerialModes

Quiet == \A c \in Call : work[c] = Idle

Goto(c, w) ==
  /\ work' = [work EXCEPT ![c] = w]
  /\ UNCHANGED <<accidents, serial>>

Start(c, w) ==
  /\ work[c] = Idle
  /\ serial => Quiet
  /\ Goto(c, w)

Fail(c) ==
  /\ work[c] # Idle
  /\ accidents < MaxAccidents
  /\ accidents' = accidents + 1
  /\ work' = [work EXCEPT ![c] = Idle]
  /\ UNCHANGED serial
===============================================================================
