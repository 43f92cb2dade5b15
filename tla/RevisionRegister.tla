--------------------------- MODULE RevisionRegister ---------------------------
(***************************************************************************)
(* What the manager promises its clients, and nothing else: one register   *)
(* of revisions.  A call takes effect at one instant between its sending   *)
(* and its success: a change only over the revision it expects, and only   *)
(* when every call its client had been answered about is settled.  A call  *)
(* that has failed may have taken effect, may still take effect, or never  *)
(* will; nobody can tell which until a later call succeeds.                *)
(***************************************************************************)
EXTENDS Naturals

CONSTANTS
  Calls   \* identities of calls

VARIABLES
  register,   \* the revision
  calls       \* call |-> what was asked, what became of it, what the client knows

registerVars == <<register, calls>>

\* What may be known of a call's effect.
Open == [phase |-> "open", revision |-> 0]
Over == [phase |-> "over", revision |-> 0]
Done(at) == [phase |-> "done", revision |-> at]

Unsent == [kind |-> "none", expected |-> 0, after |-> {}, effect |-> Over, told |-> "none"]

Init ==
  /\ register = 0
  /\ calls = [c \in Calls |-> Unsent]

Known == {c \in Calls : calls[c].told # "none"}

\* Revisions some client has been told.
Shown == {0} \cup {calls[c].effect.revision : c \in {d \in Calls : calls[d].told = "ok"}}

\* A client sends a call, which expects a revision a client knows.
Invoke(c, kind, expected) ==
  /\ calls[c] = Unsent
  /\ expected \in IF kind = "status" THEN {0} ELSE Shown
  /\ calls' = [calls EXCEPT ![c] =
       [kind |-> kind, expected |-> expected, after |-> Known, effect |-> Open, told |-> "none"]]
  /\ UNCHANGED register

\* A call takes effect, and somebody may be left to hear of it.
TakeEffect(c, heard) ==
  /\ calls[c].effect = Open
  /\ calls[c].kind # "status" => calls[c].expected = register
  /\ \A d \in calls[c].after : calls[d].effect # Open
  /\ register' = IF calls[c].kind = "change" THEN register + 1 ELSE register
  /\ calls' = [calls EXCEPT ![c].effect = IF heard THEN Done(register') ELSE Over]

\* A client learns the revision its call had at that instant.
Succeed(c) ==
  /\ calls[c].effect.phase = "done" /\ calls[c].told = "none"
  /\ calls' = [calls EXCEPT ![c].told = "ok"]
  /\ UNCHANGED register

\* A client may be told a failure while its call may still take effect, or has.
Failing(call) ==
  IF call.kind # "none" /\ call.told = "none" THEN {call, [call EXCEPT !.told = "failed"]}
  ELSE {call}

\* A call will never take effect, or what it has done is forgotten.
Ending(call) ==
  IF call.told # "ok" THEN {call, [call EXCEPT !.effect = Over]} ELSE {call}

\* A deadline, a refusal, a stop or a crash: any number of calls fail or end.
Lose ==
  /\ calls' = [c \in Calls |-> calls'[c]]
  /\ \A c \in Calls : \E call \in Failing(calls[c]) : calls'[c] \in Ending(call)
  /\ UNCHANGED register

Next ==
  \/ Lose
  \/ \E c \in Calls, heard \in BOOLEAN : TakeEffect(c, heard)
  \/ \E c \in Calls : Succeed(c)
  \/ \E c \in Calls, kind \in {"status", "change", "stop"} :
       \E expected \in Shown : Invoke(c, kind, expected)

Spec == Init /\ [][Next]_registerVars

-----------------------------------------------------------------------------

IsChange(c) == calls[c].kind = "change" /\ calls[c].effect.phase = "done"

\* A change that has taken effect made the revision it shows from the one it
\* expected, and no two made it from the same.
Exclusive ==
  \A c \in Calls : IsChange(c) =>
    /\ calls[c].effect.revision = calls[c].expected + 1 /\ calls[c].expected < register
    /\ \A d \in Calls \ {c} : IsChange(d) => calls[d].expected # calls[c].expected

=============================================================================
