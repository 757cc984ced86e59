----------------------------- MODULE Correlator -----------------------------
(***************************************************************************)
(* What send_command_async promises each caller, with the locks, pipes,    *)
(* threads and the daemon abstracted away.  A call opens a reply channel;  *)
(* the channel receives at most one value (the caller's own reply, a       *)
(* teardown's NotRunning, or the closing of its sender), and only while    *)
(* the caller still listens; the call returns once, with the value it      *)
(* received, with the error of a failed send, or with Timeout after the    *)
(* channel expired empty.                                                  *)
(***************************************************************************)
CONSTANTS Callers, Nobody

VARIABLES
    st,       \* st[c]: "idle", "open", "expired" or "done"
    mbox,     \* mbox[c]: the value the reply channel of c holds
    outcome   \* outcome[c]: what the call returned ("Pending" before)

Empty == [kind |-> "None", src |-> Nobody]

\* The values a reply channel of c can receive.
Values(c) ==
    {[kind |-> "Ok", src |-> c],
     [kind |-> "NotRunning", src |-> Nobody],
     [kind |-> "Closed", src |-> Nobody]}

\* The result a call returns for the value it received.
ResultOf(m) ==
    CASE m.kind = "Ok" -> "Ok"
      [] m.kind = "NotRunning" -> "NotRunning"
      [] OTHER -> "SendError"

Init ==
    /\ st = [c \in Callers |-> "idle"]
    /\ mbox = [c \in Callers |-> Empty]
    /\ outcome = [c \in Callers |-> "Pending"]

Call(c) ==
    /\ st[c] = "idle"
    /\ st' = [st EXCEPT ![c] = "open"]
    /\ UNCHANGED <<mbox, outcome>>

\* One value reaches an open, empty channel.
Deliver(c) ==
    /\ st[c] = "open"
    /\ mbox[c] = Empty
    /\ \E m \in Values(c) : mbox' = [mbox EXCEPT ![c] = m]
    /\ UNCHANGED <<st, outcome>>

\* A teardown fails a set of open, empty channels at once.
FailAll(S) ==
    /\ S # {}
    /\ \A c \in S : st[c] = "open" /\ mbox[c] = Empty
    /\ mbox' = [c \in Callers |->
                  IF c \in S THEN [kind |-> "NotRunning", src |-> Nobody]
                  ELSE mbox[c]]
    /\ UNCHANGED <<st, outcome>>

\* The call returns the value it received.
Return(c) ==
    /\ st[c] = "open"
    /\ mbox[c] # Empty
    /\ st' = [st EXCEPT ![c] = "done"]
    /\ outcome' = [outcome EXCEPT ![c] = ResultOf(mbox[c])]
    /\ UNCHANGED mbox

\* The send fails; the call returns its error whatever the channel holds.
FailSend(c) ==
    /\ st[c] = "open"
    /\ \E r \in {"NotRunning", "SendError"} :
         outcome' = [outcome EXCEPT ![c] = r]
    /\ st' = [st EXCEPT ![c] = "done"]
    /\ UNCHANGED mbox

\* The timeout elapses on an empty channel, which stops listening.
Expire(c) ==
    /\ st[c] = "open"
    /\ mbox[c] = Empty
    /\ st' = [st EXCEPT ![c] = "expired"]
    /\ UNCHANGED <<mbox, outcome>>

\* The expired call returns Timeout.
ReturnTimeout(c) ==
    /\ st[c] = "expired"
    /\ st' = [st EXCEPT ![c] = "done"]
    /\ outcome' = [outcome EXCEPT ![c] = "Timeout"]
    /\ UNCHANGED mbox

Next ==
    \/ \E c \in Callers :
         Call(c) \/ Deliver(c) \/ Return(c) \/ FailSend(c) \/ Expire(c)
           \/ ReturnTimeout(c)
    \/ \E S \in SUBSET Callers : FailAll(S)

Spec == Init /\ [][Next]_<<st, mbox, outcome>>

=============================================================================
