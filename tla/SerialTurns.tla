----------------------------- MODULE SerialTurns -----------------------------
(***************************************************************************)
(* What a session promises its clients and the scheduler, without permits, *)
(* tokens, tasks and snapshots: it takes prompts at any time and gives     *)
(* each of them a turn of its own, one after the other.  A turn stores its *)
(* messages, the user's first, or a prompt is given up before its turn;    *)
(* what came of it is then final.  SessionTurn implements this.            *)
(***************************************************************************)
EXTENDS Integers, Sequences

CONSTANTS Prompts,   \* the prompts clients and the scheduler may send
          Scheduled  \* those the scheduler waits for

VARIABLES
    status,  \* of every prompt: new, waiting, running, ended
    result,  \* what came of it: none, ok, error, cancelled
    answer,  \* what the scheduler was told of it: none, completed, failed
    asked,   \* prompts somebody asked to cancel
    log      \* stored messages: [kind, by]

vars == <<status, result, answer, asked, log>>

-----------------------------------------------------------------------------
Init ==
    /\ status = [p \in Prompts |-> "new"]
    /\ result = [p \in Prompts |-> "none"]
    /\ answer = [p \in Prompts |-> "none"]
    /\ asked = {} /\ log = <<>>

Becomes(p, from, to) == status[p] = from /\ status' = [status EXCEPT ![p] = to]

\* The turn of p has begun to store messages.
Spoken(p) == \E i \in 1..Len(log) : log[i].by = p

Message(p, kind) == [kind |-> kind, by |-> p]

Submit(p) ==
    /\ Becomes(p, "new", "waiting")
    /\ UNCHANGED <<result, answer, asked, log>>

\* A request to cancel is meant for the prompts that wait or run; it may find
\* others that have just ended.
Cancel ==
    /\ \E ps \in SUBSET {p \in Prompts : status[p] # "new"} :
          /\ {p \in Prompts : status[p] \in {"waiting", "running"}} \subseteq ps
          /\ asked' = asked \cup ps
    /\ UNCHANGED <<status, result, answer, log>>

\* Turns do not overlap.
Begin(p) ==
    /\ \A q \in Prompts : status[q] # "running"
    /\ Becomes(p, "waiting", "running")
    /\ UNCHANGED <<result, answer, asked, log>>

\* The first message of a turn is the user's, and no other one is.
Store(p, kind) ==
    /\ status[p] = "running"
    /\ kind = "user" <=> ~Spoken(p)
    /\ log' = Append(log, Message(p, kind))
    /\ UNCHANGED <<status, result, answer, asked>>

\* Nobody is cancelled who was not asked for.
Comes(p, o) ==
    /\ o = "cancelled" => p \in asked
    /\ result' = [result EXCEPT ![p] = o]

\* Given up before its turn: nothing is stored.
Withdraw(p, o) ==
    /\ Becomes(p, "waiting", "ended")
    /\ o \in {"cancelled", "error"} /\ Comes(p, o)
    /\ UNCHANGED <<answer, asked, log>>

\* The end of a turn, which may store the patch of its changes.  Without a
\* message of the user it is an error.
End(p, o) ==
    /\ Becomes(p, "running", "ended")
    /\ o \in {"ok", "error", "cancelled"} /\ Comes(p, o)
    /\ o # "error" => Spoken(p)
    /\ \/ UNCHANGED log
       \/ Spoken(p) /\ log' = Append(log, Message(p, "patch"))
    /\ UNCHANGED <<answer, asked>>

\* The scheduler is told once, and what it is told is what came of the prompt.
Answer(p) ==
    /\ p \in Scheduled /\ status[p] = "ended" /\ answer[p] = "none"
    /\ answer' = [answer EXCEPT ![p] = IF result[p] = "error" THEN "failed" ELSE "completed"]
    /\ UNCHANGED <<status, result, asked, log>>

-----------------------------------------------------------------------------
Next ==
    \/ Cancel
    \/ \E p \in Prompts :
          \/ Submit(p) \/ Begin(p) \/ Answer(p)
          \/ \E kind \in {"user", "assistant", "start"} : Store(p, kind)
          \/ \E o \in {"ok", "error", "cancelled"} : Withdraw(p, o) \/ End(p, o)

Spec == Init /\ [][Next]_vars
=============================================================================
