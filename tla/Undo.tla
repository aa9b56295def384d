-------------------------------- MODULE Undo --------------------------------
(***************************************************************************)
(* Undo and redo of a session's file changes (agent/undo.rs) on top of the *)
(* snapshots every turn takes (agent/session_actor.rs).  A turn stores its *)
(* prompt, the snapshot it started from and, at its end, the paths it      *)
(* changed; a delegated child session does the same in a history of its    *)
(* own.  Undo puts back the paths of every turn from a prompt on and       *)
(* pushes a revert frame; redo goes back to the snapshot of the top frame; *)
(* the next prompt deletes the undone messages and the frames.  Undo and   *)
(* redo are messages of the actor, one at a time, and take no permit: they *)
(* may come while a turn runs, and the clean-up of a prompt may run        *)
(* between two of their steps.                                             *)
(*                                                                         *)
(* The content of a path is the number of the turn that wrote it, and a    *)
(* snapshot is the content of every path.                                  *)
(***************************************************************************)
EXTENDS Integers, Sequences, SequencesExt

CONSTANTS Paths,     \* files of the working directory
          MaxTurns,  \* bound: turns
          MaxUndos   \* bound: undos

TurnsAssumption == MaxTurns \in Nat /\ MaxUndos \in Nat

VARIABLES
    files,     \* the working directory
    history,   \* the messages that matter here: prompts, starts, patches
    children,  \* patches of the child sessions' histories, with their pre-snapshots
    frames,    \* the revert_states rows, the newest last
    phase,     \* of the prompt: idle, peeked, cleaning (messages deleted, frames
               \* not), ready, running
    frontier,  \* the turn cleanup_revert_on_prompt found in the top frame; 0: none
    turns,     \* number of the newest turn
    pre,       \* turn_snapshot: the snapshot the running turn started from
    wrote,     \* the paths each turn wrote, itself or by a child
    \* the actor's handler of Undo or Redo
    handling,  \* none, tracked, restoring (undo), peeked, popping (redo)
    target,    \* the turn to undo
    saved,     \* pre_revert_snapshot, or the snapshot to go back to
    patches,   \* all_patches
    left,      \* those still to be restored
    undos,
    marks      \* what happened: raced, overlapped, forward, unsnapped, delegated,
               \* failed, uncleared

promptVars  == <<phase, frontier, turns, pre, wrote>>
handlerVars == <<handling, target, saved, patches, left, undos>>
vars == <<files, history, children, frames, promptVars, handlerVars, marks>>

-----------------------------------------------------------------------------
Contents == [Paths -> 0..MaxTurns]
NoSnapshot == <<>>

Prompt(t)      == [kind |-> "prompt", turn |-> t, snap |-> NoSnapshot, paths |-> {}]
Start(t, f)    == [kind |-> "start", turn |-> t, snap |-> f, paths |-> {}]
Patch(t, f, c) == [kind |-> "patch", turn |-> t, snap |-> f, paths |-> c]

Stored == {history[i] : i \in DOMAIN history}

Prompts == {m.turn : m \in {x \in Stored : x.kind = "prompt"}}

\* The position of the prompt of turn t, and the messages after it.
target_idx(t) ==
    CHOOSE i \in DOMAIN history : history[i].kind = "prompt" /\ history[i].turn = t
After(t) == SubSeq(history, target_idx(t) + 1, Len(history))

Top == frames[Len(frames)]

TypeOK ==
    /\ files \in Contents
    /\ \A m \in Stored :
          /\ m.turn \in 1..turns
          /\ m.kind = "prompt" => m.snap = NoSnapshot
          /\ m.kind \in {"start", "patch"} => m.snap \in Contents
          /\ m.paths \subseteq Paths
    /\ \A i \in DOMAIN children : children[i].snap \in Contents /\ children[i].paths \subseteq Paths
    /\ \A i \in DOMAIN frames : frames[i].turn \in 1..turns /\ frames[i].snap \in Contents
    /\ phase \in {"idle", "peeked", "cleaning", "ready", "running"}
    /\ turns \in 0..MaxTurns /\ frontier \in 0..turns
    /\ pre = NoSnapshot \/ pre \in Contents
    /\ wrote \in [1..MaxTurns -> SUBSET Paths]
    /\ handling \in {"none", "tracked", "restoring", "peeked", "popping"}
    /\ target \in 0..turns
    /\ IF handling = "none" THEN saved = NoSnapshot ELSE saved \in Contents
    /\ left \subseteq DOMAIN patches
    /\ \A i \in left : patches[i].snap \in Contents /\ patches[i].paths \subseteq Paths
    /\ undos \in 0..MaxUndos
    /\ marks \subseteq {"raced", "overlapped", "forward", "unsnapped", "delegated", "failed",
                        "uncleared"}

Init ==
    /\ files = [p \in Paths |-> 0]
    /\ history = <<>> /\ children = <<>> /\ frames = <<>>
    /\ phase = "idle" /\ frontier = 0 /\ turns = 0 /\ pre = NoSnapshot
    /\ wrote = [t \in 1..MaxTurns |-> {}]
    /\ handling = "none" /\ target = 0 /\ saved = NoSnapshot /\ patches = <<>> /\ left = {}
    /\ undos = 0 /\ marks = {}

-----------------------------------------------------------------------------
(***************************************************************************)
(* A turn.                                                                 *)
(***************************************************************************)
\* delete_messages_after deletes the frontier, too.
Surviving(t) == SubSeq(history, 1, target_idx(t) - 1)

\* cleanup_revert_on_prompt looks at the top frame.
PeekFrontier ==
    /\ phase = "idle" /\ turns < MaxTurns
    /\ phase' = "peeked"
    /\ frontier' = IF frames = <<>> THEN 0 ELSE Top.turn
    /\ marks' = marks \cup IF handling = "none" THEN {} ELSE {"overlapped"}
    /\ UNCHANGED <<files, history, children, frames, turns, pre, wrote, handlerVars>>

\* Without a frame it is done.  Else the messages from the frontier on are
\* deleted; if that fails, because the frontier is gone or for another reason,
\* the frames stay and the prompt goes on.
DeleteUndone(ok) ==
    /\ phase = "peeked"
    /\ IF frontier \in Prompts /\ ok
       THEN phase' = "cleaning" /\ history' = Surviving(frontier) /\ UNCHANGED marks
       ELSE /\ phase' = "ready" /\ UNCHANGED history
            /\ marks' = marks \cup IF frontier = 0 THEN {} ELSE {"failed"}
    /\ frontier' = 0
    /\ UNCHANGED <<files, children, frames, turns, pre, wrote, handlerVars>>

PopFrame(ok) ==
    /\ phase = "cleaning"
    /\ phase' = "ready"
    /\ frames' = IF frames = <<>> THEN frames ELSE Front(frames)
    /\ UNCHANGED <<files, history, children, frontier, turns, pre, wrote, handlerVars, marks>>

\* clear_revert_states; if it fails the prompt goes on with the frames.
ClearFrames(ok) ==
    /\ phase = "cleaning"
    /\ phase' = "ready"
    /\ frames' = IF ok THEN <<>> ELSE frames
    /\ marks' = marks \cup IF ok THEN {} ELSE {"uncleared"}
    /\ UNCHANGED <<files, history, children, frontier, turns, pre, wrote, handlerVars>>

\* The prompt is stored and the pre-turn snapshot taken, which may fail;
\* ensure_pre_turn_snapshot_ready stores it before the first tool runs.
StartTurn(snapped) ==
    LET t == turns + 1
    IN  /\ phase = "ready"
        /\ phase' = "running"
        /\ turns' = t
        /\ pre' = IF snapped THEN files ELSE NoSnapshot
        /\ history' = history \o IF snapped THEN <<Prompt(t), Start(t, files)>> ELSE <<Prompt(t)>>
        /\ marks' = IF snapped THEN marks ELSE marks \cup {"unsnapped"}
        /\ UNCHANGED <<files, children, frames, frontier, wrote, handlerVars>>

Writes(ps) ==
    /\ files' = [p \in Paths |-> IF p \in ps THEN turns ELSE files[p]]
    /\ wrote' = [wrote EXCEPT ![turns] = @ \cup ps]

\* A tool of the turn writes a file.
ToolWrites(p) ==
    /\ phase = "running"
    /\ files[p] # turns
    /\ Writes({p})
    /\ UNCHANGED <<history, children, frames, phase, frontier, turns, pre, handlerVars, marks>>

\* A child session of the turn runs a turn of its own and stores its snapshots.
ChildWrites(p) ==
    /\ phase = "running"
    /\ files[p] # turns
    /\ Writes({p})
    /\ children' = Append(children, Patch(turns, files, {p}))
    /\ marks' = marks \cup {"delegated"}
    /\ UNCHANGED <<history, frames, phase, frontier, turns, pre, handlerVars>>

\* The post-turn snapshot: the patch lists what differs from the pre-turn
\* snapshot; taking, comparing or storing it may fail.
EndTurn(stored) ==
    LET changed == {p \in Paths : pre # NoSnapshot /\ files[p] # pre[p]}
    IN  /\ phase = "running"
        /\ phase' = "idle"
        /\ pre' = NoSnapshot
        /\ history' = IF changed # {} /\ stored
                      THEN Append(history, Patch(turns, files, changed)) ELSE history
        /\ marks' = IF stored THEN marks ELSE marks \cup {"unsnapped"}
        /\ UNCHANGED <<files, children, frames, frontier, turns, wrote, handlerVars>>

-----------------------------------------------------------------------------
(***************************************************************************)
(* Undo and redo.                                                          *)
(***************************************************************************)
\* Of the messages after the prompt of turn t a patch gets the snapshot its turn
\* started from; a patch without a start is skipped, and so are other messages.
SessionPatches(t) ==
    LET starts == {m \in ToSet(After(t)) : m.kind = "start"}
        Collect(m) == IF m.kind = "patch" /\ \E s \in starts : s.turn = m.turn
                      THEN Patch(m.turn, (CHOOSE s \in starts : s.turn = m.turn).snap, m.paths)
                      ELSE Patch(m.turn, NoSnapshot, {})
    IN  [i \in DOMAIN After(t) |-> Collect(After(t)[i])]

\* The patches in the order they are collected.  Those of the child sessions
\* are all of them, whenever they were made.
Patches(t) == SessionPatches(t) \o children

\* An undo or redo while a prompt is being processed, or while it cleans up.
RaceMark ==
    CASE phase = "idle" -> {}
      [] phase \in {"ready", "running"} -> {"raced"}
      [] phase \in {"peeked", "cleaning"} -> {"overlapped"}

HandlerEnds ==
    handling' = "none" /\ target' = 0 /\ saved' = NoSnapshot /\ patches' = <<>> /\ left' = {}

\* undo_impl takes a snapshot of the files as they are.
UndoTracks(t) ==
    /\ handling = "none" /\ undos < MaxUndos /\ t <= turns
    /\ handling' = "tracked" /\ target' = t /\ saved' = files
    /\ undos' = undos + 1
    /\ marks' = marks \cup RaceMark
    /\ UNCHANGED <<files, history, children, frames, promptVars, patches, left>>

\* It reads the histories and collects the patches, if the message is there.
UndoCollects ==
    /\ handling = "tracked" /\ target \in Prompts
    /\ handling' = "restoring"
    /\ patches' = Patches(target)
    /\ left' = {i \in DOMAIN patches' : patches'[i].paths # {}}
    /\ marks' = marks \cup IF frames # <<>> /\ target > Top.turn THEN {"forward"} ELSE {}
    /\ UNCHANGED <<files, history, children, frames, promptVars, target, saved, undos>>

\* It returns if the message is not there or a history cannot be read.
UndoGivesUp ==
    /\ handling = "tracked"
    /\ HandlerEnds
    /\ UNCHANGED <<files, history, children, frames, promptVars, undos, marks>>

\* restore_paths puts back the paths ps, of the i-th patch: all of its paths
\* unless it fails, which is only logged.
Restores(i, ps) ==
    /\ handling = "restoring" /\ i \in left
    /\ files' = [p \in Paths |-> IF p \in ps THEN patches[i].snap[p] ELSE files[p]]
    /\ left' = left \ {i}
    /\ marks' = marks \cup IF ps = patches[i].paths THEN {} ELSE {"failed"}
    /\ UNCHANGED <<history, children, frames, promptVars, handling, target, saved, patches, undos>>

UndoRestoresFirst(i, ps) == (\A j \in left : i <= j) /\ Restores(i, ps)

\* The patches are undone last first.
UndoRestores(i, ps) == (\A j \in left : j <= i) /\ Restores(i, ps)

\* The frame is pushed; if that fails the files stay restored.
UndoPushes(ok) ==
    /\ handling = "restoring" /\ left = {}
    /\ frames' = IF ok THEN Append(frames, [turn |-> target, snap |-> saved]) ELSE frames
    /\ marks' = marks \cup IF ok THEN {} ELSE {"failed"}
    /\ HandlerEnds
    /\ UNCHANGED <<files, history, children, promptVars, undos>>

\* redo_impl looks at the top frame.
RedoPeeks ==
    /\ handling = "none" /\ frames # <<>>
    /\ handling' = "peeked" /\ saved' = Top.snap
    /\ marks' = marks \cup RaceMark
    /\ UNCHANGED <<files, history, children, frames, promptVars, target, patches, left, undos>>

\* It restores the paths that differ, ps of them; if that fails it returns.
RedoRestores(ps) ==
    LET changed == {p \in Paths : files[p] # saved[p]}
    IN  /\ handling = "peeked" /\ ps \subseteq changed
        /\ files' = [p \in Paths |-> IF p \in ps THEN saved[p] ELSE files[p]]
        /\ IF ps = changed
           THEN handling' = "popping" /\ UNCHANGED <<target, saved, patches, left, marks>>
           ELSE HandlerEnds /\ marks' = marks \cup {"failed"}
        /\ UNCHANGED <<history, children, frames, promptVars, undos>>

\* pop_revert_state takes the frame that is then on top.
RedoPops(ok) ==
    /\ handling = "popping"
    /\ frames' = IF ok /\ frames # <<>> THEN Front(frames) ELSE frames
    /\ marks' = marks \cup IF ok THEN {} ELSE {"failed"}
    /\ HandlerEnds
    /\ UNCHANGED <<files, history, children, promptVars, undos>>

-----------------------------------------------------------------------------
Next ==
    \/ PeekFrontier
    \/ \E ok \in BOOLEAN : DeleteUndone(ok) \/ ClearFrames(ok) \/ StartTurn(ok) \/ EndTurn(ok)
    \/ \E p \in Paths : ToolWrites(p) \/ ChildWrites(p)
    \/ \E t \in 1..MaxTurns : UndoTracks(t)
    \/ UndoCollects \/ UndoGivesUp
    \/ \E i \in left : \E ps \in SUBSET patches[i].paths : UndoRestores(i, ps)
    \/ RedoPeeks
    \/ \E ps \in SUBSET Paths : RedoRestores(ps)
    \/ \E ok \in BOOLEAN : UndoPushes(ok) \/ RedoPops(ok)

Spec == Init /\ [][Next]_vars

-----------------------------------------------------------------------------
\* The message every revert frame names is still stored, except between the
\* two halves of the clean-up, and unless an undo or redo overlapped with a
\* clean-up or clear_revert_states failed: with a frontier that is gone, the
\* clean-up of every later prompt fails before it clears anything.
FrontierStored ==
    (phase # "cleaning" /\ marks \cap {"overlapped", "uncleared"} = {}) =>
       \A i \in DOMAIN frames : frames[i].turn \in Prompts

\* The turns whose changes the user should see: those stored before the
\* frontier of the top frame.
Visible == {t \in Prompts : frames = <<>> \/ t < Top.turn}

FilesOf(ts) ==
    [p \in Paths |-> LET by == {t \in ts : p \in wrote[t]}
                     IN  IF by = {} THEN 0 ELSE CHOOSE t \in by : \A u \in by : u <= t]

\* Between turns the working directory is what the visible turns wrote, through
\* any sequence of turns, stacked undos, redos and prompts that discard what
\* was undone.  Excepted are undos and redos while a prompt is processed, an
\* undo to a prompt after the frontier of the last one, delegations, and
\* failures to take a snapshot, to restore files or to update the store.
FilesFollowHistory ==
    (phase = "idle" /\ handling = "none" /\ marks = {}) => files = FilesOf(Visible)

\* "When undoing, it reverts all filesystem changes made after a specific
\* message" (agent/undo.rs): and no others, if child sessions wrote files, too.
UndoKeepsEarlierTurns ==
    (phase = "idle" /\ handling = "none" /\ marks \subseteq {"delegated"}) =>
       files = FilesOf(Visible)
=============================================================================
