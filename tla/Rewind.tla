------------------------------- MODULE Rewind -------------------------------
(***************************************************************************)
(* Checkpoints of the files a session's tools write, and rewinds to them:  *)
(* agent/turn.rs, checkpoint/store.rs and process_rewind of agent/agent.rs.*)
(*                                                                         *)
(* A turn backs up a file before it first writes it, in the directory of   *)
(* the message the turn is anchored to.  When it ends, the directory gets  *)
(* its meta.json and the session's manifest a line.  A rewind undoes what  *)
(* the turns from a checkpoint on have written, and removes them.          *)
(*                                                                         *)
(* One session, whose agent does all this in one task; the tools of a      *)
(* batch write under a lock per file.  A line of the manifest is a pair of *)
(* a sequence number and a message, and a hash is the content it stands    *)
(* for.                                                                    *)
(***************************************************************************)
EXTENDS Naturals, Sequences, SequencesExt, FiniteSets, FiniteSetsExt

CONSTANTS
  File,
  Content,
  Absent,     \* the content of a file that does not exist: "NULL"
  Skipped,    \* stands in for the hash of a file too large to back up
  Nothing,
  MaxListed,  \* max_checkpoints
  MaxAsks,    \* bound: user messages
  MaxSeq,     \* bound: sequence numbers of checkpoints
  MaxFaults   \* bound: what goes wrong, and what others write

ASSUME RewindAssumption ==
  /\ Content \cap {Absent, Skipped, Nothing} = {}
  /\ Absent # Skipped /\ Absent # Nothing /\ Skipped # Nothing
  /\ MaxListed \in Nat \ {0}
  /\ MaxAsks \in Nat /\ MaxSeq \in Nat
  /\ MaxFaults \in Nat

Msg == 1..MaxAsks

VARIABLES
  disk,    \* [File -> Content \cup {Absent}]: the working directory
  asked,   \* user messages so far
  talk,    \* the user messages in the agent's buffer
  phase,   \* what the agent is at
  turn,    \* the message the turn is anchored to, or the target of a rewind
  tracked, \* [File -> hash or Nothing]: tracked_files of the turn
  listed,  \* the lines of the manifest on disk
  list,    \* the manifest as create_checkpoint has it in hand
  dir,     \* [Msg -> checkpoint directory]
  scope,   \* the RewindTarget of a rewind
  todo,    \* files a rewind has still to restore
  doomed,  \* lines whose checkpoints a rewind has still to remove
  faults,
  base,    \* history: [Msg -> files as its first turn found them, or Nothing]
  lost     \* history: <<m, f>> for which the code does not keep what a rewind
           \* to m needs

work == <<phase, turn, tracked, list, scope, todo, doomed>>
store == <<listed, dir>>
accounts == <<base, lost>>
rewind == <<disk, asked, talk, work, store, faults, accounts>>

Untracked == [f \in File |-> Nothing]
NoDir == [objects |-> {}, meta |-> Untracked]
Targets == {"conversation", "files", "both"}

RewindInit ==
  /\ disk \in [File -> Content \cup {Absent}]
  /\ asked = 0 /\ talk = <<>>
  /\ phase = "idle" /\ turn = Nothing /\ tracked = Untracked
  /\ listed = {} /\ list = {} /\ dir = [m \in Msg |-> NoDir]
  /\ scope = "both" /\ todo = {} /\ doomed = {}
  /\ faults = 0
  /\ base = [m \in Msg |-> Nothing] /\ lost = {}

Fault == faults < MaxFaults /\ faults' = faults + 1

-----------------------------------------------------------------------------
(***************************************************************************)
(* What the store has for a rewind.                                        *)
(***************************************************************************)
Saved(f) == tracked[f] # Nothing

\* The files a checkpoint's meta.json has something about; none, if it is missing.
Files(m) == {f \in File : dir[m].meta[f] # Nothing}

Msgs(lines) == {l[2] : l \in lines}
Of(m, lines) == {l \in lines : l[2] = m}
Oldest(lines) == CHOOSE l \in lines : \A k \in lines : l[1] <= k[1]

\* next_sequence, as the manifest is loaded.
Now == IF listed = {} THEN 1 ELSE 1 + Max({l[1] : l \in listed})

\* The sequence number of m's checkpoint.
Place(m) == IF Of(m, listed) = {} THEN Now ELSE Oldest(Of(m, listed))[1]

From(m) == {l \in listed : l[1] >= Place(m)}
Knows(m, f) == {l \in From(m) : f \in Files(l[2])}

\* MUTANT of Earliest: the backups are merged newest first.
EarliestLatest(m, f) == CHOOSE l \in Knows(m, f) : \A k \in Knows(m, f) : l[1] >= k[1]

\* The earliest backup from the target on wins.
Earliest(m, f) == Oldest(Knows(m, f))

Entry(m, f) == IF Knows(m, f) = {} THEN Nothing ELSE dir[Earliest(m, f)[2]].meta[f]

\* Its object is looked for in the target's directory and all later ones.
Stored(m, hash) == \E l \in From(m) : hash \in dir[l[2]].objects

\* What a rewind to m leaves of f.
Restored(m, f) ==
  CASE Entry(m, f) = Absent -> Absent
    [] Entry(m, f) \in Content /\ Stored(m, Entry(m, f)) -> Entry(m, f)
    [] OTHER -> disk[f]

\* What is lost with the account of the files F under the number k: the way
\* back to each m before it, unless an earlier checkpoint from m on knows the
\* file.
Losing(F, k) ==
  {x \in (Msgs(listed) \cup {turn}) \X F :
     Place(x[1]) <= k /\ \A l \in Knows(x[1], x[2]) : l[1] >= k}

\* The same for all lines of the manifest that have one message.
LosingAll(F, lines) == UNION {Losing(F, l[1]) : l \in lines}

-----------------------------------------------------------------------------
(***************************************************************************)
(* A turn.                                                                 *)
(***************************************************************************)

\* start_turn_if_needed, anchored to the last message of a user.
StartTurn(m) ==
  /\ phase = "idle"
  /\ phase' = "turn"
  /\ turn' = m
  /\ tracked' = Untracked
  /\ base' = [x \in Msg |-> IF x \in Msgs(listed) THEN base[x]
                           ELSE IF x = m THEN disk ELSE Nothing]
  /\ lost' = {x \in lost : x[1] \in Msgs(listed)}
  /\ UNCHANGED <<disk, store, list, scope, todo, doomed, faults>>

UserMessage ==
  /\ asked < MaxAsks
  /\ asked' = asked + 1
  /\ talk' = Append(talk, asked + 1)
  /\ StartTurn(asked + 1)

\* A run that is continued goes on under the message it has: a second turn with
\* the same anchor.
Continue ==
  /\ talk # <<>>
  /\ StartTurn(Last(talk))
  /\ UNCHANGED <<asked, talk>>

\* A message that comes while the turn is on does not start another.
Steer ==
  /\ phase = "turn"
  /\ asked < MaxAsks
  /\ asked' = asked + 1
  /\ talk' = Append(talk, asked + 1)
  /\ UNCHANGED <<disk, work, store, faults, accounts>>

\* track_file: only the first time in a turn.
Tracks(f) == IF Saved(f) THEN tracked ELSE [tracked EXCEPT ![f] = disk[f]]

\* A tool writes a file, having tracked it (and backed it up, if it is there),
\* under the file's lock.
Edit(f, c) ==
  /\ phase = "turn"
  /\ tracked' = Tracks(f)
  /\ dir' = IF Saved(f) \/ disk[f] = Absent THEN dir
            ELSE [dir EXCEPT ![turn].objects = @ \cup {disk[f]}]
  /\ disk' = [disk EXCEPT ![f] = c]
  /\ UNCHANGED <<asked, talk, phase, turn, list, scope, todo, doomed, listed, faults, accounts>>

\* The file is too large, or its backup fails, which does not keep the tool
\* from writing.
EditUnsaved(f, c) ==
  /\ phase = "turn" /\ ~Saved(f) /\ disk[f] # Absent
  /\ Fault
  /\ tracked' \in {tracked, [tracked EXCEPT ![f] = Skipped]}
  /\ disk' = [disk EXCEPT ![f] = c]
  /\ lost' = lost \cup Losing({f}, Now)
  /\ UNCHANGED <<asked, talk, phase, turn, list, scope, todo, doomed, store, base>>

\* Somebody else writes or deletes a file: a shell command, the user, another
\* session.
Meddle(f, c) ==
  /\ phase \in {"idle", "turn"}
  /\ Fault
  /\ disk' = [disk EXCEPT ![f] = c]
  /\ lost' = IF phase = "turn" /\ Saved(f) THEN lost
             ELSE lost \cup Losing({f}, Now)
  /\ UNCHANGED <<asked, talk, work, store, base>>

-----------------------------------------------------------------------------
(***************************************************************************)
(* create_checkpoint, at the end of a turn.                                *)
(***************************************************************************)

\* A second turn with the same anchor writes over the account of the first, and
\* puts what it found before what later checkpoints know.
WriteMeta ==
  /\ phase = "turn"
  /\ Now <= MaxSeq
  /\ phase' = "noted"
  /\ list' = listed
  /\ dir' = [dir EXCEPT ![turn].meta = tracked]
  /\ lost' = lost \cup LosingAll({f \in File : Knows(turn, f) # {}}, Of(turn, listed))
  /\ UNCHANGED <<disk, asked, talk, turn, tracked, listed, scope, todo, doomed, faults, base>>

\* enforce_retention, before the new checkpoint is added: the oldest goes, and
\* all lines of its message with it, though it be the turn's own.
Trim ==
  /\ phase = "noted"
  /\ phase' = "trimmed"
  /\ IF Cardinality(list) < MaxListed THEN UNCHANGED <<list, dir, lost>>
     ELSE LET m == Oldest(list)[2] IN
          /\ list' = list \ Of(m, list)
          /\ dir' = [dir EXCEPT ![m] = NoDir]
          /\ lost' = lost \cup LosingAll(Files(m), Of(m, list \cup {<<Now, turn>>}))
                     \cup ({turn} \cap {m}) \X File
  /\ UNCHANGED <<disk, asked, talk, turn, tracked, listed, scope, todo, doomed, faults, base>>

Save ==
  /\ phase = "trimmed"
  /\ phase' = "idle"
  /\ listed' = list \cup {<<Now, turn>>}
  /\ turn' = Nothing /\ tracked' = Untracked /\ list' = {}
  /\ UNCHANGED <<disk, asked, talk, dir, scope, todo, doomed, faults, accounts>>

\* The daemon dies, or the checkpoint cannot be written: what the turn has
\* tracked is forgotten.
TurnFails ==
  /\ phase \in {"turn", "noted", "trimmed"}
  /\ Fault
  /\ phase' = "idle"
  /\ lost' = lost \cup Losing({f \in File : Saved(f)}, Now)
  /\ turn' = Nothing /\ tracked' = Untracked /\ list' = {}
  /\ UNCHANGED <<disk, asked, talk, store, scope, todo, doomed, base>>

-----------------------------------------------------------------------------
(***************************************************************************)
(* process_rewind.                                                         *)
(***************************************************************************)

\* truncate_at: the messages before m stay.
Cut(m) ==
  IF m \in ToSet(talk) THEN SubSeq(talk, 1, (CHOOSE i \in DOMAIN talk : talk[i] = m) - 1) ELSE talk

\* A message without a checkpoint, or one whose store cannot be read just now:
\* only the conversation goes back.
RewindTalk(m, s) ==
  /\ phase = "idle"
  /\ m \in ToSet(talk)
  /\ IF m \in Msgs(listed) THEN Fault ELSE UNCHANGED faults
  /\ talk' = IF s = "files" THEN talk ELSE Cut(m)
  /\ UNCHANGED <<disk, asked, work, store, accounts>>

Rewind(m, s) ==
  /\ phase = "idle"
  /\ m \in Msgs(listed)
  /\ turn' = m
  /\ scope' = s
  /\ doomed' = From(m)
  /\ \/ s = "conversation" /\ phase' = "dropping" /\ UNCHANGED todo
     \/ /\ s # "conversation"
        /\ phase' = "restoring"
        /\ todo' = {f \in File : Entry(m, f) # Nothing}
  /\ UNCHANGED <<disk, asked, talk, tracked, list, store, faults, accounts>>

\* The later checkpoints, about which a rewind need not be right any more.
Past == {m \in Msgs(listed) : Place(m) > Place(turn)}

\* The files come back in any order.
Restore(f) ==
  /\ phase = "restoring"
  /\ f \in todo
  /\ disk' = [disk EXCEPT ![f] = Restored(turn, f)]
  /\ todo' = todo \ {f}
  /\ lost' = lost \cup {m \in Past : Knows(m, f) = {}} \X {f}
  /\ UNCHANGED <<asked, talk, phase, turn, tracked, list, scope, doomed, store, faults, base>>

\* MUTANT of Undone: checkpoints go before the files are back.
UndoneEarly == TRUE

Undone == todo = {}

\* Then the directories go, oldest first, and at last the manifest is written.
RemoveDir ==
  /\ phase \in {"restoring", "removing"}
  /\ Undone
  /\ doomed # {}
  /\ phase' = "removing"
  /\ LET m == Oldest(doomed)[2] IN
       /\ dir' = [dir EXCEPT ![m] = NoDir]
       /\ lost' = lost \cup {x \in LosingAll(Files(m), Of(m, listed)) : x[1] \in Past}
  /\ doomed' = doomed \ {Oldest(doomed)}
  /\ UNCHANGED <<disk, asked, talk, turn, tracked, listed, list, scope, todo, faults, base>>

\* Without the files each checkpoint from m on is deleted by itself, its
\* directory and then its lines.
Drop ==
  /\ phase = "dropping"
  /\ doomed # {}
  /\ LET m == Oldest(doomed)[2] IN
       /\ dir' = [dir EXCEPT ![m] = NoDir]
       /\ listed' = listed \ Of(m, listed)
       /\ lost' = lost \cup LosingAll(Files(m), Of(m, listed))
  /\ doomed' = doomed \ {Oldest(doomed)}
  /\ UNCHANGED <<disk, asked, talk, phase, turn, tracked, list, scope, todo, faults, base>>

Rest == phase' = "idle" /\ turn' = Nothing /\ scope' = "both" /\ todo' = {} /\ doomed' = {}

\* The end of a rewind: the manifest, then the conversation.
Land ==
  /\ phase \in {"removing", "dropping"}
  /\ doomed = {}
  /\ Rest
  /\ listed' = IF phase = "removing" THEN {l \in listed : l[2] \notin Msgs(From(turn))} ELSE listed
  /\ talk' = IF scope = "files" THEN talk ELSE Cut(turn)
  /\ UNCHANGED <<disk, asked, tracked, list, dir, faults, accounts>>

\* A rewind that breaks off among the directories leaves later backups to be
\* taken for the earliest ones.
Astray ==
  {x \in (Msgs(listed) \ Past) \X File :
     Knows(x[1], x[2]) # {} /\ Earliest(x[1], x[2])[1] > Place(turn)}

\* A file operation fails, or the daemon dies.
RewindFails ==
  /\ phase \in {"restoring", "removing", "dropping"}
  /\ Fault
  /\ Rest
  /\ lost' = IF phase = "removing" THEN lost \cup Astray ELSE lost
  /\ UNCHANGED <<disk, asked, talk, tracked, list, store, base>>

\* The deletion of one checkpoint stops half way: its directory is gone.
DropFails ==
  /\ phase = "dropping"
  /\ doomed # {}
  /\ Fault
  /\ LET m == Oldest(doomed)[2] IN
       /\ dir' = [dir EXCEPT ![m] = NoDir]
       /\ lost' = lost \cup LosingAll(Files(m), Of(m, listed))
  /\ doomed' = doomed \ {Oldest(doomed)}
  /\ UNCHANGED <<disk, asked, talk, phase, turn, tracked, listed, list, scope, todo, base>>

Clear ==
  /\ phase = "idle"
  /\ talk' = <<>>
  /\ UNCHANGED <<disk, asked, work, store, faults, accounts>>

-----------------------------------------------------------------------------
RewindNext ==
  \/ UserMessage \/ Continue \/ Steer \/ Clear
  \/ \E f \in File, c \in Content : Edit(f, c) \/ EditUnsaved(f, c)
  \/ \E f \in File, c \in Content \cup {Absent} : Meddle(f, c)
  \/ WriteMeta \/ Trim \/ Save \/ TurnFails
  \/ \E m \in Msg, s \in Targets : Rewind(m, s) \/ RewindTalk(m, s)
  \/ \E f \in File : Restore(f)
  \/ RemoveDir \/ Drop \/ Land \/ RewindFails \/ DropFails

RewindSpec == RewindInit /\ [][RewindNext]_rewind

-----------------------------------------------------------------------------
\* At any time a rewind to a checkpoint would bring back the files as the turn
\* of its message found them, whatever was edited, continued, rewound, trimmed
\* or broken off since (checkpoint/store.rs:451-454).  The exceptions: files
\* that were written without a backup, or by others when no checkpoint knew
\* them; turns without a checkpoint; a second turn with the same anchor, whose
\* account replaces that of the first or goes with it; checkpoints dropped with
\* the conversation; a rewind that broke off while it removed directories.
RewindUndoes ==
  phase = "idle" =>
    \A m \in Msgs(listed), f \in File :
      <<m, f>> \notin lost => Restored(m, f) = base[m][f]

\* A rewind that comes to its end has brought them back, in whatever order it
\* restored and removed, also when it repeats one that failed.
RewindLands ==
  [][phase = "removing" /\ phase' = "idle" /\ faults' = faults =>
       \A f \in File : <<turn, f>> \in lost \/ disk[f] = base[turn][f]]_rewind
=============================================================================
