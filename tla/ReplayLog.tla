------------------------------ MODULE ReplayLog ------------------------------
(***************************************************************************)
(* The replay log of a match (src/src/goa2/server/replay.py), the save     *)
(* that carries it (engine/persistence.py, server/registry.py), rewinds    *)
(* voted by the table (server/ws.py) and the positions served to a viewer  *)
(* (server/routes_replays.py), under crashes, power cuts and disks that    *)
(* refuse to write.  The engine is deterministic: a session is named by    *)
(* the last decision that took effect, and a decision only fits the        *)
(* session it was made in.                                                 *)
(***************************************************************************)
EXTENDS Naturals, Sequences, SequencesExt

CONSTANTS
    MaxDecisions,  \* bound: decisions
    MaxRewinds,    \* bound: rewinds
    MaxClock,      \* bound: records of the clock's telemetry
    Positions,     \* bound: what a viewer asks for
    MaxRequests,   \* bound: requests of the viewer
    MaxFaults,     \* bound: writes that fail
    MaxStops       \* bound: crashes and power cuts

ASSUME ReplayAssumption ==
    {MaxDecisions, MaxRewinds, MaxClock, MaxRequests, MaxFaults, MaxStops} \cup Positions
        \subseteq Nat

VARIABLES
    session,   \* game.session
    records,   \* ReplayRecorder.records
    file,      \* the log on disk: its lines, and whether every one can be read
    save,      \* the save on disk: the session and replay_log
    proposal,  \* the open rewind: its target
    doing,     \* what the handler that holds the lock does next
    viewer,    \* the cached cursor of a replay viewer, and its request
    lost,      \* history: the file misses a record, or has one that was undone
    strayed,   \* history: a rewind was computed from such a file
    made,      \* decisions, rewinds, telemetry and requests so far
    faults, stops

logVars == <<session, records, file, save, proposal, doing, viewer, lost, strayed, made, faults, stops>>
counters == <<lost, strayed, made, faults, stops>>

\* GameSession after build_session_from_setup, and one no log leads to.
Start == 0
Drift == MaxDecisions + 1

\* A record: in which session it was written, a rewind's target, and (history)
\* the session it left.
Setup           == [type |-> "setup",     in |-> Start, to |-> 0, out |-> Start]
Clock(n)        == [type |-> "clock",     in |-> n,     to |-> 0, out |-> n]
Decision(in, n) == [type |-> "decision",  in |-> in,    to |-> 0, out |-> n]
Rewind(to, out) == [type |-> "ov_rewind", in |-> Start, to |-> to, out |-> out]

IsReplayDecision(r) == r.type \notin {"setup", "clock"}
Decisions(log) ==
    LET upto[n \in 0 .. Len(log)] ==
          IF n = 0 THEN <<>>
          ELSE IF IsReplayDecision(log[n]) THEN Append(upto[n - 1], log[n]) ELSE upto[n - 1]
    IN  upto[Len(log)]

-----------------------------------------------------------------------------
(* Reconstruction. *)

\* effective_indices: the decisions in force after the first n, by position.
EffectiveIndices(d) ==
    LET live[n \in 0 .. Len(d)] ==
          IF n = 0 THEN <<>>
          ELSE IF d[n].type = "ov_rewind" THEN live[d[n].to] ELSE Append(live[n - 1], n)
    IN  live

\* _apply_decision: one that does not fit raises, or leads elsewhere.
Apply(s, d) == IF d.in = s THEN d.out ELSE Drift

\* The decisions at some positions, one after the other.
Replay(d, s, order) ==
    LET after[k \in 0 .. Len(order)] == IF k = 0 THEN s ELSE Apply(after[k - 1], d[order[k]])
    IN  after[Len(order)]

\* rebuild_session_for_rewind
Rebuild(d, n) == Replay(d, Start, EffectiveIndices(d)[n])

\* ReplayCursor.seek, replay_game: forward one record at a time, back from the seed.
Forward(d, from, s, target) ==
    LET after[n \in from .. target] ==
          IF n = from THEN s
          ELSE IF d[n].type = "ov_rewind" THEN Rebuild(d, d[n].to) ELSE Apply(after[n - 1], d[n])
    IN  after[target]

\* Mutant: a backward seek moves the position and leaves the session where it was.
MutSeek(cursor, target) ==
    [cursor EXCEPT !.at = target,
        !.session = IF target < cursor.at THEN @
                                          ELSE Forward(cursor.decisions, cursor.at, @, target)]
Seek(cursor, target) ==
    [cursor EXCEPT !.at = target,
        !.session = IF target < cursor.at THEN Forward(cursor.decisions, 0, Start, target)
                                          ELSE Forward(cursor.decisions, cursor.at, @, target)]

-----------------------------------------------------------------------------
NoProposal == MaxDecisions + MaxRewinds + 1
NoCursor   == [stamp |-> 0, decisions |-> <<>>, at |-> 0, session |-> Start]
NoRequest  == [pc |-> "idle", stamp |-> 0, asked |-> 0, cursor |-> NoCursor]

\* create_game saves before the header is written.
LogInit ==
    /\ session = Start
    /\ records = <<Setup>> /\ file = [lines |-> <<Setup>>, whole |-> TRUE]
    /\ save = [session |-> Start, log |-> <<>>]
    /\ proposal = NoProposal /\ doing = "idle" /\ viewer = NoRequest
    /\ lost = FALSE /\ strayed = FALSE
    /\ made = [decisions |-> 0, rewinds |-> 0, clock |-> 0, requests |-> 0] /\ faults = 0 /\ stops = 0

\* _append: the mirror always has the record; the file may not, or only half.
Record(r) ==
    /\ records' = Append(records, r)
    /\ \/ /\ file' = [file EXCEPT !.lines = Append(@, r)]
          /\ UNCHANGED <<lost, faults>>
       \/ /\ faults < MaxFaults /\ faults' = faults + 1 /\ lost' = TRUE
          /\ \E torn \in BOOLEAN : file' = [file EXCEPT !.whole = @ /\ ~torn]

\* A decision the engine accepts: a commit, an answer, a timeout, a patch.
Decide ==
    /\ doing = "idle" /\ made.decisions < MaxDecisions
    /\ made' = [made EXCEPT !.decisions = @ + 1]
    /\ session' = made.decisions + 1
    /\ Record(Decision(session, made.decisions + 1))
    /\ doing' = "save"
    /\ UNCHANGED <<save, proposal, viewer, strayed, stops>>

\* record_clock, record_clock_turn: within a handler, or with none to save.
RecordClock ==
    /\ doing \in {"idle", "save"} /\ made.clock < MaxClock
    /\ made' = [made EXCEPT !.clock = @ + 1]
    /\ Record(Clock(made.clock + 1))
    /\ UNCHANGED <<session, save, proposal, doing, viewer, strayed, stops>>

\* finalize_timed_mutation: the save is replaced at once, or the old one stays.
SaveGame ==
    /\ doing = "save" /\ doing' = "idle"
    /\ \/ save' = [session |-> session, log |-> records] /\ UNCHANGED faults
       \/ faults < MaxFaults /\ faults' = faults + 1 /\ UNCHANGED save
    /\ UNCHANGED <<session, records, file, proposal, viewer, lost, strayed, made, stops>>

\* load_replay
Readable == file.whole /\ IsPrefix(<<Setup>>, file.lines)

-----------------------------------------------------------------------------
(* Rewinds by vote. *)

ProposeRewind(to) ==
    /\ doing = "idle" /\ proposal = NoProposal /\ made.rewinds < MaxRewinds
    /\ Readable /\ to \in 0 .. Len(Decisions(file.lines))
    /\ proposal' = to
    /\ UNCHANGED <<session, records, file, save, doing, viewer, counters>>

\* Rejected, cancelled or expired.
Withdraw ==
    /\ doing = "idle" /\ proposal # NoProposal
    /\ proposal' = NoProposal /\ doing' = "save"
    /\ UNCHANGED <<session, records, file, save, viewer, counters>>

\* The lock is held while a worker process replays the file.
Approve ==
    /\ doing = "idle" /\ proposal # NoProposal
    /\ doing' = "rewind"
    /\ UNCHANGED <<session, records, file, save, proposal, viewer, counters>>

Rewound == Rebuild(Decisions(file.lines), proposal)

FinishRewind ==
    /\ doing = "rewind" /\ Readable
    /\ session' = Rewound
    /\ made' = [made EXCEPT !.rewinds = @ + 1]
    /\ Record(Rewind(proposal, Rewound))
    /\ strayed' = (strayed \/ lost)
    /\ proposal' = NoProposal /\ doing' = "save"
    /\ UNCHANGED <<save, viewer, stops>>

\* The file cannot be read, a decision does not fit, or the worker died.
RefuseRewind ==
    /\ doing = "rewind"
    /\ proposal' = NoProposal /\ doing' = "save"
    /\ UNCHANGED <<session, records, file, save, viewer, counters>>

-----------------------------------------------------------------------------
(* Stops and starts. *)

\* A crash leaves the file as it is; a power cut takes what was not written
\* through, or damages it.  The save survives both.
Stop ==
    /\ doing # "down" /\ stops < MaxStops
    /\ stops' = stops + 1 /\ doing' = "down"
    /\ \/ UNCHANGED file
       \/ \E n \in 0 .. Len(file.lines) - 1 : file' = [file EXCEPT !.lines = SubSeq(@, 1, n)]
       \/ file' = [file EXCEPT !.whole = FALSE]
    /\ session' = Start /\ records' = <<>> /\ proposal' = NoProposal /\ viewer' = NoRequest
    /\ UNCHANGED <<save, lost, strayed, made, faults>>

\* restore_from_save: what lies behind the saved records stays if the restored
\* game is not concerned.
\* Mutant: whatever it is.
MutKeepable == file.whole /\ IsPrefix(save.log, file.lines)
Keepable ==
    /\ file.whole /\ IsPrefix(save.log, file.lines)
    /\ \A i \in Len(save.log) + 1 .. Len(file.lines) : ~IsReplayDecision(file.lines[i])

\* restore_all; resume_timers saves a timed match.  The save made at creation
\* has no header: a log lost or rewritten before the next save is left without,
\* and no rewind or viewer can read it.
RestoreAll ==
    /\ doing = "down" /\ doing' \in {"idle", "save"}
    /\ session' = save.session
    /\ records' = IF Keepable THEN file.lines ELSE save.log
    /\ \/ /\ file' = [lines |-> records', whole |-> TRUE] /\ lost' = FALSE
          /\ UNCHANGED faults
       \/ /\ ~Keepable /\ faults < MaxFaults /\ faults' = faults + 1
          /\ lost' = TRUE /\ UNCHANGED file
    /\ UNCHANGED <<save, proposal, viewer, strayed, made, stops>>

-----------------------------------------------------------------------------
(* A viewer of the log: requests run in threads beside the handlers. *)

\* _get_cursor takes the stamp of the file before it reads the file.
ViewerAsks ==
    /\ doing # "down" /\ viewer.pc = "idle" /\ made.requests < MaxRequests
    /\ made' = [made EXCEPT !.requests = @ + 1]
    /\ viewer' = [viewer EXCEPT !.pc = "read", !.stamp = Len(file.lines),
                                !.asked = Len(Decisions(file.lines))]
    /\ UNCHANGED <<session, records, file, save, proposal, doing, lost, strayed, faults, stops>>

\* A cursor stays as long as the file only grew.
Cursor ==
    LET c == viewer.cursor
        d == Decisions(file.lines)
    IN  IF c.stamp = viewer.stamp THEN c
        ELSE IF IsPrefix(c.decisions, d) THEN [c EXCEPT !.stamp = viewer.stamp, !.decisions = d]
        ELSE [NoCursor EXCEPT !.stamp = viewer.stamp, !.decisions = d]

\* get_replay_state: past the end is the end.
Clamp(n, c) == IF n < Len(c.decisions) THEN n ELSE Len(c.decisions)

ViewerSees ==
    /\ doing # "down" /\ viewer.pc = "read"
    /\ Readable \/ viewer.cursor.stamp = viewer.stamp
    /\ \E n \in Positions :
          viewer' = [viewer EXCEPT !.pc = "idle", !.cursor = Seek(Cursor, Clamp(n, Cursor))]
    /\ UNCHANGED <<session, records, file, save, proposal, doing, counters>>

\* load_replay raises.
Fail ==
    /\ doing # "down" /\ viewer.pc = "read" /\ ~Readable
    /\ viewer.cursor.stamp # viewer.stamp
    /\ viewer' = [NoRequest EXCEPT !.cursor = viewer.cursor]
    /\ UNCHANGED <<session, records, file, save, proposal, doing, counters>>

LogNext ==
    \/ Decide \/ RecordClock \/ SaveGame
    \/ (\E to \in 0 .. MaxDecisions + MaxRewinds : ProposeRewind(to))
    \/ Withdraw \/ Approve \/ FinishRewind \/ RefuseRewind
    \/ Stop \/ RestoreAll \/ ViewerAsks \/ ViewerSees \/ Fail

LogSpec == LogInit /\ [][LogNext]_logVars

-----------------------------------------------------------------------------
(* Properties. *)

\* The game as it was at a position of the log.
After(d, n) == IF n = 0 THEN Start ELSE d[n].out

\* Every position of a log leads there, rewinds of rewinds included.
Shows(d, s) ==
    /\ \A n \in 0 .. Len(d) : Rebuild(d, n) = After(d, n)
    /\ After(d, Len(d)) = s

\* Whenever clients may look, the mirror leads to the live game and the saved
\* log to the saved one, crashes and power cuts notwithstanding; so does the
\* file, unless the disk refused a write.  (Not after a rewind computed from a
\* file with a gap; and a log without its header leads there in principle only.)
LogIsTheGame ==
    ~strayed =>
        /\ doing # "down" => Shows(Decisions(records), session)
        /\ Shows(Decisions(save.log), save.session)
        /\ doing # "down" /\ ~lost => file = [lines |-> records, whole |-> TRUE]

\* A viewer is shown the game as it was at the position asked for, however the
\* cursor got there, and never without a decision recorded before the request.
ViewsShowThePast ==
    LET c == viewer.cursor
    IN  ~strayed /\ ~lost =>
            /\ c.session = After(c.decisions, c.at)
            /\ viewer.pc = "idle" => Len(c.decisions) >= viewer.asked
=============================================================================
