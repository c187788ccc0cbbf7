# Verification of the Guards of Atlantis II backend

TLA+ models of the game server in `src/`, model-checked with TLC and proved
about with TLAPS. The models are translated from the Python code under
`src/src/goa2` and `src/src/automata`; docs and tests are used to find out what
the code is meant to do.

Contents: 1 the system, 2 the modules, 3 the runs, 4 what the algorithms are
checked for, 5 observations, 6 the proofs, 7 what is not modelled, 8 the plan.

## 1. The system

A match is a `GameState` (pydantic) driven by a stack of steps. A FastAPI server
keeps the matches in a registry; players act over REST or a WebSocket; a chess
clock, a table vote and a bot coordinator act on the same match. Everything that
mutates a match runs under its `asyncio.Lock` (`ManagedGame.lock`), so a handler
is one critical section, but handlers await inside it (worker processes, files)
and much runs outside it (deadline tasks, expiry tasks, bot computation, sends).

| Component | Code (`src/src/goa2`) | State | What is hard | What makes it correct | Modules |
|---|---|---|---|---|---|
| Chess clock | `domain/time_control.py` | pools per player, status, targets, revision | three pools and an overrun, one-shot grants, zero boundaries | no negative pool, no bank beside a debt, no double grant | GameClock |
| Match time control | `server/time_control.py` | deadline task, last settlement | a decision racing its deadline; tasks that outlive their reason | the clocks that run are those of the players the table waits for; a running clock has a deadline; nobody pays for server time | MatchClock |
| WebSocket and REST gateway | `server/ws.py`, `server/routes_games.py` | connections, outbound order | errors after half a handler; sockets that drop between two sends | every path finalizes; clients see the match as it is | MatchClock, Fanout |
| Consensus overrides | `server/overrides.py`, `engine/overrides.py` | open proposal, votes, expiry task | votes racing expiry; a rewind that awaits while the match is locked | resolved once, by a majority of the snapshot; clocks stopped meanwhile | Ballot, TableVote, MatchClock |
| Worker processes | `server/workers.py` | process pool | one broken pool, many callers | a healthy pool is never discarded | HeavyPool |
| Bot coordinator, bounded computation | `server/bots.py`, `server/bounded_compute.py` | drive task, agents, searches, permits | stale decisions, lost wake-ups, threads that cannot be cancelled | a bot whose turn it is acts; permits never leak | BotDrive |
| Registry, persistence | `server/registry.py`, `engine/persistence.py` | matches, save files | crash between handlers | the file holds what the players saw | MatchClock, Rollback, ReplayLog |
| Replay log | `server/replay.py`, `server/routes_replays.py` | log and its mirror, cached cursors | a crash between append and save, power cuts, failed writes; rewinds of rewinds | the log leads to the game, at every position | ReplayLog |
| Planning and turn cycle | `engine/phases.py`, `engine/steps/phases.py`, `domain/models/unit.py` | phase, cards, unresolved heroes, tie breaker | second cards, empty hands, cards that move in another hero's turn | every hero acts once; planning never hangs; no card is lost | TurnCycle, Loadouts |
| Execution stack | `engine/handler.py` | step stack, context | what an abort clears | the turn is always finalized | ExecStack |
| Rollback | `engine/session.py` | snapshot, anchor actor | snapshots that outlive a boundary | only own choices are undone | Rollback |
| Effect lifecycle | `engine/effect_manager.py` | active effects, card flags | dormant effects, three sweeps, cards that move | each effect ends once, in time | Effects |
| Minions, lanes, end of the match | `engine/steps/combat.py`, `engine/map_logic.py` | zones, waves, life counters | simultaneous pushes with prompts between them | a decided match ends; pushes refill zones | Lanes |
| Board and rules | `domain/hex.py`, `engine/topology.py`, `engine/rules.py`, `engine/steps/movement.py`, `engine/steps/markers.py`, filters | none of its own | cracks, barriers, mines; two searches for one move; batches that must go through | what is offered is legal, and what is legal is offered | Hexes, Paths, Moves, Tokens |
| Hidden information | `domain/views.py`, `domain/card_knowledge.py`, `automata/runtime/determinize.py` | none of its own | what a card that moves gives away | a view depends on public facts only; a sampled world looks the same | Loadouts |
| Draft | `draft/`, `server/routes_draft.py` | lobby, teams, pool, sequence | leaving sides and settings between picks | team sizes, one hero per player | Draft |
| Reports, shares, admin, logging | `server/shares.py`, ... | files | | formatting and files | |
| Hero content | `scripts/`, `data/` | | one effect class per card | content | |
| Automata | `src/src/automata` | models, datasets | agents, search, training | bot policies | (Loadouts) |

## 2. Modules

| Module | Content |
|---|---|
| `GameClock`, `MatchClock`, `MatchClockMC` | the clock's functions as operators on a record; a timed match; its instances |
| `BotDrive`, `BotDriveMC` | the bot coordinator of any number of matches and the bounded searches they share |
| `TurnCycle`, `TurnCycleMC` | planning, revelation, acting order, end of turn and round, and every hero's cards |
| `Ballot` | what a vote promises, abstractly |
| `HeavyPool` | the shared process pool |
| `TableVote` (extends `HeavyPool`), `TableVoteMC` | proposals, votes, timers and the rewinds computed in the pool; implements `Ballot` |
| `ExecStack`, `ExecStackMC` | the steps of a turn, what texts push and what an abort clears |
| `Rollback`, `RollbackMC` | the snapshot a player may go back to |
| `Fanout`, `FanoutMC` | sockets and the views they are sent |
| `Draft`, `DraftMC` | lobby, bans, picks and claims |
| `Lanes`, `LanesMC` | minions, pushes, life and wave counters |
| `ReplayLog`, `ReplayLogMC` | the log of decisions, the save that carries it, rewinds and viewers, on a disk that fails |
| `Effects` | the life of active effects |
| `Hexes`, `Paths`, `Moves` | geometry and cracks; searches over the board; forced and straight moves, mines |
| `Tokens` | tokens, their supply, and rows and batches of them |
| `PathsMC`, `MovesMC`, `TokensMC` | the laws of the four, over small boards; checked with the run of `LanesMC` |
| `Loadouts`, `LoadoutsMC` | levels, upgrades, views, inference and sampling of cards; its laws, checked with the run of `DraftMC` |
| `MatchClockProofs` (with the lemmas about `GameClock`), `BotDriveProofs`, `TurnCycleProofs`, `TableVoteProofs`, `ExecStackProofs`, `FanoutProofs`, `RollbackProofs` (about `Rollback` and `ReplayLog`), `BoardProofs` (about `Lanes`, `Effects` and `Draft`) | inductive invariants and theorems |

### GameClock

A clock is the record `Clock`; its fields are those of `GameClockState` with the
per-player fields gathered into `pool[h]`, `ready`, `locked`, and round and turn
merged into one counter. `state.clock is None` is the status `UNTIMED`. Time is
counted in ticks. `revision` is only compared for equality with the value the
deadline task captured, so the model keeps `moved`: was it bumped since the
deadline was scheduled? `Spend`, `Settle`, `TurnPools`, `BeginSharedTurn`, the
three grants, `Activate`, `Exhausted` and `Delay` are the functions of the same
purpose in the code, operators that take the elapsed time instead of two stamps.

### MatchClock

| Variable | Code |
|---|---|
| `table` | `GameState`: phase, turn, `pending_inputs`/`planning_done`, `pending_upgrades`, `last_result.input_request` and `resolution_owner_id`; the session's rollback snapshot as the prompt it goes back to (`anchor`) |
| `clock`, `lag` | `GameState.clock`, and the ticks since `last_settled_at_ms` |
| `proposal` | the family of `ManagedGame.pending_override` |
| `timer` | `ManagedGame.timer_task`: sleeping, and for how long |
| `job` | the handler that holds `ManagedGame.lock` and its program counter |
| `saved` | what `registry.save_game` wrote last |
| `crashes`, `lastHuman` | history, used by properties and bounds only |

A decision of a client goes through `ClientBegin` (take the lock, charge the
elapsed time), one action per due timeout (`PlanningTimeout`, `LevelUpTimeout`,
`InputTimeout`, `TeamPartlyDry`, `NothingDue`: the loop of
`apply_due_timeouts`), `Prepared` (the end of `prepare_timed_mutation`),
`DecisionLost` / `DecisionAccepted` / `DecisionRefused` (the handlers of `ws.py`)
and `Finish` (`finalize_timed_mutation`). Deadline workers (`DeadlineFire`,
`DeadlineStale`, `DeadlineDone`), approved proposals (`ProposalApproved`, then
`ApplyPause`, `ApplyPatch`, `RewindDone`, `RewindFailed`) share these steps.
`BotDecide` is the locked part of the bot coordinator, `RestartFrom` a restart
from a file, `Crash` at any moment, `Shutdown` with the lock free. A player's
ROLLBACK is a message like the others: it stops the clocks, counts as a human
action and puts the prompt of `anchor` back. A restart asks the pending prompt
again under the id it had: `pending_request_id` is a field of the step that asks
(`engine/steps/base.py:42`), it is in the file, and `process_stack` uses it again.

The rules engine is a nondeterministic environment: `EngineNext` gives the
tables it may leave behind (a prompt to one hero or a team, a new turn, the
upgrade requests, the end of the match), `Plan` says when planning closes, and
`Decide` when a message is accepted. Time passes (`Tick`) between handlers, while
the engine computes after an accepted decision, and while a rewind is replayed;
`prepare` itself takes no time, as it uses one timestamp.

### BotDrive

`MatchClock` contains the locked application of a bot's decision as one step;
`BotDrive` is about everything around it, and abstracts the clock to "running",
"held" (waiting for players, paused, suspended) and "removed".

| Variable | Code |
|---|---|
| `match` | what the coordinator reads of `GameState` and `last_result`: phase, turn, who planned, the pending request with its identity and addressees |
| `status` | may the match run (`_is_runnable_for_bots`); is it in the registry |
| `agents` | `ManagedGame._bot_agents` is built |
| `wake` | a deadline worker has applied timeouts and still has to call `schedule_bot_drive` (it does so after the lock is released) |
| `task` | `ManagedGame.bot_task`: where the worker is, the decision it computes or carries, the search it awaits |
| `permits`, `future` | the process-wide semaphore and the tracked executor futures |
| `lost` | history: did the last worker fail, or did a wake-up come while it was finding nothing to do |

A worker runs `Look` (snapshot under the lock), `Build` (agents, once, in a
thread), then `Compute` for an unbounded bot or for nobody's decision, or
`StartSearch` / `QueueTimeout`, `SearchEnds` / `SearchTimeout` and `Fallback` for
a bounded one, and at last `Apply` or, without a decision, `PlainAdvance`. The
steps between two critical sections interleave with `HumanActs`, `DeadlineActs`,
`Woken`, `Hold`, `Resume`, `Remove` and with `LateCompletion`, the end of a thread
nobody waits for. `Schedule` is `schedule_bot_drive`: it starts a worker unless one
is alive. The pause between two bot decisions is part of the stage `look`. Which
of several eligible bots is asked is left open; the code takes the first of the
roster.

### TurnCycle

The engine is single-threaded: a call of a player runs the stack until a step
asks for input or the stack is empty. `pc` is what the top of the stack is about
to do, `stack` what lies below, `hero[h]` the cards of a hero (`hand`, the
current and extra card, the slots of the round, the discard pile), `plan[h]` the
commits of planning, `unresolved`, `actor`, `owner`, `coin` the fields of the
same purpose. `Commit`, `CommitSecond`, `Uncommit` and `FinishPlanning` are the
calls of planning; `Reveal`, `RetrieveUnresolved`, `StartPayload` its end;
`NextActor`, `BreakTie`, `Respawn` the order of acting; `Finalize`, `EndTurn`,
`AdvanceTurn`, `EndPhase`, `EndPhaseCleanup`, `Upgrade` the ends of turn and round.
What a card does to turns and cards is a choice of effects: `Defeat`, `Nest`,
`FlipCoin`; `Schedule`, a payload for the end of the turn, of the round or after the
next reveal; `Discard` from hand, from a slot, or of the card its hero plays;
`Retrieve` and `RetrieveDiscard`; and `Swap`, which stands for the four steps that
exchange cards (`SwapCardStep`, `SwapResolvedCardsStep`, `SwapWithDeckCardStep`,
`SwapItemCardStep`): two cards of a hero change places, wherever they are. `deck`
lumps the cards that are out of play: in the deck, items, and retired. `pass_turn`
is never reached, because heroes with empty hands are passed automatically.

Left out are what a card does to the board, gold and the patch operations; what
an exchange of items does to initiative and to effects (for effects, see `Effects`),
and with it a discard shield that such an exchange brings to a hero's turn card before
its turn (shields in slots and in hand are in `Discard`); the three cards that Takahide's
ultimate moves between hand and deck when a round ends (`takahide_effects.py` 669-720);
and that a hero may owe several upgrades at once, which count as one.

### Ballot, HeavyPool and TableVote

`Ballot` says what an override promises: one proposal at a time, one vote per
player that may be changed, decided once, carried out only if more than half
of the players at the table voted yes (an approved rewind may fail, and preparing the
match may raise, so not always). `TableVote` has the code's record
(`proposal`), its timer task (`expiry`), the lock that orders messages
(`holder`, `step`), what is still to be sent (`outbox`) and the sockets that come
and go. `Resolve`, `CarryOut` and `Announce` are the parts of one handler between
two awaits; `Expire` is the timer, which may cancel itself on its way out (`Cut`).
A rewind is a call of `HeavyPool`: `Submit`, `Start`, `Finish`, `JobFails`, `Die`
and `Broke` are `run_heavy`, the executor and the death of a worker. The
refinement maps `state` to the outcome shown to players, `voters`, `ayes` and
`nays` to the record, `carried` to a history variable.

### ExecStack

`stack` is `execution_stack` as a sequence of frames (kind, attack, variant);
`saved`, `depth`, `victim`, `defender` and `primary` are the keys of
`execution_context` that steps save and restore. `Attack`, `Perform`,
`ForceMove` and `CastWish` push what the text of a card pushes; `Abort` clears the
stack up to `Boundary`, keeps a defended combat (`PendingCombat`) and unwinds
contexts (`Unwound`). On-block and pre-action texts do not abort, attacks share
the default victim key, and `stop_before_step` and the step limit are left out.
When an abort stops at a Wish inside a performed action the code restores all
contexts though outer restore steps remain; `ContextsUnwound` claims the order
that holds.

### Rollback

`table` is the part of `GameState` a snapshot saves; `snap`, `snapOwner` are
`_rollback_snapshot`, `_rollback_actor_id`. `Ask` is `_manage_rollback` at a
prompt, `Forget` at a boundary, `Rollback(h)` the message, `Restart` a load from
the file. `Patch`, `Unstick` and `ForceEnd` are overrides the table approved in the
middle of an action: they change the table and ask again (`advance(None)`), and none
drops the snapshot. An action is reduced to its prompts and reveals. `since` notes
what a rollback would undo. Left out are a rewind, whose session starts without a
snapshot, patches during planning, which ask nothing, and control effects after a
forced change of actor: the hero itself is then asked.

### Fanout

A handler that changes the match holds `outbound_lock` from before the change to
its last send; each send may suspend. `Capture` is `capture_broadcast`, `Send`
one `send_json`, `Register` / `Greet` / `HangUp` a connection, `Drop` the loss of a
socket at any moment. A view is the number of the change it was built from.
`game.lock` is only held across a suspension by somebody who holds
`outbound_lock`, so it orders nothing and is left out, as are pings, pointers
and the messages of proposals. `untold` notes a change its task tells nobody.

### Draft

One action per request of `routes_draft.py`: `Join`, `SetTeam`,
`RandomizeTeams`, `SetCaptain`, `UpdateSettings`, `StartDraft`, `ApplyAction`,
`ClaimHero`; `Sequential`, `Snake` and `Chaos` are the orders of `modes.py`. The
creation of the match is assumed to succeed; tokens and the socket are left out.

### Lanes

A place is a zone, not a hex. `board` is the map's lanes, `zone` their Battle
Zones, `at` the zone of each minion, and `todo` the stack of steps still to run.
Actions of heroes (`DefeatMinion`, `MoveMinion`, `RespawnMinion`, `LoseLives`,
`RestoreLife`) come between the steps of the ends of turns and rounds
(`ReturnMinion`, `MinionBattle`, `ChooseMinionRemoval`, the four outcomes of
`CheckLanePushStep`, `PushWins`, `PushMoves`, `ResolveDisplacement`);
`SetLifeCounters` is the approved override. Zones are never full; the order of
returns, gold, markers and minion protection are abstracted; the wins of solo and
Wish rules are left out.

### ReplayLog

| Variable | Code |
|---|---|
| `session` | `ManagedGame.session`, named by the last decision that took effect |
| `records`, `file`, `save` | `ReplayRecorder.records`, the log on disk (its lines, and whether each can be read), the save with its `replay_log` |
| `proposal`, `doing` | the target of an open rewind; what the holder of the lock does next |
| `viewer` | a request for a position and the cursor cached for the match |
| `lost`, `strayed` | history: the file lacks a record or has one that was undone; a rewind was computed from such a file |

The engine is deterministic, so a decision is a record of the session it was
made in and of the one it leads to (`out`, history), and applied anywhere else
it leads to `Drift`. `Record` is `_append`: the mirror always takes the record, the
file may refuse it or tear. `Decide`, `RecordClock`, `SaveGame` are the parts of a
handler a crash can come between; `ProposeRewind`, `Approve`, `FinishRewind`,
`RefuseRewind`, `Withdraw` a vote; `Stop` is a crash, which leaves the file, or a
power cut, which takes its tail or damages it; `RestoreAll` is `restore_all` with
`restore_from_save` (`Keepable`). `EffectiveIndices`, `Rebuild`, `Forward` and `Seek` are
the reconstruction; `ViewerAsks` and `ViewerSees` the two looks a viewer's thread takes at
the file (`Cursor`). Assumed: the save's `os.replace` survives a power cut, as
`replay.py` 174-176 says; the header is written right after creation (a crash in
between leaves a match nobody has a link to); an exception in the engine leaves
the session as it was. Saves from before the log was carried are left out.

### Hexes, Paths, Moves and Tokens

Operators, no state. `Hexes` is cube geometry and the cracks of the board
(`TopologyService`): which spaces see each other. `Paths` has the breadth-first
searches as rounds of a set: the spaces offered for a move, the check when it is
carried out, the nearest free spaces of a zone. A board is a record of spaces as
one unit sees it: which cracks and barriers it minds, given immunity, is
part of the record. `Moves` adds straight moves, what is offered for them, mines,
pushes, pulls, rows of units and drags of a pair. The drag is that of two units; PETRIFY
terrain, the prevention of displacement and what a mine does are left out. The
parameter `end_hex` of the search, for which `TraversableNeighbors` takes a set,
lets nobody end on an obstacle: `ValidateMovementPath` refuses it first.
`PreviewPush`, `LegalDistance` and `MirroredPush` are Razzle's push, in which the
actor moves as far the other way: how it is offered and how it is carried out.

`Tokens` puts tokens of one type on such a board. A world is the board, the spaces
of the tokens and their supply; since prompts decide which tokens are taken up
when the supply is out, an operation has a set of outcomes. `PlaceToken` is the
step for one token, `PlaceTokensInLine` and `PlaceTokenTrail` those for rows, with
the removals of a shortfall first, `PlaceTokenBatch` the step for several that
are placed together or not at all: its feasibility check (`Feasible`), and the two
filters that offer removals (`TokenRemovalCompletable`) and spaces
(`HexBatchCompletable`), which search through the rest of the batch
(`Completions`). Two rules stand for the cards' filters: tokens apart from each
other (Emmitt's) and tokens far from the actor next to an enemy (Mrak's). Tokens on
terrain, effects linked to tokens, the relocation of a token, the turret, runes and
markers are left out.

### Loadouts

Operators on the record of a hero: the active card of each colour (`cards`),
where it lies (`at`, `down`), the tucked items (`tucked`, `items`), level and
gold. `LevelUp`, `Options`, `ResolveUpgrade` and `ApplyUpgrade` are the upgrade
phase with its simultaneous choices; `View` and `CardVisible` what others see;
`Ordinary`, `MatchesReveals`, `Hypotheses`, `KnowledgeStatus` what can be inferred;
`Candidates`, `ApplyHypothesis`, `DeterminizeHero` the worlds a search samples.
Spells, ultimates, the owner's full view and items made by effects are left out.

### Effects

`effects` is `state.active_effects`, `place` and `flag` the `state` and `is_active`
of each card. An effect's kind stands for its `effect_type` and
`scope.affects`, `payload` for `finishing_steps`. `Refreshed`, `Cut`, `Run` are what
the handlers of `effect_manager.py` share. `CreateEffect`, `ExpireEffectById`,
`CancelEffects`, `DefeatHero` are effects that come and go; `DiscardCard`,
`RetrieveCard`, `SwapCards`, `SwapItemCard`, `ConvertCardToItem`, `PlayCard`,
`UnplayCard`, `RetrieveUnresolvedCard`, `FinalizeHeroTurn` cards that move; `Reveal`,
`EndTurn`, `AdvanceTurn`, `EndPhase`, `EndPhaseCleanup`, `ApplyHeroUpgrade`,
`RoundReset` the calendar. `EndTurn` waits until no card is unresolved, which
stands for the empty pool of unresolved heroes. Any effect may be created or
cancelled while steps run, whatever card would do it, so the theorems hold for
all hero content that goes through these handlers. Spells, the ultimate of
Takahide, effects added or cards moved by vote and sources that are no heroes
are left out. The module has no run of its own: its seven invariants are
proved (section 6).

## 3. Runs

Every run asks one question of one instance.

| Run | Instance | Checks | Shows |
|---|---|---|---|
| core | an enforced match of two heroes, 2 turns, 2 prompts, 1 restart | TypeOK, ClockAgrees, DeadlineArmed, ElapsedIsCharged, AcceptedDecisionIsFree, NoRefund, RestartKeepsDecisions, SuspendedOnlyIfAbandoned | clocks, deadlines and grants stay right under every order of decisions, deadlines, ready checks and a crash |
| overrides | one hero a bot, one with a second card, every proposal family, 1 restart | PauseHolds | a paused match is frozen, whatever arrives, also across a restart |
| live | silent players, fairness | SilenceIsOvertaken | deadlines end every wait |
| bots | two bots, one bounded, and a human; one permit, two future names | PermitsKept, StrandedOnlyIfMissed, AnswersItsTurn, BotsAct | permits are conserved, answers fit their turn, a bot acts even if no search ever ends |
| turns | two heroes of one team, one with a second card, against one whose deck and levels are in play; three cards each, rounds of three turns | NeverStuck, CardsConserved, SlotPerTurn, CommitsAreHonoured, RoundsEnd | every committed card gets its turn, no card is lost or doubled, planning is never stuck, and every round ends |
| table | three players, one unreliable; two proposals; a second user of the worker pool; two worker deaths | TimerPerProposal, ToldUnlessLost, IsBallot, ReplacementKept, ProposalsEnd | the handlers implement the vote; everyone is told; a healthy pool is kept |
| stack | two heroes, three attacks, four nested texts, two payloads | RunsToTheEnd, ContextsUnwound, DefendedAttackIsFought | whatever aborts, the turn is finished, contexts are unwound and a defended attack is fought |
| rollback | three heroes, three turns, three events per action, two payloads, overrides at any prompt | OwnChoicesOnly, OfferIsHonoured | inside an action only the owner's choices, and what the table voted, are undone |
| fanout | two sockets of one player, a spectator, one worker, three versions | BehindOnlyIfUntold, LiveSocketIsKept, ViewsMoveForward | no client sees the match go back; who is behind was told nothing |
| draft | up to three players, totals 2 and 3, seven heroes, all modes | DraftFits, DraftGoesOn | bans, picks and heroes fit the teams, and the draft can go on |
| lanes | boards of one and of two lanes of four zones, five minions, two waves, two lives | VerdictDue, PushStaysDue, PushFillsTheZone, HeldByBoth | a decided match ends, waiting pushes stay due, a push refills its zone |
| replay | two decisions, two rewinds, one record of the clock, one failing write, one crash or power cut, a viewer with two requests | LogIsTheGame, ViewsShowThePast | mirror, saved log and file lead to the game whatever fails; a viewer sees what was |

### Bounds, and why they are enough

**MatchClockMC.** Two heroes are the smallest number with somebody to wait for: a
team can be partly dry, planning and a ready check can be half done; every rule
about a hero mentions that hero or all of them. Allowances are 0 or 1 tick: the
code compares a pool only with the elapsed time and with zero, and `MaxLag = 3`
lets an elapsed time fall short of, meet and exceed the three pools together.
`MaxTurn` bounds the turns, `MaxRequests` the prompts, `MaxOver` the overrun of an
advisory match, `MaxCrashes` the restarts; at the bounds of `MaxTurn` and
`MaxRequests` the engine ends the match. `SYMMETRY` exchanges the heroes in `core`,
where no constant tells them apart and no property looks beyond a step.
Deadlock is checked in all three runs. `core` has no proposals: that the clocks
fit the table also during a rewind and under an open proposal is shown by the
theorem `ClockAgreesCorrect` (section 6), which is about all families.
`overrides` has `MaxCrashes = 1`, so that a match may be paused, restarted and
resumed with an answered or a pending prompt.

**BotDriveMC.** One permit and two future names let a search that was given up
hold the permit while the next one waits for it. Matches interact through
permits only, and a search that was given up holds one as another match's
would; the proofs are for any number of matches.

**TurnCycleMC.** Three heroes give a tie inside a team, one between the teams and
one of both at once; two cards in play let a hand run empty before the round ends,
which with five cards the other heroes' effects are needed for, and a third lies in
the deck (`Reserve`). `LastTurn = 3` (four in the code) leaves a first, a middle and a
last turn. `MaxEffects = 2` acts of card texts in a match, of seven kinds; `MaxUndo =
1` takeback per turn. One hero (`Growing`) plays with its deck and gains levels.

**TableVoteMC.** Three players have a majority that is not unanimous. Two
proposals let the timer of the first meet the second, two faults break a pool
and its replacement.

**ExecStackMC.** Three attacks and four nested texts let an attack be made
inside the reaction to another and a text abort inside it.

**RollbackMC.** An action has an own choice, a foreign one and something after it;
three turns put a payload between two actions of the same hero.

**FanoutMC.** Two sockets of one player are what superseding needs; three
versions let a message be late by two. Instances with all four sockets and two
versions were checked as well (12 million states).

**DraftMC.** `ChaosMin` and `ChaosUnused` are one (two and four in the code) to keep the
roster at seven; the sequences themselves are evaluated for all team sizes up
to three against three (section 4).

**LanesMC.** Four zones are two thrones and two zones a battle can move between
(five or six in the maps); two waves and two lives let the last and the last
but one be taken (three to eight in the code). An instance with five zones held
as well. `MaxPatches = 1`: with two overrides `VerdictDue` fails (section 5).

**ReplayLogMC.** Two decisions and two rewinds in any order contain a rewind into
and past an earlier one and a decision on both sides of each; two requests at
two positions move a cursor forwards, backwards and over an append. One write
may fail before, and again one stop may come after, any record and any save. A second
stop would let the model resolve a rewind that points at itself, which in the code
never ends either (section 5).

Deadlock is not checked in bots, turns, table, stack, rollback, fanout, draft,
lanes and replay: there a match, draft or turn ends or a bound is reached.
That nothing stops early is what `NeverStuck`, `RunsToTheEnd`, `DraftGoesOn`,
`RoundsEnd`, `ProposalsEnd` and `BotsAct` say.

### Fairness

*MatchClock.* `FairSpec` assumes that the handler that holds the lock runs to its
end (`WF(Proceed)`: the code never waits for another handler while holding it),
that time passes whenever the lock is free often enough (`SF(Free /\ Tick)`), and
that a deadline worker whose sleep ended gets the lock (`SF(DeadlineFire)`,
`WF(DeadlineStale)`: `asyncio.Lock` serves its waiters in order). Nothing is
assumed of players: they may stay silent for ever.

*BotDrive.* The event loop runs a worker that can take a step (`WF(Worker)`) and
the deadline worker's last call (`WF(Woken)`). A worker that queues or searches
can always take its timeout, so this includes that timeouts fire and nothing
about permits or threads: `BotsAct` holds even if no search ever ends. Threads
that are not bounded are assumed to return.

*TurnCycle.* A hero who may commit does in the end, and one who may stop after the
first card does or plays the second (a player, or in an enforced match the
clock, whose part `MatchClock` models); the engine goes on: opening, ordering,
the end of nested and of whole acts, and the closing of turns and rounds. Acts
of card texts are never forced, nor are takebacks.

*TableVote.* A timer that sleeps wakes and gets the lock (`SF(Expire(id))`), a
handler that holds the lock is served by the pool and its sends end
(`WF(Awaited)`), and worker processes work or die (`WF(PoolStep)`). Nothing is
assumed of players: nobody need ever vote.

## 4. What the algorithms are checked for

Pure functions have no states; they are operators, and the laws they must obey
are assumptions that TLC evaluates for every input of a bounded set.

`PathsMC`, with the run of `LanesMC`: boards of a seven-space flower with a tail of
three, up to two more obstacles, passable or not, one barrier or denied area,
six sets of cracks, moves up to four.

| Law | States |
|---|---|
| RingsAreCircles, DistanceIsWalked, LinesAreSegments | rings, distances and lines of `Hex` are those of the grid |
| IsolationIsOneWay | a split treats both sides alike, an isolation does not |
| OffersAreLegal | the spaces offered for a move are those `validate_movement_path` accepts |
| OffersAreWalks, NoMoveCrosses | every one is reached by a walk of visible spaces that are free or may be passed, and none lies behind a crack |
| NearestIsNearest | a displaced minion gets a space it can reach, or at least distance |

`MovesMC`, with the same run: a strip of ten spaces with a stone, a mine or nothing
on four of them, one denied area or barrier, four sets of cracks.

| Law | States |
|---|---|
| PushesAreStraightMoves, PullsEndAdjacent | a push ends as far away as a straight move could, and a pull next to its end or nowhere |
| MinesAreOnTheWay | without cracks, a set of mines is offered exactly if a legal move sets off these at most |
| MinesAndCracks | with cracks that fails one way, and moves through obstacles miss their mines (section 5) |
| RowsMoveTogether | units pushed together move as rows |
| OfferedLinesLead, OfferedLinesMayNotLead | a unit offered for a straight move has a destination, but not always one the move accepts (section 5) |
| MirrorsMatch | in a mirrored push both move as far as was offered; across a crack the target may stop earlier (section 5) |
| DragsArrive | both units of a drag arrive without cracks; with one, perhaps only one does (section 5) |

`TokensMC`, with the same run: a hero, an enemy, the spaces around it and two far ones,
every set of up to three tokens out of three, three sets of stones, with and
without a crack; and the strip of `MovesMC` with three or four tokens for rows.

| Law | States |
|---|---|
| OfferedIfPossible | a batch is offered exactly if some tokens can be taken up and the others then placed one by one |
| BatchesGoThrough | whatever is answered, a batch that was begun is finished, and takes up none of its own tokens |
| BatchesHappen | there are feasible batches with two and more removals (so that the two laws above say something) |
| ClosedSpacesTrapBatches | where an enemy closes empty spaces the second law fails (section 5) |
| LinesAreFilled | a line gets its first free spaces, and no more tokens are taken up than are missing, though a removal may clear a space of the line |
| TrailsAreFilled, ShortSupplyBreaksTrails | so does a trail, but not one of another type with a smaller supply (section 5) |

`LoadoutsMC`, with the run of `DraftMC`: every path of upgrades of a hero through levels
1 to 7, three tables of items, gold 0 to 30, two heroes who choose at once, and the
cards of one hero per level in every mix of places.

| Law | States |
|---|---|
| UpgradesNeverStick | an upgrade that is due has something to offer, and the upgrades of all levels leave no tier below III |
| KnowledgeIsExact | what the others are told can be inferred is what the public items and revealed cards leave open |
| PicksStaySecret | while heroes choose, no view depends on what anybody chose |
| SamplesLookTheSame | the true world is among those a bot samples; the others look the same, with one exception (section 5) |
| MessagesMatchViews | a message names a card exactly if the view shows it |

`DraftMC` has `SequencesFit`: for every mode and all team sizes up to three against
three, each team gets its picks and as many bans as the other.

## 5. Observations

Places where code, comments and docs disagree, or where a property above had to
be stated more narrowly. They have no run.

*Clock, overrides and bots*

- A proposal that is rejected, cancelled or expires, and an approved
  `reveal_player`, reconcile the clock, which bumps its revision, but schedule no
  deadline (`ws.py` 726-735, 794-802); the old task sees another revision and ends
  (compare `server/time_control.py:727`: "Keep one cancellable task for the next
  authoritative exhaustion."). `DeadlineArmed` is therefore checked without
  proposals.
- A bot's decision is applied without `prepare_timed_mutation`; the clock stops
  at the last settlement and gives the elapsed time back to everybody who was
  running (`bots.py:702`; compare `CLIENT_INTEGRATION_GUIDE.md:266`).
  `ElapsedIsCharged` is checked without bots.
- A successful rewind installs a session whose clock is `None` (`ws.py:752`,
  `replay.py:442`; guide line 2074 says the clock resumes on resolution). One that
  fails charges the players for the replay, which the comment at `ws.py:785` denies;
  and if `new_session.advance` raises, "rejected" is reported although the session
  has been replaced.
- The timeouts applied by `prepare` may suspend the match after its status was
  checked; the decision is applied all the same (`server/time_control.py` 576-579).
- A human decision accepted in a new turn under an open proposal is noted for
  the old turn and cleared with it (`server/time_control.py:170`);
  `SuspendedOnlyIfAbandoned` fails with patch proposals over three turns.
- A human decision accepted while the worker computes that no bot owes anything
  cannot wake it; the worker takes the next request for a human's and ends
  (`bots.py` 813-819, 949-951). This is the "missed" case of `StrandedOnlyIfMissed`.
- The comment in `resume_timers` that request ids are built anew on load
  (`server/time_control.py` 811-813) is out of date: they are fields of the steps in the
  file (`steps/base.py:42`, `handler.py` 87-90; `test_session.py:108` and the comment
  at `overrides.py` 109-112 say that they are preserved). The branch it explains
  has nothing to preserve, and a match that was saved paused gets no second response
  grant: the mark it was saved with names the prompt that is asked again.
- A bot's planning decision is checked against phase and slot but not against the
  turn (`bots.py` 182-199); `AnswersItsTurn` is stated of answers only.
- An expired proposal's broadcast is cut off because resolving it cancels the
  expiry task, which is the one that broadcasts (`ws.py` 719-720, 805-821); and
  `prepare_timed_mutation` raises for a held match after the proposal was removed
  (`ws.py:739`). `ToldUnlessLost` names these cases.
- The `except RuntimeError` of `run_heavy` ("Nothing ran, which is what makes
  retrying safe", `workers.py` 96-102) also catches a `RuntimeError` of the job, which
  then runs twice.

*Turns and the stack*

- The keys of a finished defence stay in the context and are found by a second
  combat of the same turn (`handler.py` 109-132, `selection.py` 320-325).
- `heroes_defeated_this_round` is cleared by `RoundResetStep` only, which an end of
  the round without upgrades does not reach (`steps/phases.py` 183-189): defeats of
  an earlier round count in the next, though `state.py:186` says "current round". A
  hero of one piece who is off the board can be "defeated" again (`utility.py`
  784-785).
- The override `move_card` (`overrides.py` 400-452) can put a committed card in two
  places; `end_turn` (`overrides.py:640`) drops the stack and may leave the engine
  stopped without a prompt.
- Finishing payloads that were already collected still run if their source is
  defeated by an earlier one.
- A prompt in a payload at the end of a turn takes a snapshot for the hero the
  payload belongs to. `AdvanceTurnStep` leaves `current_actor_id` and the context as
  they are and `_manage_rollback` returns early when the stack runs dry with an
  actor set (`session.py:250`), so the snapshot survives into planning.
  `current_responder` (`registry.py:72`) then names that hero, ROLLBACK is accepted,
  and the cards the others committed for the new turn are undone, against
  `session.py` 142-146: "Never restores past a foreign player's committed decision
  or a hidden-info reveal". `OwnChoicesOnly` is therefore stated while the action is
  open. `rollback_frozen`, set in such a payload, lasts into the next turn's first
  action.
- `GameSession.rollback` "never restores past a foreign player's committed decision"
  (`session.py` 142-146), but an override the table approved in the middle of an action
  leaves the snapshot as it is (`overrides.py` 113-122 goes through
  `advance(None)`, and `ws.py` 759-794 does not drop it either): if the pending prompt
  is the owner's, a ROLLBACK afterwards takes back what the others voted. TLC finds it
  when `OwnChoicesOnly` is stated without the exception for `"override"`. An
  `abort_action` at a tie leaves an empty stack, with nobody asked until an `end_turn`.
- After a rollback the restored step has the same request id: a late duplicate
  of the undone answer is accepted.
- `ResolveDisplacementStep` uses a mandatory placement whose abort would drop the
  rest of the stack; harmless because off-board entities may always be placed.

*Sockets*

- Some changes are told to nobody until the next broadcast: a reply to a socket
  that is gone or superseded raises before the others' views are captured
  (`ws.py:1175`, 1230-1232); REST decisions broadcast their timer events only; a
  rejected patch does not show the timeouts applied before it; bot decisions
  capture the views before the clocks are restarted (`bots.py` 728-743, 848-856).
  Compare lines 266, 825 and 882 of the guide. These are the cases of
  `BehindOnlyIfUntold`.

*Lanes*

- With two `set_life_counters` overrides a team without life counters can play on,
  and a match won by a push can be resumed by setting a counter to 0 and back
  (`overrides.py` 348-376, against the comment at 350): `VerdictDue` fails with
  `MaxPatches = 2`.
- A Battle Zone without minions of either team is never pushed, though
  `check_lane_push_trigger` says "Condition: Minion Count for a Team in BattleZone
  == 0"; payloads at the end of a turn are followed by no check.

*Replay log*

- The save made at creation comes before the header is written and carries an
  empty log (`registry.py:123`, `routes_games.py` 125-147). After a crash between
  the first recorded decision and the save that follows, or a power cut before that
  save, `restore_from_save` rewrites the log from it, or keeps an empty one: the
  header is gone, the match goes on, and its replay and its rewinds fail for good
  ("no setup header"), though `replay.py` 195-197 names the header as what is kept.
  `LogIsTheGame` speaks of the decisions, which are right all the same.
- After an append that failed, the file lacks a decision the match has. A rewind is
  proposed and computed from the file, so it may fail or lead elsewhere, and the
  `to` it records is then a position in another list than the mirror's; only a
  restart mends the file. When it is the restart that cannot write, the mirror has
  fewer decisions than the file, and a rewind to the first decision becomes the first
  record of the mirror and of the save: `effective_indices` then calls itself until
  `RecursionError`, though its docstring says that the recursion ends (`replay.py`
  450-451). TLC finds this case when it is asked whether every rewind of every log points
  back; in a log no such rewind has touched they all do, which is part of the invariant
  of section 6. A torn line makes every rewind and view fail till then.
- A seek that fails leaves the cursor at its old index with a session that has been
  replaced or moved on (`replay.py` 713-731). If `new_session.advance` raises after a
  rewind, the session is replaced and no `ov_rewind` is recorded.
- A finished game's log may still change: overrides can be proposed after the end,
  so a rewind may resume a match whose share was baked (`shares.py` says it never does).

*Board*

- `find_reachable_with_mines` (`rules.py:520`) ignores the start of the movement, so
  across a crack it offers a way round mines no legal move goes; it is not told of
  moves through obstacles, which may then set off no mine or one they could avoid.
- Straight-line shoves check the moved unit's obstacles when they are offered and
  the actor's when they are made (`emmitt_effects.py` 555-595, `ignatia_effects.py`
  685-720), so behind a barrier a destination may be offered that the step
  silently refuses ("offered and selectable can never disagree",
  `filters_geometry.py`).
- `CoMoverValidHexFilter` checks neither cracks nor denied spaces for the partner: a
  drag may move one of the two only.
- The preview of `RazzleMirroredPushStep` asks whether each space sees the one before
  it (`steps/pieces.py` 414), the push whether it sees its start as well: across a
  crack the target stops earlier than previewed, and Razzle moves as previewed.
- A batch of tokens takes the space of a token that may be removed for free, also
  where an enemy's effect closes empty spaces (`filters_hex.py` 183-192 leaves the
  obstacle filter out for it). Tokens are removed, then nothing is on offer and a
  mandatory batch is aborted.
- "This keeps newly placed trail tokens from being offered as overflow removals"
  (`steps/markers.py` 614-616) fails if the type is replaced by one with a smaller
  supply (Mind Grip: three Illusions for a trail of four).
- "Equals the total supply (every current user)" (`filters_hex.py:81`) is not true of
  the batches of two out of three tokens; they go through all the same.
- `PlaceTokenStep` never reaches its case of a token placed where it is (line 159): the
  space is occupied, so the step ends before and `output_key` is not set.

*Effects*

- `SwapItemCardStep` changes the state of a card without `expire_by_card`
  (`steps/cards.py` 1222-1297), against `docs/audit_claims_tracker.md:110`. It is the
  exception (`astray`) of `DormantAwaits`.
- `CancelEffectsStep`, the override `remove_effect`, the removal of tokens and
  `_collect_after_cards_played_steps` leave `is_active` set though
  `effect_manager.py` 369-371 says the flag tracks the effect: `MarkedWhileItLasts`
  holds in one direction only.
- An effect for the next turn made in the last turn of a round crosses into the
  next round if its card is discarded or it has none (`engine/phases.py:311` says it
  never does); one for this turn made by a payload of the turn's end lingers for
  a turn. These are the two late kinds of `NoLeftovers`.
- `FRIENDLY_UNITS` includes the source in `stats.py:118` and excludes it in
  `validation_effects.py:169`.

*Hidden information*

- Samples "consistent with public card lifecycle"
  (`AI_SEARCH_AND_LEARNED_RUNTIME.md` 479-485) are not always: `_matches_reveals` skips
  tier I and takes tier II for history, so between two tiers a sample may lack a
  card that lies open and give its owner one too many.
- Hand cards made public by a swap are never recorded in `public_revealed_cards`.
- `build_public_card_knowledge` uses the live items and level while heroes choose
  upgrades; views use the snapshot from before (`state.py` 153-158).
- Facedown cards outside the hand are hidden from their owner too, says the comment in
  `views.py`, but the owner's `deck` list shows their state.

## 6. Proofs

All theorems hold for every value of the constants that satisfies the named
assumptions, which TLC evaluates in every run that has them: `ConfigAssumption`
and `MatchAssumption` (the configuration holds natural numbers with the initial
bank within its cap, as a validator of `TimeControlConfig` demands; the heroes
are a finite non-empty set, teams are non-empty sets of heroes, the proposal
families are those of the code), `DriveAssumption` (bots and humans are
disjoint, there is a bot, names are distinct, at least one permit, finitely many
future names), `TurnAssumption`, `TableAssumption`, `PoolAssumption`,
`StackAssumption`, `FanoutAssumption`, `RollbackAssumption` and `ReplayAssumption` (heroes, players and callers are
finite sets, roles and names are distinct, bounds are natural numbers, and the
sets of enabled effects and families are among those of the code),
`LanesAssumption` (the boards are maps of lanes whose zones have finitely many spawn
points, minions are a finite set) and `DraftAssumption` (stars order the rosters, the
roster is finite, bounds are natural numbers). `Effects` needs none. Five theorems have a hypothesis of their own; see below.

| Module | Theorems | State |
|---|---|---|
| MatchClockProofs | TypeCorrect, ClockAgreesCorrect, DebtOrBankCorrect, LockHolders | `Spec => []TypeOK`, `[]ClockAgrees`, `[]DebtOrBank`, `[]HoldersFit` |
| | NoRefundCorrect, RestartCorrect, AcceptedCorrect, PauseCorrect | the action properties `NoRefund`, `RestartKeepsDecisions`, `AcceptedDecisionIsFree`, `PauseHolds` |
| | ElapsedCorrect | `ElapsedIsCharged`, if `Bots = {}` |
| | DeadlineCorrect, SuspendedCorrect | `[]DeadlineArmed` and `SuspendedOnlyIfAbandoned`, if `Families = {}` |
| BotDriveProofs | DriveTypeCorrect, PermitsKeptCorrect, StrandedOnlyIfMissedCorrect, AnswersCorrect | `[]TypeOK`, `[]PermitsKept`, `[]StrandedOnlyIfMissed`, and the action property `AnswersItsTurn` |
| TurnCycleProofs | TypeCorrect, EngineNeverStuck, CardsAreConserved, OneSlotPerTurn, CommitsHonoured | `[]TypeOK`, `[]NeverStuck`, `[]CardsConserved`, `[]SlotPerTurn`, `[]CommitsAreHonoured` |
| TableVoteProofs | TypeCorrect, TimersFollowProposals, OutcomeIsTold, ReplacementIsKept | `[]TypeOK`, `[]TimerPerProposal`, `[]ToldUnlessLost`, and the action property `ReplacementKept` |
| | ImplementsBallot | `Spec => IsBallot`: the overrides implement `Ballot` |
| ExecStackProofs | TypeCorrect, EngineRunsToTheEnd, NoContextOutlivesItsAction, AnsweredAttackIsFought | `[]TypeOK` with the type of the stack, `[]RunsToTheEnd`, `[]ContextsUnwound`, `[]DefendedAttackIsFought` |
| FanoutProofs | TypeCorrect, BehindCorrect, LiveSocketsKept, ViewsForward | `[]TypeOK`, `[]BehindOnlyIfUntold`, `[]LiveSocketIsKept`, and the action property `ViewsMoveForward` |
| RollbackProofs | TypeCorrect, OwnChoicesCorrect, OfferCorrect | `[]TypeOK`, `[]OwnChoicesOnly`, `[]OfferIsHonoured` |
| | LogCorrect, ViewsCorrect | `[]LogIsTheGame`, `[]ViewsShowThePast` of `ReplayLog` |
| BoardProofs | TypeCorrect, PushesAreDue, PushFills | `[]TypeOK`, `[]PushStaysDue` of `Lanes`, and the action property `PushFillsTheZone` |
| | VerdictIsDue | `[]VerdictDue`, if `MaxPatches` is 0 or 1 |
| | NoLaneIsLeft | the action property `HeldByBoth`, if `Fillable` |
| | DraftFitting, DraftProceeds | `[]DraftFits` and `[]DraftGoesOn` of `Draft` |
| | EffectsTypeCorrect, DormantAwaitsCorrect, OneInstanceCorrect, MarkedWhileItLastsCorrect, EndsWithItsRoundCorrect, NoLeftoversCorrect, PayloadsInTimeCorrect | the seven invariants of `Effects` |

In each module `IInv` is the inductive invariant (`LogInv` for `ReplayLog`), and TLC found each of them, and
the further invariants named below, to hold on an instance before it was proved.

### Clock and match

The first part of `MatchClockProofs` shows that every operator of `GameClock` keeps a clock *good*: of its type,
and with no bank beside an overrun (`Solvent`). The argument for `Spend` is that
overrun grows by what is left after the bank is empty; for `TurnPools`, that the
increment reaches the bank only when the overrun is repaid. `DelayIsLeast` shows
that the deadline is a number of ticks and the earliest exhaustion, from the
well-foundedness of the natural numbers. Two relations between clocks say what an
operator may do to the pools: `Charged` (a charge of the running kind) and `Granted`
(grants, each with the mark that keeps it from being made again).

`ClockAgrees` is not inductive: it speaks of the lock being free, and a handler
breaks it on the way. `IInv` strengthens it in four ways. It extends it to the
stages of a handler at which the clock is in step with the table (`InSync`: all
but those after a decision was applied, and an approved proposal before its
reconcile). It adds that a prompt in Resolution has an addressee (otherwise a
running Resolution clock could have no target), that a finished clock has no
target (reconcile leaves a finished clock alone), and that the file a restart
loads is as good as the live state. The central lemma is `ReconcileSync`:
whatever happened before it, `Reconcile` brings clock and table in step. Each
action then either keeps both or ends with a reconcile.

The action properties follow from what each action does to the pools. Every step
but a restart is `Moves`: a charge followed by grants, or the pools of a new turn
(`NoRefund`). The others need more invariants, proved beside `IInv`. `HoldersFit`
says who can hold the lock at which stage. `SavedFits` says that the file holds the
table the players see, except while a handler still has to save
(`RestartKeepsDecisions`). `Stopped` says that after an accepted decision no target runs
until its finalize (`AcceptedDecisionIsFree`). `Frozen` and `Resumable` say that no
handler that could change the table runs in a paused match, and that its clock is in
the turn of its table with every grant made, so that resuming refills nothing
(`PauseHolds`). Across a restart the file decides: by `SavedFits` it holds the table,
and `OnDisk` says that a match that is paused is paused in the file, with the same
pools. By `PausedRestart` a restart between two handlers is therefore no way round a
pause, and what the match resumes from then is `Resumable` again, for the marks of its
grants name prompts that keep their ids.

`ElapsedIsCharged` is proved for matches without bots, as section 5 says why: a bot's
decision is applied at the last settlement and what has elapsed since is dropped.
`DeadlineArmed` and `SuspendedOnlyIfAbandoned` are proved for matches without
override proposals. TLC refutes both with proposals (with `Families =
{"reveal_player"}` on the instance of `MC_core`), for the reasons in section 5: an
approved reveal reconciles the clock and schedules nothing, and a decision accepted in
a new turn under an open proposal is noted for the old one. `Watched` is the invariant
of the first: whenever the lock is free, and when a message finds that a timeout took
its decision, the deadline is `Armed`, set for the ticks its players' pools leave; every
other handler that moves the clock ends by scheduling one. `Counts` is the step
of the second: the counter of silent turns never claims more of them than there were
since a human decided.

### Bots

`PermitsKept` needs `OwnSearch`: a worker searches exactly when it awaits a
future, and that future is its own; so a thread returns the permit it took, and
two workers never wait for one thread. `StrandedOnlyIfMissed` speaks of workers
that have ended; `Attended` extends it to those about to end: a worker that goes
on without a decision saw a table that owes no bot anything, and every step that
changes the table meanwhile either sets `wake`, or notes the missed wake-up in
`lost`. The proof goes by action; `ScheduleAttends`, `StopAttends`, `LookAttends`
and `ProgressAttends` cover the ways a step may leave its match, and `OnlyAttended`
all other matches. `AnswersItsTurn` rests on `Timely`: the decision a worker carries
has a request that was put, and if that request is still on the table, so is its
turn. It is inductive because the engine numbers its prompts (`Grows`): a request
that is gone does not come back under its number, and it does not outlast its turn.

### Turns, effects and rollbacks

`CardsConserved` of `TurnCycle` is proved by phase: `AllCardsFit` says where the cards
of a hero are in planning, in resolution and between them, and `Once` that hand,
discard, deck, slots and the cards committed or revealed are disjoint and leave none
out. An exchange keeps `Once` because it is a permutation of the cards (`Swapped`).
`PcFits` says to which phase the top of the stack belongs, that planning is open only
with somebody left to plan and an upgrade phase only with somebody who owes one;
`PoolFits` that the hero at turn is out of the pool, that the pool is empty when a turn
closes, and that those who tie are in it; `StoryFits` that who committed has acted, has
fallen, or still waits. `NeverStuck` follows: a hero of the pool holds the card it
committed, as no discard, retrieval or exchange takes it away without another in its
place, so that somebody is the fastest; and by `AllCardsFit` a hero who has not
planned has a card in hand.

The seven invariants of `Effects` are proved from one, the conjunction of
`TypeOK`, `Phased` (a round that is over is in its last turn; nothing is unresolved
when a turn is over), `Fresh` (an id is used once), `OneInstance`,
`MarkedWhileItLasts`, `AllAnchored` (every effect not in force waits for a card that
is still to resolve, and every effect of a card has its card on the table unless it
went astray), `AllTimely` (what an effect may still be at this moment, given
when it was made) and `PayloadsInTime`. Effects are never changed except by their
activation; the lemmas about `Refreshed`, `Cut` and `Run` say what the shared parts of
the handlers leave, and each action is one of them with a move of a card.
Instances with two cards and with two effects were model-checked as well.

Both invariants of `Rollback` are statements about moments at which the engine waits.
`SnapFits` carries them through a computation: a snapshot is of a prompt of its owner,
in the middle of a resolution, with no boundary crossed since. `WaitFits` says that
while the engine waits a snapshot can be restored and that the prompt is offered a
rollback only then, `SinceFits` that what has happened since the snapshot is the
owner's own, was voted, or bars the way back. An override may come at any prompt, and
`TieFits` and `StopFits` say why it then finds no snapshot where an action has not
begun: a tie is a team's to break, and nobody acts.

### The replay log

`LogIsTheGame` and `ViewsShowThePast` speak of what `Replay` reads from the log, a
recursion over its positions in which a rewind falls back on the game at an earlier
one. `Recursion` shows that this recursion, in which a position may use all
before it, has a solution for every log (the least position without one has all
earlier ones), and `Least` gives the inductions over positions.

The argument is about one notion. A log is `Sound` if each decision in it was made in
the game the positions before it lead to, and each rewind points back to where the game
was as the rewind left it. `SoundAppend` and `LeadsAppend` show that an entry added by `Recorded`
keeps it so, and changes nothing for the earlier positions. `Rebuilding` shows that
replaying a sound log gives the game that was played, through rewinds of rewinds, by
induction over the position; `Forwarding` that going on from a checkpoint
gives what starting afresh does. `LogInv` is the inductive invariant, about a log that
has not `strayed` (no rewind was computed from a file that misses a record, because an
append had failed and nobody noticed): `LogFits` (the log is sound and leads to the live game),
`ProposalFits` (a rewind that is asked for is to a game that was there), `ViewFits` and
`DownFits` (what a viewer is shown, and what a restart loads). A view is
stamped when it is asked for and read later: one with the stamp of the whole log has all
its decisions, one with an older stamp all that were there when it was asked for.

The proof found one thing to change in the model: the loss of the header alone was
counted among what makes the log stray, and the proof does not need that. The property
now covers it, and TLC confirms it.

### The board and the draft

Between the checks of the lanes and the pushes they call for, the handlers of
prompts run. `PushInv` says what the stack of `Lanes` looks like meanwhile: `Ordered`
(which step may lie above which), `PushFits` (a push knows its lane as it is: the
loser and the target computed from the board when it was queued are still those of
the board) and `Apart` (no lane is queued twice, and the minions that look for a
space belong to no lane that is still to be pushed, so that their return changes no
count a push relies on). `NoThrone` and `Finished` complete it; `PushStaysDue` is a
part of it. `VerdictDue` needs `OneDecision` besides: as long as nothing is decided
every team has a life counter and a single lane a wave counter, and before the
first override a team without one meets an opponent who has one. With two overrides
it is false (section 5), hence the hypothesis. `PushFills` rests on `Drafts`: what is
drafted for the spawn points of a kind is the whole box or as many as there are
points; `SpawnFills` says the same of the free points and the blocked ones together,
where the second draft finds what the first has left.

`NoLaneIsLeft` (`HeldByBoth`) assumes `Fillable`: every zone between the thrones has, for
each team, a spawn point of a kind that the team's minions of that lane have. It is so on
the six maps of `data/maps`, and on the instance of `LanesMC`; on a map without it a
push could end with one team alone. `Settled` says what holds while the pushes of a
check run, if nobody stood elsewhere when it began: all minions are in the zone of their
lane or in the box, and each lane is still to be pushed, or was `Calm` at the check and
has not been touched, or has minions of both teams that stand there or wait for a space
(`Present`). `SpawnPresent` makes it so where a zone is filled: the minions of its lane
are all in the box, and `SpawnFills` says that a kind with a spawn point brings one. In
a tie it is carried through the lanes by `UpTo`. `Checked` says that
whatever is done before a check still has that check below it, so that no turn's end
skips it; `OthersRest` shows that no other step leads into, or ends, such a run.

`TieRemedy` goes through the lanes of a tie, and the orders of `Draft` through
rounds, as recursive functions or folds. That such a function exists is `Recursion`,
proved from the least number up to which it does not, with the step given as
a function; that a property is handed on to its end is `UpTo`, with the property
given as a set. With the two, `FlattenSeq` is a chain of partial sums (`Flattened`),
and what a round adds to the picks and bans of a team (`CountSum`) gives what
the whole order holds. `SequentialFits`, `SnakeCounts` and `ChaosCounts` thus show for
teams of any size what `SequencesFit` evaluates up to three against three. In a snake
the invariant is that after `k` turns the team that acted last is full or has `k`
picks, and the other is full or has `k - 1`.

`DraftInv` then follows a draft from the lobby: `OneCaptain` (at most one captain a
team whatever players do in the lobby, exactly one from the start on), `InTurn`
(nothing is taken before the start nor claimed before the last pick), `OwnHeroes`
(what a player claimed is a pick of the own team that nobody else claimed) and
`DraftFits`. `DraftProceeds` is the pigeonhole argument: if every pick of a team
were claimed, all its players but the one who is waiting would have claimed as
many heroes as the team has players.

### The execution stack

The invariant of `ExecStack` reads the stack frame by frame. `MayTop` says which frame
may lie above which: nothing below the end of a turn, a choice or a change of actor only
on top, above a pending combat only what its defender's text left. `Follows` says what
lies right below: below the step that gives the attacker the turn back after a defense
text, its combat. `Backed` says that whatever an abort may drop has a step below that no
abort drops. `Local`, `Aimed`, `ActorFits` and `TurnFits` tie the frames to the attacks
of the turn, to the victim and the answer in the context, and to the hero who acts;
`Counted` ties the saved contexts and the Wishes to frames of the stack.

A step replaces the top of the stack, down to some position, by new frames. `Onto` is
that relation, and `OrderKept`, `LocalKept`, `AimedKept`, `ActorKept`, `FoughtKept` and
`CountedKept` reduce each part of the invariant to what is pushed and what is dropped;
every action is then a matter of those frames. The heart is `AbortSpares`: an abort
clears to the pending combat, or to the step that restores its attacker when the text
is the defender's; otherwise to the first step that it may not drop. It therefore
spares the end of the turn, the checks of Wishes, the return of the actor and every
combat that a primary defense answered. In a forced move it is the end of the
defender's action that makes it stop before the actor is lost.

### Votes and sockets

`TableVote` implements `Ballot` step by step: each handler, timer or worker opens,
votes on, closes, or leaves alone the ballot that `B` makes of its state. A proposal is
open in the ballot until its outcome is recorded, also while its rewind is being
computed. The invariant numbers the proposals
(`Numbered`, `CarriedFits`: one is carried out at most once), ties the locks to what
their holders are doing (`LocksFit`), and says that a rewind is computed only for a
proposal that more than half approved (`RewindIsApproved`) and that who waits for an
outcome is among those it is sent to (`OutboxFits`). `ReplacementKept` needs the
numbering of the worker pools alone (`PoolFits`).

`BehindOnlyIfUntold` of `Fanout` speaks of moments when nobody is sending.
`SendingFits` says what holds before: the messages a task still has to send make up
for what the sockets are behind, but for the sockets it has already found dead.
`LockFits` (whoever is about to send holds the lock) makes them the only messages on
the way, and `ViewsFit` adds that nobody has seen more than what is being sent, from
which `ViewsMoveForward` follows. `LiveSocketIsKept` is part of the invariant, with
`EntriesFit` (a socket stands under its own token) and `DeadFit` (a send fails only over a
socket that is gone for good).

### Only model-checked

The liveness properties (`SilenceIsOvertaken`, `BotsAct`, `RoundsEnd`, `ProposalsEnd`), since
fairness is beyond the provers; the laws of section 4, which are over bounded inputs; and
what the theorems with a hypothesis leave out: a match with bots, proposals or several
patches, and a map that is not `Fillable`.

## 7. Not modelled

The models cover a tenth of the lines of the implementation. The rest is mostly
of three kinds that no state machine would stand for: the automata package
beyond sampling (agents, observation encoding, search, datasets and training:
thirty-five thousand lines of mostly numerical code), hero content (one effect class per card
and the data of cards and maps: forty thousand lines, of which the modules model
what cards may do to the shared state, not which card does it), and data classes,
formatting and file input and output (views of the board, logs, shares, bug reports,
admin pages, scripts).

Left out of modelled components, beyond what section 2 names:

- `MatchClock`: removal of a match, the safety limit of 100 timeouts in one
  prepare, prompts to a player without a clock, a refused ready check over REST
  (it changes nothing), the gold cheat. A rewind goes back to the first decision
  only, where the table is simplest; another differs in the table it returns,
  which no property reads. Of the rollback snapshot it has what the clock depends on,
  the prompt that comes back: `Anchors` allows whatever `Rollback` would, an automatic
  answer drops it (that the action stays frozen afterwards is in `Rollback`), and a
  snapshot that survives into planning (section 5) is left out; so is the REST route
  `/advance`, which asks the pending prompt again and counts as a human action.
- `BotDrive`: the second-card window of a bot, an upgrade its agent abstains from,
  a rollback or a rewind that replaces the session while agents are built, sends
  that fail after the engine ran, draining at shutdown, metrics, the safety limit of
  the loop, and the executor's own limit on threads.
- `ExecStack`: the actor switch before an action, the stack of action types, the
  limit on steps.
- `Fanout`: closing the superseded socket never raises; pings and pointers.
- `Lanes`: `RespawnMinionStep`, which nothing uses, and the mode without `unit_key`.
- `Paths`: occupancy does not change during a search.
- Combat values, ranges, targets and immunity, gold and markers; the views
  of the board and of requests; the registry of drafts; the operations of a patch
  other than `set_life_counters`.
- `ReplayLog`: kinds of decisions, positions by round and turn, listing,
  verification and retention of logs. The session a rewind rebuilds appears in
  `MatchClock` and `TableVote` as its outcome.

Hazards without a property are listed in `PROJECT.json`, each with its reason.

## 8. Plan

Done: everything in section 2, and proofs of every safety and action property of the
clock, the bots, the turn cycle, the execution stack, the overrides, rollbacks, the
replay log, effects, the sockets, the lanes and the draft. What is left, in this order.

1. Targets and immunity as operators beside `Paths`.
2. The refinement of the table of `MatchClock` by `TurnCycle`.
