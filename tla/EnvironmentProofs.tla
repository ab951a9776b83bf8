-------------------------- MODULE EnvironmentProofs --------------------------
(***************************************************************************)
(* Theorems about EnvironmentMonitor for any askers, polling threads and   *)
(* bounds.                                                                 *)
(***************************************************************************)
EXTENDS EnvironmentMonitor, TLAPS

\* What a thread is reading has seen the registry that was announced last, and
\* while it reads nothing is cached.
ReadersAreFresh ==
    \A a \in Asker : asker[a].at = "reading" =>
        /\ payload = Unread
        /\ asker[a].got # Unread
        /\ asker[a].got = Failed \/ asker[a].got.registry >= announced

\* An answer with the revision of now says what is cached now.
AnswersAreCurrent ==
    \A a \in Asker :
        /\ answer[a].revision <= revision
        /\ answer[a].revision = revision =>
              payload # Unread /\ answer[a].payload = payload /\ answer[a].latest = latest

EInv == EnvTypeOK /\ NoOldRegistry /\ ReadersAreFresh /\ AnswersAreCurrent
                  /\ SameRevisionSameReading

USE DEF world, fields, runs, asking, watching

LEMMA ReadingFacts ==
    /\ Failed \notin Reading /\ Unread \notin Reading /\ Failed # Unread
    /\ \A r \in Reading : r.registry \in 0..MaxRegistry
    /\ \A d \in 0..MaxDisk, n \in 0..MaxRegistry : [disk |-> d, registry |-> n] \in Reading
BY MonitorAssumption DEF Reading, Failed, Unread

-----------------------------------------------------------------------------
(* Types                                                                   *)

Got == Reading \cup {Failed, Unread}
AskerState == [at : {"idle", "starting", "asking", "reading", "answered"}, got : Got]
LoopState == [at : {"unborn", "first", "waiting", "silence", "tell", "ended"},
              previous : -1..MaxDisk]

LEMMA AnsweredTyped ==
    ASSUME EnvTypeOK, NEW a \in Asker, NEW p \in Got, Answered(a, p)
    PROVE  /\ answer' \in [Asker -> Answer]
           /\ asker' \in [Asker -> AskerState]
           /\ asker'[a].at = "answered"
           /\ \A b \in Asker \ {a} : asker'[b] = asker[b] /\ answer'[b] = answer[b]
           /\ answer'[a] = [payload |-> p, latest |-> latest, revision |-> revision]
<1>1. [payload |-> p, latest |-> latest, revision |-> revision] \in Answer
  BY DEF EnvTypeOK, Answer, Got
<1>2. [at |-> "answered", got |-> Unread] \in AskerState
  BY DEF AskerState, Got
<1> QED BY <1>1, <1>2 DEF Answered, EnvTypeOK, AskerState, Got

LEMMA MovesTyped ==
    ASSUME EnvTypeOK, NEW l \in Loop, NEW d \in -1..MaxDisk,
           NEW to \in {"unborn", "first", "waiting", "silence", "tell", "ended"},
           \/ loop' = [loop EXCEPT ![l].at = to]
           \/ loop' = [loop EXCEPT ![l] = [at |-> to, previous |-> d]]
    PROVE  loop' \in [Loop -> LoopState]
BY DEF EnvTypeOK, LoopState

LEMMA AskersMove ==
    ASSUME EnvTypeOK, NEW a \in Asker,
           NEW to \in {"idle", "starting", "asking", "answered"},
           asker[a].at # "reading", asker' = [asker EXCEPT ![a].at = to]
    PROVE  /\ asker' \in [Asker -> AskerState]
           /\ \A b \in Asker : asker'[b].at = "reading" <=> asker[b].at = "reading"
           /\ \A b \in Asker : asker'[b].got = asker[b].got
BY DEF EnvTypeOK, AskerState, Got

-----------------------------------------------------------------------------
(* Steps that leave what is cached and what was answered as it is          *)

LEMMA QuietStep ==
    ASSUME EInv, EnvTypeOK', UNCHANGED <<announced, payload, latest, revision, answer>>,
           \A b \in Asker : /\ asker'[b].at = "reading" <=> asker[b].at = "reading"
                            /\ asker'[b].got = asker[b].got
    PROVE  EInv'
BY DEF EInv, NoOldRegistry, ReadersAreFresh, AnswersAreCurrent, SameRevisionSameReading

LEMMA WorldSteps ==
    ASSUME EInv, GameDirectoryChanges \/ RegistrySwapped \/ Stop
    PROVE  EInv'
<1>1. EnvTypeOK'
  <2>1. EnvTypeOK /\ MonitorAssumption BY MonitorAssumption DEF EInv
  <2>2. CASE GameDirectoryChanges BY <2>1, <2>2 DEF EnvTypeOK, GameDirectoryChanges, MonitorAssumption
  <2>3. CASE RegistrySwapped BY <2>1, <2>3 DEF EnvTypeOK, RegistrySwapped, MonitorAssumption
  <2>4. CASE Stop BY <2>1, <2>4 DEF EnvTypeOK, Stop
  <2> QED BY <2>2, <2>3, <2>4
<1>2. UNCHANGED <<announced, payload, latest, revision, answer, asker>>
  BY DEF GameDirectoryChanges, RegistrySwapped, Stop
<1> QED BY <1>1, <1>2, QuietStep

LEMMA LoopSteps ==
    ASSUME EInv, NEW l \in Loop, FirstFingerprint(l) \/ Poll(l) \/ Settle(l) \/ LoopEnds(l)
    PROVE  EInv'
<1>1. EnvTypeOK BY DEF EInv
<1>2. UNCHANGED <<world, thread, stopped, asking, watching, fields>>
  BY DEF FirstFingerprint, Poll, Settle, LoopEnds, Fingerprint, LoopOnly
<1>3. disk \in -1..MaxDisk BY <1>1, MonitorAssumption DEF EnvTypeOK
<1>4. loop' \in [Loop -> LoopState]
  <2>1. \E to \in {"waiting", "silence", "tell", "ended"} :
          \/ loop' = [loop EXCEPT ![l].at = to]
          \/ loop' = [loop EXCEPT ![l] = [at |-> to, previous |-> disk]]
    BY DEF FirstFingerprint, Poll, Settle, LoopEnds, Fingerprint, Moves
  <2> QED BY <2>1, <1>1, <1>3, MovesTyped
<1>5. EnvTypeOK' BY <1>1, <1>2, <1>4 DEF EnvTypeOK, LoopState
<1> QED BY <1>2, <1>5, QuietStep

LEMMA AskerSteps ==
    ASSUME EInv, NEW a \in Asker, Asks(a) \/ ApiDone(a) \/ Start(a)
    PROVE  EInv'
<1>1. EnvTypeOK BY DEF EInv
<1>2. /\ asker[a].at # "reading"
      /\ \E to \in {"idle", "starting", "asking"} : asker' = [asker EXCEPT ![a].at = to]
      /\ UNCHANGED <<world, fields, stopped, answer, watching>>
  BY DEF Asks, ApiDone, Start, Ask, Done, AskerOnly
<1>3. /\ asker' \in [Asker -> AskerState]
      /\ \A b \in Asker : asker'[b].at = "reading" <=> asker[b].at = "reading"
      /\ \A b \in Asker : asker'[b].got = asker[b].got
  BY <1>1, <1>2, AskersMove
<1>4. loop' \in [Loop -> LoopState] /\ thread' \in Loop \cup {NoThread}
  <2>1. CASE UNCHANGED <<loop, thread>> BY <2>1, <1>1 DEF EnvTypeOK, LoopState
  <2>2. CASE Start(a)
    <3>1. PICK l \in Loop : loop' = [loop EXCEPT ![l].at = "first"] /\ thread' = l
      BY <2>2 DEF Start
    <3>2. disk \in -1..MaxDisk BY <1>1, MonitorAssumption DEF EnvTypeOK
    <3> QED BY <3>1, <3>2, <1>1, MovesTyped
  <2> QED BY <2>1, <2>2 DEF Asks, ApiDone, AskerOnly
<1>5. EnvTypeOK' BY <1>1, <1>2, <1>3, <1>4 DEF EnvTypeOK, AskerState, LoopState, Got
<1> QED BY <1>2, <1>3, <1>5, QuietStep

LEMMA WatcherSteps ==
    ASSUME EInv, GuardDone \/ HubTakes \/ HubPublishes
    PROVE  EInv'
<1>1. EnvTypeOK BY DEF EInv
<1>2. PICK a \in {Guard, Hub}, to \in {"idle", "starting", "asking"} :
        /\ asker[a].at # "reading"
        /\ asker' = [asker EXCEPT ![a].at = to]
  BY DEF GuardDone, HubTakes, HubPublishes, Ask, Done
<1>3. /\ asker' \in [Asker -> AskerState]
      /\ \A b \in Asker : asker'[b].at = "reading" <=> asker[b].at = "reading"
      /\ \A b \in Asker : asker'[b].got = asker[b].got
  BY <1>1, <1>2, AskersMove, MonitorAssumption
<1>4. UNCHANGED <<world, fields, runs, answer>>
  BY DEF GuardDone, HubTakes, HubPublishes, AskerOnly
<1>5. token' \in Nat \cup {-1} /\ requested' \in BOOLEAN /\ published' \in Got
  <2>1. /\ answer[Guard].revision \in Nat \cup {-1} /\ answer[Hub].payload \in Got
        /\ token \in Nat \cup {-1} /\ requested \in BOOLEAN /\ published \in Got
    BY <1>1, MonitorAssumption DEF EnvTypeOK, Answer, Got
  <2>2. CASE GuardDone BY <2>1, <2>2 DEF GuardDone
  <2>3. CASE HubTakes BY <2>1, <2>3 DEF HubTakes
  <2>4. CASE HubPublishes BY <2>1, <2>4 DEF HubPublishes
  <2> QED BY <2>2, <2>3, <2>4
<1>6. EnvTypeOK' BY <1>1, <1>3, <1>4, <1>5 DEF EnvTypeOK, AskerState, Got
<1> QED BY <1>3, <1>4, <1>6, QuietStep

-----------------------------------------------------------------------------
(* Steps that drop what is cached, or count the revision up                *)

\* Nobody reads while the lock is free, and no answer has the next revision.
LEMMA InvalidateStep ==
    ASSUME EInv, EnvTypeOK', Invalidate, UNCHANGED <<asker, answer>>,
           announced' \in 0..registry'
    PROVE  EInv'
<1>1. EnvTypeOK BY DEF EInv
<1>2. \A a \in Asker : asker[a].at # "reading" BY <1>1, MonitorAssumption DEF EnvTypeOK, Invalidate
<1>3. NoOldRegistry' BY DEF NoOldRegistry, Invalidate
<1>4. ReadersAreFresh' BY <1>2 DEF ReadersAreFresh
<1>5. \A a \in Asker : answer[a].revision <= revision /\ answer[a].revision \in Nat \cup {-1}
  BY <1>1 DEF EInv, AnswersAreCurrent, EnvTypeOK, Answer
<1>6. AnswersAreCurrent'
  <2>1. revision \in Nat /\ revision' = revision + 1 /\ answer' = answer
    BY <1>1 DEF EnvTypeOK, Invalidate
  <2>2. \A a \in Asker : answer[a].revision < revision' BY <2>1, <1>5
  <2> QED BY <2>1, <2>2, <1>5 DEF AnswersAreCurrent
<1>7. SameRevisionSameReading' BY DEF EInv, SameRevisionSameReading
<1> QED BY <1>3, <1>4, <1>6, <1>7 DEF EInv

LEMMA RegistryAnnouncedStep ==
    ASSUME EInv, RegistryAnnounced
    PROVE  EInv'
<1>1. EnvTypeOK BY DEF EInv
<1>2. Invalidate /\ UNCHANGED <<asker, answer>> /\ announced' = registry /\ registry' = registry
  BY DEF RegistryAnnounced
<1>3. announced' \in 0..registry' BY <1>1, <1>2, MonitorAssumption DEF EnvTypeOK
<1>4. EnvTypeOK'
  BY <1>1, <1>3 DEF EnvTypeOK, RegistryAnnounced, Invalidate
<1> QED BY <1>2, <1>3, <1>4, InvalidateStep

LEMMA TellStep ==
    ASSUME EInv, NEW l \in Loop, Tell(l)
    PROVE  EInv'
<1>1. EnvTypeOK BY DEF EInv
<1>2. Invalidate /\ UNCHANGED <<asker, answer, announced, registry>> BY DEF Tell, LoopOnly
<1>3. announced' \in 0..registry' BY <1>1, <1>2 DEF EnvTypeOK
<1>4. loop' \in [Loop -> LoopState]
  <2>1. disk \in -1..MaxDisk BY <1>1, MonitorAssumption DEF EnvTypeOK
  <2> QED BY <1>1, <2>1, MovesTyped DEF Tell, Moves
<1>5. EnvTypeOK' BY <1>1, <1>4 DEF EnvTypeOK, LoopState, Tell, LoopOnly, Invalidate
<1> QED BY <1>2, <1>3, <1>5, InvalidateStep

LEMMA NoteStep ==
    ASSUME EInv, NoteLatestLoaders
    PROVE  EInv'
<1>1. EnvTypeOK BY DEF EInv
<1>2. EnvTypeOK' BY <1>1, MonitorAssumption DEF EnvTypeOK, NoteLatestLoaders
<1>3. \A a \in Asker : answer[a].revision <= revision /\ answer[a].revision \in Nat \cup {-1}
  BY <1>1 DEF EInv, AnswersAreCurrent, EnvTypeOK, Answer
<1>4. AnswersAreCurrent' BY <1>1, <1>3 DEF AnswersAreCurrent, EnvTypeOK, NoteLatestLoaders
<1>5. NoOldRegistry' /\ ReadersAreFresh' /\ SameRevisionSameReading'
  BY DEF EInv, NoOldRegistry, ReadersAreFresh, SameRevisionSameReading, NoteLatestLoaders
<1> QED BY <1>2, <1>4, <1>5 DEF EInv

-----------------------------------------------------------------------------
(* Reading and answering                                                   *)

LEMMA ReadStep ==
    ASSUME EInv, NEW a \in Asker, Read(a)
    PROVE  EInv'
<1>1. EnvTypeOK BY DEF EInv
<1>2. PICK r \in {[disk |-> disk, registry |-> registry], Failed} :
        asker' = [asker EXCEPT ![a] = [at |-> "reading", got |-> r]]
  BY DEF Read
<1>3. r \in Got /\ r # Unread /\ (r = Failed \/ r.registry >= announced)
  <2>1. disk \in 0..MaxDisk /\ registry \in 0..MaxRegistry BY <1>1 DEF EnvTypeOK
  <2>2. announced \in 0..registry BY <1>1 DEF EnvTypeOK
  <2>3. CASE r = Failed BY <2>3, ReadingFacts DEF Got
  <2>4. CASE r = [disk |-> disk, registry |-> registry]
    <3>1. r \in Reading /\ r.registry = registry BY <2>1, <2>4, ReadingFacts
    <3> QED BY <3>1, <2>1, <2>2, ReadingFacts, MonitorAssumption DEF Got
  <2> QED BY <1>2, <2>3, <2>4
<1>4. [at |-> "reading", got |-> r] \in AskerState BY <1>3 DEF AskerState
<1>5. asker' \in [Asker -> AskerState] BY <1>1, <1>2, <1>4 DEF EnvTypeOK, AskerState, Got
<1>6. /\ asker'[a].at = "reading" /\ asker'[a].got = r
      /\ \A b \in Asker \ {a} : asker'[b] = asker[b]
  BY <1>1, <1>2 DEF EnvTypeOK
<1>7. /\ lock = "free" /\ lock' = a /\ payload = Unread
      /\ UNCHANGED <<world, payload, latest, revision, runs, answer, watching>>
  BY DEF Read
<1>8. \A b \in Asker : asker[b].at # "reading" BY <1>1, <1>7, MonitorAssumption DEF EnvTypeOK
<1>9. \A b \in Asker : lock' = b <=> asker'[b].at = "reading" BY <1>6, <1>7, <1>8
<1>10. EnvTypeOK' BY <1>1, <1>5, <1>7, <1>9 DEF EnvTypeOK, AskerState, Got
<1>11. ReadersAreFresh' BY <1>3, <1>6, <1>7, <1>8 DEF ReadersAreFresh
<1>12. NoOldRegistry' /\ AnswersAreCurrent' /\ SameRevisionSameReading'
  BY <1>7 DEF EInv, NoOldRegistry, AnswersAreCurrent, SameRevisionSameReading
<1> QED BY <1>10, <1>11, <1>12 DEF EInv

\* The new answer is the only one with this revision, or says what the others say.
LEMMA AnswerStep ==
    ASSUME EInv, NEW a \in Asker, Snapshot(a) \/ ReadDone(a)
    PROVE  EInv'
<1>1. EnvTypeOK BY DEF EInv
<1> DEFINE p == IF asker[a].at = "reading" THEN asker[a].got ELSE payload
<1>2. /\ Answered(a, p) /\ payload' = p /\ p # Unread
      /\ lock' = "free"
      /\ \A b \in Asker \ {a} : asker[b].at # "reading"
      /\ UNCHANGED <<world, latest, revision, runs, watching>>
      /\ payload # Unread => p = payload
  <2>1. CASE Snapshot(a)
    BY <2>1, <1>1, MonitorAssumption DEF Snapshot, EnvTypeOK
  <2>2. CASE ReadDone(a)
    <3>1. asker[a].at = "reading" /\ lock = a BY <2>2, <1>1 DEF ReadDone, EnvTypeOK
    <3>2. payload = Unread /\ asker[a].got # Unread BY <3>1 DEF EInv, ReadersAreFresh
    <3>3. \A b \in Asker \ {a} : asker[b].at # "reading" BY <3>1, <1>1 DEF EnvTypeOK
    <3> QED BY <2>2, <3>1, <3>2, <3>3 DEF ReadDone
  <2> QED BY <2>1, <2>2
<1>3. p \in Got /\ (p = Failed \/ p.registry >= announced)
  BY <1>1, <1>2 DEF EnvTypeOK, Got, EInv, ReadersAreFresh, NoOldRegistry
<1> HIDE DEF p
<1>4. /\ answer' \in [Asker -> Answer]
      /\ asker' \in [Asker -> AskerState]
      /\ asker'[a].at = "answered"
      /\ \A b \in Asker \ {a} : asker'[b] = asker[b] /\ answer'[b] = answer[b]
      /\ answer'[a] = [payload |-> p, latest |-> latest, revision |-> revision]
  BY <1>1, <1>2, <1>3, AnsweredTyped
<1>5. \A b \in Asker : asker'[b].at # "reading" BY <1>2, <1>4
<1>6. EnvTypeOK'
  BY <1>1, <1>2, <1>3, <1>4, <1>5, MonitorAssumption DEF EnvTypeOK, AskerState, Got
<1>7. NoOldRegistry' BY <1>2, <1>3 DEF NoOldRegistry
<1>8. ReadersAreFresh' BY <1>5 DEF ReadersAreFresh
<1>9. \A b \in Asker \ {a} : answer[b].revision <= revision /\
        (answer[b].revision = revision => answer[b].payload = p /\ answer[b].latest = latest)
  BY <1>2 DEF EInv, AnswersAreCurrent
<1>10. answer'[a].revision = revision /\ answer'[a].payload = p /\ answer'[a].latest = latest
  BY <1>4
<1>11. revision \in Nat BY <1>1 DEF EnvTypeOK
<1>12. AnswersAreCurrent' BY <1>2, <1>4, <1>9, <1>10, <1>11 DEF AnswersAreCurrent
<1>13. SameRevisionSameReading'
  BY <1>4, <1>9, <1>10 DEF EInv, SameRevisionSameReading
<1> QED BY <1>6, <1>7, <1>8, <1>12, <1>13 DEF EInv

-----------------------------------------------------------------------------
(* The theorems                                                            *)

LEMMA EnvInitHolds == EnvInit => EInv
<1> SUFFICES ASSUME EnvInit PROVE EInv OBVIOUS
<1>1. EnvTypeOK
  <2>1. {MaxDisk, MaxRegistry, MaxLatest} \subseteq Nat /\ Asker \cap {"free"} = {}
    BY MonitorAssumption
  <2>2. answer \in [Asker -> Answer]
    <3>1. [payload |-> Unread, latest |-> 0, revision |-> -1] \in Answer BY <2>1 DEF Answer
    <3> QED BY <3>1 DEF EnvInit
  <2>3. \A a \in Asker : lock = a <=> asker[a].at = "reading" BY <2>1 DEF EnvInit
  <2>4. loop \in [Loop -> LoopState] BY <2>1 DEF EnvInit, LoopState
  <2>5. asker \in [Asker -> AskerState] BY DEF EnvInit, AskerState, Got
  <2>6. /\ disk \in 0..MaxDisk /\ registry \in 0..MaxRegistry /\ announced \in 0..registry
        /\ latest \in 0..MaxLatest /\ revision \in Nat /\ token \in Nat \cup {-1}
    BY <2>1 DEF EnvInit
  <2>7. /\ payload \in Got /\ published \in Got /\ lock \in Asker \cup {"free"}
        /\ thread \in Loop \cup {NoThread} /\ stopped \in BOOLEAN /\ requested \in BOOLEAN
    BY DEF EnvInit, Got
  <2> QED BY <2>2, <2>3, <2>4, <2>5, <2>6, <2>7 DEF EnvTypeOK, LoopState, AskerState, Got
<1>2. NoOldRegistry /\ ReadersAreFresh /\ AnswersAreCurrent /\ SameRevisionSameReading
  BY DEF EnvInit, NoOldRegistry, ReadersAreFresh, AnswersAreCurrent, SameRevisionSameReading
<1> QED BY <1>1, <1>2 DEF EInv

LEMMA EnvStepKeeps == EInv /\ [EnvNext]_envVars => EInv'
<1> SUFFICES ASSUME EInv, [EnvNext]_envVars PROVE EInv' OBVIOUS
<1>1. CASE GameDirectoryChanges \/ RegistrySwapped \/ Stop BY <1>1, WorldSteps
<1>2. CASE RegistryAnnounced BY <1>2, RegistryAnnouncedStep
<1>3. CASE NoteLatestLoaders BY <1>3, NoteStep
<1>4. ASSUME NEW a \in Asker, Asks(a) \/ AskerStep(a) PROVE EInv'
  BY <1>4, AskerSteps, ReadStep, AnswerStep DEF AskerStep
<1>5. ASSUME NEW l \in Loop, LoopStep(l) PROVE EInv'
  BY <1>5, LoopSteps, TellStep DEF LoopStep
<1>6. CASE GuardDone \/ HubTakes \/ HubPublishes BY <1>6, WatcherSteps
<1>7. CASE UNCHANGED envVars
  <2>1. UNCHANGED <<disk, registry, announced, payload, latest, revision, lock, thread, stopped,
                    loop, asker, answer, token, requested, published>>
    BY <1>7 DEF envVars
  <2>2. EnvTypeOK' BY <2>1 DEF EInv, EnvTypeOK
  <2> QED BY <2>1, <2>2, QuietStep
<1> QED BY <1>1, <1>2, <1>3, <1>4, <1>5, <1>6, <1>7 DEF EnvNext

\* The fields of the monitor, its threads and its askers stay in their types, and the
\* lock is held by whoever reads.
THEOREM EnvTypes == EnvSpec => []EnvTypeOK
<1>1. EInv => EnvTypeOK BY DEF EInv
<1> QED BY <1>1, EnvInitHolds, EnvStepKeeps, PTL DEF EnvSpec

\* Whoever compares revisions, as the guard does, compares readings: whatever is
\* invalidated, read and noted between two snapshots (environment_monitor.py:95-118).
THEOREM RevisionsTell == EnvSpec => []SameRevisionSameReading
<1>1. EInv => SameRevisionSameReading BY DEF EInv
<1> QED BY <1>1, EnvInitHolds, EnvStepKeeps, PTL DEF EnvSpec

\* A reading under way when the registry was swapped does not outlive the invalidation
\* that announces it (environment_monitor.py:95-109, catalog_controller.py:73-79).
THEOREM AnnouncedIsSeen == EnvSpec => []NoOldRegistry
<1>1. EInv => NoOldRegistry BY DEF EInv
<1> QED BY <1>1, EnvInitHolds, EnvStepKeeps, PTL DEF EnvSpec

=============================================================================
