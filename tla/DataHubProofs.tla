--------------------------- MODULE DataHubProofs ---------------------------
(***************************************************************************)
(* Theorems about DataHub for every set of keys and loaders, lossy pushes  *)
(* or not, failing refreshers or not.                                      *)
(***************************************************************************)
EXTENDS DataHub, TLAPS

\* What is still to be pushed is no news from the future, and under the current
\* revision it is the current value: the reason why a push may come at any time.
EventsAgree ==
    \A t \in Pusher : \A e \in outbox[t] :
        /\ e.revision <= revision[e.key]
        /\ e.revision = revision[e.key] => e.value = value[e.key]

\* The mirror's part, without the exception for a page that shows nothing yet.
PageAgrees ==
    \A k \in Key :
        /\ mirror[k].revision <= revision[k]
        /\ mirror[k].revision = revision[k] => mirror[k].value = value[k]

HInv == HubTypeOK /\ EventsAgree /\ PageAgrees

USE DEF None, Free

-----------------------------------------------------------------------------
(* What the operations of the hub do to values, revisions and events.      *)

LEMMA PublishTyped ==
    ASSUME HubTypeOK, NEW t \in Pusher, NEW k \in Key, NEW v \in Shown, Publish(t, k, v)
    PROVE  /\ value' \in [Key -> Shown]
           /\ revision' \in [Key -> Nat]
           /\ outbox' \in [Pusher -> SUBSET Event]
BY DEF HubTypeOK, Publish, Event

LEMMA PublishAgrees ==
    ASSUME HInv, NEW t \in Pusher, NEW k \in Key, NEW v \in Shown, Publish(t, k, v),
           UNCHANGED mirror
    PROVE  EventsAgree' /\ PageAgrees'
<1>1. CASE value[k] = v
  BY <1>1 DEF HInv, Publish, EventsAgree, PageAgrees
<1>2. CASE value[k] # v
  <2> DEFINE new == [key |-> k, value |-> v, revision |-> revision[k] + 1]
  <2>1. /\ value' = [value EXCEPT ![k] = v]
        /\ revision' = [revision EXCEPT ![k] = @ + 1]
        /\ outbox' = [outbox EXCEPT ![t] = @ \cup {new}]
    BY <1>2 DEF Publish
  <2>2. EventsAgree'
    <3> SUFFICES ASSUME NEW u \in Pusher, NEW e \in outbox'[u]
                 PROVE  /\ e.revision <= revision'[e.key]
                        /\ e.revision = revision'[e.key] => e.value = value'[e.key]
      BY DEF EventsAgree
    <3>1. e \in outbox[u] \/ e = new BY <2>1 DEF HInv, HubTypeOK
    <3>2. CASE e = new
      BY <3>2, <2>1 DEF HInv, HubTypeOK
    <3>3. CASE e \in outbox[u]
      <4>1. e \in Event BY <3>3 DEF HInv, HubTypeOK
      <4>2. e.revision \in Nat /\ e.key \in Key BY <4>1 DEF Event
      <4>3. e.revision <= revision[e.key]
            /\ (e.revision = revision[e.key] => e.value = value[e.key])
        BY <3>3 DEF HInv, EventsAgree
      <4> QED BY <4>2, <4>3, <2>1 DEF HInv, HubTypeOK
    <3> QED BY <3>1, <3>2, <3>3
  <2>3. PageAgrees'
    BY <2>1 DEF HInv, HubTypeOK, PageAgrees
  <2> QED BY <2>2, <2>3
<1> QED BY <1>1, <1>2

LEMMA InvalidateAgrees ==
    ASSUME HInv, NEW t \in Pusher, Invalidate(t, Key), UNCHANGED mirror
    PROVE  /\ value' \in [Key -> Shown]
           /\ revision' \in [Key -> Nat]
           /\ outbox' \in [Pusher -> SUBSET Event]
           /\ EventsAgree' /\ PageAgrees'
<1> DEFINE New(k) == [key |-> k, value |-> None, revision |-> revision[k] + 1]
<1>1. /\ \A k \in Key : value'[k] = None /\ revision'[k] = revision[k] + 1
      /\ value' \in [Key -> Shown]
      /\ revision' \in [Key -> Nat]
  BY DEF Invalidate, HInv, HubTypeOK, Shown
<1>2. outbox' = [outbox EXCEPT ![t] = @ \cup {New(k) : k \in Key}]
  BY DEF Invalidate
<1>3. outbox' \in [Pusher -> SUBSET Event]
  BY <1>2 DEF HInv, HubTypeOK, Event, Shown
<1>4. EventsAgree'
  <2> SUFFICES ASSUME NEW u \in Pusher, NEW e \in outbox'[u]
               PROVE  /\ e.revision <= revision'[e.key]
                      /\ e.revision = revision'[e.key] => e.value = value'[e.key]
    BY DEF EventsAgree
  <2>1. e \in outbox[u] \/ \E k \in Key : e = New(k) BY <1>2 DEF HInv, HubTypeOK
  <2>2. CASE \E k \in Key : e = New(k)
    BY <2>2, <1>1 DEF HInv, HubTypeOK
  <2>3. CASE e \in outbox[u]
    <3>1. e \in Event BY <2>3 DEF HInv, HubTypeOK
    <3>2. e.revision \in Nat /\ e.key \in Key BY <3>1 DEF Event
    <3>3. e.revision <= revision[e.key] BY <2>3 DEF HInv, EventsAgree
    <3> QED BY <3>2, <3>3, <1>1 DEF HInv, HubTypeOK
  <2> QED BY <2>1, <2>2, <2>3
<1>5. PageAgrees'
  BY <1>1 DEF HInv, HubTypeOK, PageAgrees
<1> QED BY <1>1, <1>3, <1>4, <1>5

\* Pushing an event, in any order, keeps both; so does a page that subscribes.
LEMMA PushAgrees ==
    ASSUME HInv, NEW t \in Pusher, Push(t)
    PROVE  /\ outbox' \in [Pusher -> SUBSET Event]
           /\ mirror' \in [Key -> [value : Shown, revision : Nat]]
           /\ EventsAgree' /\ PageAgrees'
<1>1. PICK e \in outbox[t] :
         /\ outbox' = [outbox EXCEPT ![t] = @ \ {e}]
         /\ Deliver(e) \/ UNCHANGED mirror
         /\ UNCHANGED <<value, revision>>
  BY DEF Push, hub
<1>2. e \in Event BY DEF HInv, HubTypeOK
<1>3. e.revision \in Nat /\ e.key \in Key /\ e.value \in Shown BY <1>2 DEF Event
<1>4. e.revision <= revision[e.key]
      /\ (e.revision = revision[e.key] => e.value = value[e.key])
  BY DEF HInv, EventsAgree
<1>5. outbox' \in [Pusher -> SUBSET Event] BY <1>1 DEF HInv, HubTypeOK
<1>6. EventsAgree' BY <1>1 DEF HInv, HubTypeOK, EventsAgree
<1>7. CASE Deliver(e)
  <2>1. mirror' \in [Key -> [value : Shown, revision : Nat]]
    BY <1>3, <1>7 DEF Deliver, HInv, HubTypeOK
  <2>2. PageAgrees'
    BY <1>1, <1>3, <1>4, <1>7 DEF Deliver, HInv, HubTypeOK, PageAgrees
  <2> QED BY <1>5, <1>6, <2>1, <2>2
<1>8. CASE UNCHANGED mirror
  BY <1>1, <1>5, <1>6, <1>8 DEF HInv, HubTypeOK, PageAgrees
<1> QED BY <1>1, <1>7, <1>8

LEMMA SubscribeAgrees ==
    ASSUME HInv, Subscribe
    PROVE  /\ outbox' \in [Pusher -> SUBSET Event]
           /\ EventsAgree' /\ PageAgrees'
<1> DEFINE Now(k) == [key |-> k, value |-> value[k], revision |-> revision[k]]
           known  == {k \in Key : value[k] # None}
<1>1. /\ outbox' = [outbox EXCEPT !["page"] = {Now(k) : k \in known}]
      /\ UNCHANGED <<value, revision, mirror>>
  BY DEF Subscribe, hub
<1>2. \A k \in known : Now(k) \in Event BY DEF HInv, HubTypeOK, Event
<1>3. outbox' \in [Pusher -> SUBSET Event]
  <2>1. {Now(k) : k \in known} \in SUBSET Event BY <1>2
  <2> HIDE DEF Now, known
  <2> QED BY <1>1, <2>1 DEF HInv, HubTypeOK
<1>4. EventsAgree'
  <2> SUFFICES ASSUME NEW u \in Pusher, NEW e \in outbox'[u]
               PROVE  /\ e.revision <= revision[e.key]
                      /\ e.revision = revision[e.key] => e.value = value[e.key]
    BY <1>1 DEF EventsAgree
  <2>1. e \in outbox[u] \/ \E k \in known : e = Now(k) BY <1>1 DEF HInv, HubTypeOK
  <2>2. CASE \E k \in known : e = Now(k) BY <2>2 DEF HInv, HubTypeOK
  <2>3. CASE e \in outbox[u] BY <2>3 DEF HInv, EventsAgree
  <2> QED BY <2>1, <2>2, <2>3
<1>5. PageAgrees' BY <1>1 DEF HInv, PageAgrees
<1> QED BY <1>3, <1>4, <1>5

-----------------------------------------------------------------------------
(* The invariant is inductive.                                             *)

LEMMA HubInitEstablishes == HubInit => HInv
<1> SUFFICES ASSUME HubInit PROVE HInv OBVIOUS
<1>1. None \in Shown BY DEF Shown
<1>2. worker \in Worker BY <1>1 DEF HubInit, Worker, Control
<1>3. HubTypeOK
  <2>1. changes \in 0..MaxChange /\ moved \in 0..changes /\ epoch \in Nat
    BY HubAssumption DEF HubInit
  <2>2. /\ value \in [Key -> Shown] /\ revision \in [Key -> Nat]
        /\ pending \in [Key -> Nat \cup {-1}]
        /\ mirror \in [Key -> [value : Shown, revision : Nat]]
        /\ outbox \in [Pusher -> SUBSET Event]
    BY <1>1 DEF HubInit
  <2>3. thread \in [Thread -> Place] /\ reading \in [Thread -> Shown]
    BY <1>1 DEF HubInit, Place
  <2>4. Free \notin Thread \cup {"worker"} BY HubAssumption DEF Thread
  <2>5. /\ catalogLock \in Thread \cup {"worker", Free}
        /\ \A t \in Thread : catalogLock = t <=> thread[t] = "build"
        /\ catalogLock = "worker" <=> worker.at = "building"
        /\ worker.at \notin {"reading", "building", "read", "fresh"}
        /\ \A t \in Thread : thread[t] = "idle"
    BY <2>4 DEF HubInit
  <2>6. wake \in BOOLEAN /\ closing \in BOOLEAN /\ subscribed \in BOOLEAN
    BY DEF HubInit
  <2> QED BY <1>2, <2>1, <2>2, <2>3, <2>5, <2>6 DEF HubTypeOK
<1>4. EventsAgree BY DEF HubInit, EventsAgree
<1>5. PageAgrees BY DEF HubInit, PageAgrees
<1> QED BY <1>3, <1>4, <1>5 DEF HInv

\* The invariant but for values, revisions, events and mirror.
Rest ==
    /\ changes \in 0..MaxChange /\ moved \in 0..changes
    /\ epoch \in Nat
    /\ pending \in [Key -> Nat \cup {-1}]
    /\ wake \in BOOLEAN /\ closing \in BOOLEAN /\ subscribed \in BOOLEAN
    /\ worker \in Worker
    /\ catalogLock \in Thread \cup {"worker", Free}
    /\ thread \in [Thread -> Place]
    /\ reading \in [Thread -> Shown]
    /\ \A t \in Thread : catalogLock = t <=> thread[t] = "build"
    /\ catalogLock = "worker" <=> worker.at = "building"
    /\ worker.at \in {"reading", "building", "read", "fresh"} => worker.key \in Key
    /\ \A t \in Thread : thread[t] \in {"load", "build", "built"} => Catalog \in Key

Readings ==
    /\ value \in [Key -> Shown]
    /\ revision \in [Key -> Nat]
    /\ outbox \in [Pusher -> SUBSET Event]
    /\ mirror \in [Key -> [value : Shown, revision : Nat]]
    /\ EventsAgree
    /\ PageAgrees

LEMMA Split == HInv <=> Rest /\ Readings
BY DEF HInv, HubTypeOK, Rest, Readings

LEMMA QuietReadings ==
    ASSUME HInv, UNCHANGED <<value, revision, outbox, mirror>>
    PROVE  Readings'
BY Split DEF Readings, EventsAgree, PageAgrees

LEMMA WorkerFields ==
    ASSUME worker \in Worker
    PROVE  /\ worker.at \in Control /\ worker.batch \subseteq Key \X Nat
           /\ worker.key \in Key \cup {Catalog} /\ worker.epoch \in Nat /\ worker.got \in Shown
           /\ \A a \in Control : [worker EXCEPT !.at = a] \in Worker
           /\ \A a \in Control : [worker EXCEPT !.at = a].at = a
           /\ \A a \in Control : [worker EXCEPT !.at = a].key = worker.key
BY DEF Worker, Control

\* A request touches the dict, the event and, the first one, the worker.
LEMMA RequestTyped ==
    ASSUME Rest, NEW K \in SUBSET Key, Request(K)
    PROVE  /\ pending' \in [Key -> Nat \cup {-1}]
           /\ wake' \in BOOLEAN
           /\ worker' \in Worker
           /\ worker'.key = worker.key
           /\ worker.at = "building" <=> worker'.at = "building"
           /\ worker'.at \in {"reading", "building", "read", "fresh"} => worker'.at = worker.at
<1>1. pending' \in [Key -> Nat \cup {-1}] /\ wake' \in BOOLEAN
  BY DEF Rest, Request, Enqueue
<1>2. worker' = worker \/ (worker.at = "unborn" /\ worker' = [worker EXCEPT !.at = "waiting"])
  BY DEF Request, Born
<1>3. "waiting" \in Control BY DEF Control
<1> QED BY <1>1, <1>2, <1>3, WorkerFields DEF Rest

\* The worker's own steps on its locals.
LEMMA WorkerGoesTyped ==
    ASSUME Rest, NEW a, NEW b \in Control, WorkerGoes(a, b)
    PROVE  worker' \in Worker /\ worker.at = a /\ worker'.at = b /\ worker'.key = worker.key
BY WorkerFields DEF Rest, WorkerGoes

LEMMA WorkerDropsTyped ==
    ASSUME Rest, NEW a, NEW b \in Control, WorkerDrops(a, b)
    PROVE  worker' \in Worker /\ worker.at = a /\ worker'.at = b
<1>1. None \in Shown BY DEF Shown
<1> QED BY <1>1 DEF Rest, WorkerDrops, Worker

LEMMA WorkerRest == ASSUME Rest, WorkerStep PROVE Rest'
<1> USE DEF WorkerOnly, world, hub, queue
<1>1. Control = {"unborn", "waiting", "woken", "cleared", "next", "reading", "building",
                 "read", "fresh", "dead"}
  BY DEF Control
<1>2. "worker" # Free /\ "worker" \notin Thread BY HubAssumption DEF Thread
<1>3. CASE Woken
  <2>1. \E b \in {"dead", "woken"} : WorkerGoes("waiting", b) BY <1>3 DEF Woken
  <2>2. worker' \in Worker /\ worker.at = "waiting" /\ worker'.at \in {"dead", "woken"}
    BY <2>1, <1>1, WorkerGoesTyped
  <2> QED BY <1>3, <2>2 DEF Woken, Rest
<1>4. CASE WakeClear
  <2>1. worker' \in Worker /\ worker.at = "woken" /\ worker'.at = "cleared"
    BY <1>4, <1>1, WorkerGoesTyped DEF WakeClear
  <2> QED BY <1>4, <2>1 DEF WakeClear, Rest
<1>5. CASE TakePending
  <2>1. {<<k, pending[k]>> : k \in {j \in Key : pending[j] # -1}} \subseteq Key \X Nat
    BY DEF Rest
  <2>2. worker' \in Worker /\ worker.at = "cleared" /\ worker'.at = "next"
    BY <1>5, <2>1, <1>1 DEF TakePending, Rest, Worker
  <2>3. pending' \in [Key -> Nat \cup {-1}] BY <1>5 DEF TakePending
  <2> QED BY <1>5, <2>2, <2>3 DEF TakePending, Rest
<1>6. CASE NextRequest
  <2>1. worker' \in Worker /\ worker.at = "next" /\ worker'.at \in {"waiting", "dead", "next", "reading"}
        /\ (worker'.at = "reading" => worker'.key \in Key)
    <3>1. CASE \E b \in {"waiting", "dead"} : WorkerGoes("next", b)
      BY <3>1, <1>1, WorkerGoesTyped
    <3>2. CASE /\ worker.at = "next"
               /\ \E r \in worker.batch :
                     worker' = IF Stale(r[2])
                               THEN [worker EXCEPT !.batch = @ \ {r}]
                               ELSE [worker EXCEPT !.batch = @ \ {r}, !.at = "reading",
                                                   !.key = r[1], !.epoch = r[2]]
      <4>1. PICK r \in worker.batch :
                     worker' = IF Stale(r[2])
                               THEN [worker EXCEPT !.batch = @ \ {r}]
                               ELSE [worker EXCEPT !.batch = @ \ {r}, !.at = "reading",
                                                   !.key = r[1], !.epoch = r[2]]
        BY <3>2
      <4>2. r[1] \in Key /\ r[2] \in Nat BY WorkerFields DEF Rest
      <4>3. CASE Stale(r[2])
        BY <3>2, <4>1, <4>3, <1>1 DEF Rest, Worker
      <4>4. CASE ~Stale(r[2])
        BY <3>2, <4>1, <4>2, <4>4, <1>1 DEF Rest, Worker
      <4> QED BY <4>3, <4>4
    <3> QED BY <1>6, <3>1, <3>2 DEF NextRequest
  <2> QED BY <1>6, <2>1 DEF NextRequest, Rest
<1>7. CASE Read
  <2>1. worker' \in Worker /\ worker.at = "reading" /\ worker'.at = "read" /\ worker'.key = worker.key
    BY <1>7, <1>1 DEF Read, Rest, Worker, Shown
  <2> QED BY <1>7, <2>1 DEF Read, Rest
<1>8. CASE ReadCatalog
  <2>1. worker' \in Worker /\ worker.at = "reading" /\ worker'.at = "building" /\ worker'.key = worker.key
    BY <1>8, <1>1 DEF ReadCatalog, Rest, Worker, Shown
  <2>2. catalogLock = Free /\ catalogLock' = "worker" BY <1>8 DEF ReadCatalog
  <2>3. \A t \in Thread : thread[t] # "build" BY <2>2, HubAssumption DEF Rest, Thread
  <2> QED BY <1>8, <2>1, <2>2, <2>3, <1>2 DEF ReadCatalog, Rest
<1>9. CASE ReadFails
  <2>1. worker' \in Worker /\ worker.at = "reading" /\ worker'.at = "next"
    BY <1>9, <1>1, WorkerDropsTyped DEF ReadFails
  <2> QED BY <1>9, <2>1 DEF ReadFails, Rest
<1>10. CASE BuiltCatalog
  <2>1. worker' \in Worker /\ worker.at = "building" /\ worker'.at = "read" /\ worker'.key = worker.key
    BY <1>10, <1>1 DEF BuiltCatalog, Rest, Worker
  <2>2. pending' \in [Key -> Nat \cup {-1}] /\ wake' \in BOOLEAN
    BY <1>10 DEF BuiltCatalog, Enqueue, Rest
  <2>3. catalogLock = "worker" /\ catalogLock' = Free BY <2>1, <1>10 DEF BuiltCatalog, Rest
  <2>4. \A t \in Thread : thread[t] # "build" BY <2>3, <1>2 DEF Rest
  <2>5. Free \notin Thread BY HubAssumption DEF Thread
  <2> QED BY <1>10, <2>1, <2>2, <2>3, <2>4, <2>5, <1>2 DEF BuiltCatalog, Rest
<1>11. CASE Recheck
  <2>1. worker' \in Worker /\ worker.at = "read"
        /\ (worker'.at = "next" \/ (worker'.at = "fresh" /\ worker'.key = worker.key))
    BY <1>11, <1>1, WorkerGoesTyped, WorkerDropsTyped DEF Recheck
  <2> QED BY <1>11, <2>1 DEF Recheck, Rest
<1>12. CASE PublishRead
  <2>1. worker' \in Worker /\ worker.at = "fresh" /\ worker'.at = "next"
    BY <1>12, <1>1, WorkerDropsTyped DEF PublishRead
  <2> QED BY <1>12, <2>1 DEF PublishRead, Rest
<1> QED BY <1>3, <1>4, <1>5, <1>6, <1>7, <1>8, <1>9, <1>10, <1>11, <1>12 DEF WorkerStep

\* Moving one thread between places where it does not hold the catalog's lock.
LEMMA GoesTyped ==
    ASSUME Rest, NEW t \in Thread, NEW a, NEW b \in Place, Goes(t, a, b)
    PROVE  /\ thread[t] = a
           /\ thread' \in [Thread -> Place]
           /\ thread'[t] = b
           /\ \A u \in Thread : u # t => thread'[u] = thread[u]
BY DEF Rest, Goes

LEMMA ThreadRest ==
    ASSUME Rest, NEW t \in Thread, ThreadStep(t) \/ (t \in Loader /\ BeginLoad(t))
    PROVE  Rest'
<1> USE DEF ThreadOnly, world, hub, queue
<1>1. Place = {"idle", "saved", "announce", "load", "build", "built"} BY DEF Place
<1>2. "worker" # Free /\ "worker" \notin Thread /\ Free \notin Thread
  BY HubAssumption DEF Thread
<1>3. Key \ {Catalog} \in SUBSET Key OBVIOUS
<1>5. "change" \in Thread /\ "settings" \in Thread BY DEF Thread
<1>6. CASE t = "change" /\ DataChanged
  <2>1. Goes("change", "announce", "idle") BY <1>6 DEF DataChanged
  <2>2. Request(Key \ {Catalog}) BY <1>6 DEF DataChanged
  <2> QED BY <1>6, <2>1, <2>2, <1>1, <1>3, <1>5, GoesTyped, RequestTyped DEF DataChanged, Rest
<1>7. CASE t = "settings" /\ InvalidateAll
  <2>1. Goes("settings", "saved", "announce") BY <1>7 DEF InvalidateAll
  <2>2. epoch' \in Nat BY <1>7 DEF InvalidateAll, Invalidate, Rest
  <2> QED BY <1>7, <2>1, <2>2, <1>1, <1>5, GoesTyped DEF InvalidateAll, Rest
<1>8. CASE t = "settings" /\ SettingsChanged
  <2>1. \E b \in {"load", "idle"} : Goes("settings", "announce", b) /\ (b = "load" => Catalog \in Key)
    BY <1>8 DEF SettingsChanged
  <2>2. Request(Key \ {Catalog}) BY <1>8 DEF SettingsChanged
  <2> QED BY <1>8, <2>1, <2>2, <1>1, <1>3, <1>5, GoesTyped, RequestTyped DEF SettingsChanged, Rest
<1>9. CASE BeginLoad(t) /\ t \in Loader \cup {"settings"}
  <2>1. \E a \in {"load", "idle"} : Goes(t, a, "build") /\ (a = "idle" => t # "settings")
    BY <1>9 DEF BeginLoad
  <2>2. catalogLock = Free /\ catalogLock' = t BY <1>9 DEF BeginLoad
  <2>3. reading' \in [Thread -> Shown] BY <1>9 DEF BeginLoad, Rest, Shown
  <2>4. PICK a \in {"load", "idle"} : Goes(t, a, "build") /\ (a = "idle" => t # "settings") BY <2>1
  <2>5. Catalog \in Key
    <3>1. CASE t \in Loader BY <3>1, HubAssumption
    <3>2. CASE t = "settings"
      <4>1. thread[t] = "load" BY <3>2, <2>4 DEF Goes
      <4> QED BY <4>1 DEF Rest
    <3> QED BY <1>9, <3>1, <3>2
  <2>6. /\ thread' \in [Thread -> Place]
        /\ thread[t] # "build" /\ thread'[t] = "build"
        /\ \A u \in Thread : u # t => thread'[u] = thread[u]
    BY <2>4, <1>1, GoesTyped
  <2>7. worker.at # "building" /\ \A u \in Thread : thread[u] # "build"
    BY <2>2, <1>2 DEF Rest
  <2> QED BY <1>9, <2>2, <2>3, <2>5, <2>6, <2>7, <1>2 DEF BeginLoad, Rest
<1>10. CASE LoadRefused(t)
  BY <1>10, <1>1, GoesTyped DEF LoadRefused, Rest
<1>11. CASE EndLoad(t)
  <2>1. Goes(t, "build", "built") BY <1>11 DEF EndLoad
  <2>2. Request(Key \ {Catalog}) BY <1>11 DEF EndLoad
  <2>3. catalogLock = t /\ catalogLock' = Free BY <2>1, <1>11 DEF EndLoad, Rest, Goes
  <2> QED BY <1>11, <2>1, <2>2, <2>3, <1>1, <1>2, <1>3, GoesTyped, RequestTyped DEF EndLoad, Rest
<1>12. CASE LoadFails(t)
  <2>1. Goes(t, "build", "idle") BY <1>12 DEF LoadFails
  <2>2. catalogLock = t /\ catalogLock' = Free BY <2>1, <1>12 DEF LoadFails, Rest, Goes
  <2>3. reading' \in [Thread -> Shown] BY <1>12 DEF LoadFails, Rest, Shown
  <2> QED BY <1>12, <2>1, <2>2, <2>3, <1>1, <1>2, GoesTyped DEF LoadFails, Rest
<1>13. CASE PublishLoad(t)
  <2>1. Goes(t, "built", "idle") BY <1>13 DEF PublishLoad
  <2>2. reading' \in [Thread -> Shown] BY <1>13 DEF PublishLoad, Rest, Shown
  <2> QED BY <1>13, <2>1, <2>2, <1>1, GoesTyped DEF PublishLoad, Rest
<1> QED BY <1>6, <1>7, <1>8, <1>9, <1>10, <1>11, <1>12, <1>13 DEF ThreadStep

\* No step touches a mirror, a revision or an event but by publishing, invalidating,
\* subscribing or pushing.
LEMMA StepPreserves == ASSUME HInv, HubNext PROVE HInv'
<1> USE DEF world, hub, queue
<1>1. Rest /\ Readings BY Split
<1>2. CASE WorkerStep
  <2>1. Rest' BY <1>1, <1>2, WorkerRest
  <2>2. CASE PublishRead
    <3>1. worker.at = "fresh" BY <2>2 DEF PublishRead, WorkerDrops
    <3>2. worker.key \in Key /\ worker.got \in Shown BY <3>1, <1>1, WorkerFields DEF Rest
    <3>3. "worker" \in Pusher BY DEF Pusher
    <3>4. Publish("worker", worker.key, worker.got) /\ UNCHANGED mirror
      BY <2>2 DEF PublishRead, WorkerOnly
    <3>5. Readings'
      BY <1>1, <3>2, <3>3, <3>4, PublishTyped, PublishAgrees DEF Readings, HInv
    <3> QED BY <2>1, <3>5 DEF Rest, Readings, HInv, HubTypeOK
  <2>3. CASE ~PublishRead
    <3>1. UNCHANGED <<value, revision, outbox, mirror>>
      BY <1>2, <2>3 DEF WorkerStep, WorkerOnly, Woken, WakeClear, TakePending, NextRequest,
                        Read, ReadCatalog, ReadFails, BuiltCatalog, Recheck
    <3> QED BY <2>1, <3>1, QuietReadings DEF Rest, Readings, HInv, HubTypeOK
  <2> QED BY <2>2, <2>3
<1>3. ASSUME NEW t \in Pusher, Push(t) PROVE HInv'
  <2>1. UNCHANGED <<value, revision>> BY <1>3 DEF Push
  <2>2. Readings' BY <1>1, <1>3, <2>1, PushAgrees DEF Readings
  <2>3. Rest' BY <1>1, <1>3 DEF Push, Rest
  <2> QED BY <2>2, <2>3 DEF Rest, Readings, HInv, HubTypeOK
<1>4. ASSUME NEW t \in Thread, ThreadStep(t) \/ (t \in Loader /\ BeginLoad(t)) PROVE HInv'
  <2>1. Rest' BY <1>1, <1>4, ThreadRest
  <2>2. t \in Pusher BY DEF Pusher
  <2>3. CASE PublishLoad(t)
    <3>1. Catalog \in Key /\ reading[t] \in Shown
      BY <2>3, <1>1 DEF PublishLoad, Goes, Rest
    <3>2. Publish(t, Catalog, reading[t]) /\ UNCHANGED mirror
      BY <2>3 DEF PublishLoad, ThreadOnly
    <3>3. Readings'
      BY <1>1, <2>2, <3>1, <3>2, PublishTyped, PublishAgrees DEF Readings, HInv
    <3> QED BY <2>1, <3>3 DEF Rest, Readings, HInv, HubTypeOK
  <2>4. CASE t = "settings" /\ InvalidateAll
    <3>1. Invalidate(t, Key) /\ UNCHANGED mirror
      BY <2>4 DEF InvalidateAll, ThreadOnly
    <3>2. Readings' BY <1>1, <2>2, <3>1, InvalidateAgrees DEF Readings
    <3> QED BY <2>1, <3>2 DEF Rest, Readings, HInv, HubTypeOK
  <2>5. CASE ~PublishLoad(t) /\ ~(t = "settings" /\ InvalidateAll)
    <3>1. UNCHANGED <<value, revision, outbox, mirror>>
      BY <1>4, <2>5 DEF ThreadStep, ThreadOnly, DataChanged, SettingsChanged, BeginLoad,
                        LoadRefused, EndLoad, LoadFails
    <3> QED BY <2>1, <3>1, QuietReadings DEF Rest, Readings, HInv, HubTypeOK
  <2> QED BY <2>3, <2>4, <2>5
<1>5. CASE ChangeDisk \/ SaveSettings
  <2>1. \E t \in {"change", "settings"} : \E b \in {"announce", "saved"} : Goes(t, "idle", b)
    BY <1>5 DEF ChangeDisk, SaveSettings
  <2>2. {"change", "settings"} \subseteq Thread /\ {"announce", "saved"} \subseteq Place
    BY DEF Thread, Place
  <2>3. changes' \in 0..MaxChange /\ moved' \in 0..changes'
    BY <1>1, <1>5, HubAssumption DEF ChangeDisk, SaveSettings, Rest
  <2>4. Rest'
    BY <1>1, <1>5, <2>1, <2>2, <2>3, GoesTyped DEF ChangeDisk, SaveSettings, ThreadOnly, Rest
  <2>5. UNCHANGED <<value, revision, outbox, mirror>>
    BY <1>5 DEF ChangeDisk, SaveSettings, ThreadOnly
  <2> QED BY <2>4, <2>5, QuietReadings DEF Rest, Readings, HInv, HubTypeOK
<1>6. CASE Subscribe
  <2>1. Key \ {k \in Key : value[k] # None} \in SUBSET Key OBVIOUS
  <2>2. UNCHANGED <<queue, worker>> \/ Request(Key \ {k \in Key : value[k] # None})
    BY <1>6 DEF Subscribe
  <2>3. Rest' BY <1>1, <1>6, <2>1, <2>2, RequestTyped DEF Subscribe, Rest
  <2>4. UNCHANGED <<value, revision, mirror>> BY <1>6 DEF Subscribe
  <2>5. Readings' BY <1>1, <1>6, <2>4, SubscribeAgrees DEF Readings
  <2> QED BY <2>3, <2>5 DEF Rest, Readings, HInv, HubTypeOK
<1>7. CASE Close
  <2>1. Rest' BY <1>1, <1>7 DEF Close, Rest
  <2>2. UNCHANGED <<value, revision, outbox, mirror>> BY <1>7 DEF Close
  <2> QED BY <2>1, <2>2, QuietReadings DEF Rest, Readings, HInv, HubTypeOK
<1>8. ASSUME NEW k \in Key, DataRequest(k) PROVE HInv'
  <2>1. Request({k}) /\ {k} \in SUBSET Key BY <1>8 DEF DataRequest
  <2>2. Rest' BY <1>1, <1>8, <2>1, RequestTyped DEF DataRequest, Rest
  <2>3. UNCHANGED <<value, revision, outbox, mirror>> BY <1>8 DEF DataRequest
  <2> QED BY <2>2, <2>3, QuietReadings DEF Rest, Readings, HInv, HubTypeOK
<1>9. Loader \subseteq Thread BY DEF Thread
<1> QED BY <1>2, <1>3, <1>4, <1>5, <1>6, <1>7, <1>8, <1>9 DEF HubNext

LEMMA StutterPreserves == ASSUME HInv, UNCHANGED hubVars PROVE HInv'
<1>1. Rest /\ Readings BY Split
<1>2. Rest' BY <1>1 DEF hubVars, world, hub, queue, Rest
<1>3. Readings' BY QuietReadings DEF hubVars, hub
<1> QED BY <1>2, <1>3 DEF Rest, Readings, HInv, HubTypeOK

LEMMA HubInvariance == HubSpec => []HInv
<1>1. HubInit => HInv BY HubInitEstablishes
<1>2. HInv /\ [HubNext]_hubVars => HInv' BY StepPreserves, StutterPreserves
<1> QED BY <1>1, <1>2, PTL DEF HubSpec

-----------------------------------------------------------------------------
(* The theorems.                                                           *)

\* Types, and the catalog's lock: it is held exactly by whoever is building a
\* catalog, whatever raises meanwhile (catalog_controller.py:49-60, 82-84).
THEOREM HubTypes == HubSpec => []HubTypeOK
<1>1. HInv => HubTypeOK BY DEF HInv
<1> QED BY <1>1, HubInvariance, PTL

\* The page is never ahead of the hub, and under the hub's current revision it
\* shows the hub's value, whichever pushes are late or lost.
THEOREM MirrorNeverMixes == HubSpec => []MirrorAgrees
<1>1. HInv => MirrorAgrees BY DEF HInv, PageAgrees, MirrorAgrees
<1> QED BY <1>1, HubInvariance, PTL

\* Pushes of several threads, in any order, never take the page back to an older
\* reading, nor do they change what a revision stands for.
THEOREM PageIsMonotone == HubSpec => PageNeverGoesBack
<1> DEFINE Forward ==
       \A k \in Key : /\ mirror'[k].revision >= mirror[k].revision
                      /\ mirror'[k].revision = mirror[k].revision => mirror'[k] = mirror[k]
<1>1. ASSUME HInv, HubNext PROVE Forward
  <2>1. \A k \in Key : mirror[k].revision \in Nat BY <1>1 DEF HInv, HubTypeOK
  <2>2. CASE UNCHANGED mirror BY <2>1, <2>2
  <2>3. ASSUME NEW t \in Pusher, Push(t) PROVE Forward
    <3>1. PICK e \in outbox[t] : Deliver(e) \/ UNCHANGED mirror BY <2>3 DEF Push
    <3>2. e \in Event BY <1>1, <2>3 DEF HInv, HubTypeOK
    <3>3. e.revision \in Nat /\ e.key \in Key BY <3>2 DEF Event
    <3>4. CASE Deliver(e) BY <2>1, <3>3, <3>4, <1>1 DEF Deliver, HInv, HubTypeOK
    <3>5. CASE UNCHANGED mirror BY <2>2, <3>5, <2>1
    <3> QED BY <3>1, <3>4, <3>5
  <2>4. (\E t \in Pusher : Push(t)) \/ UNCHANGED mirror
    <3>1. CASE WorkerStep
      BY <3>1 DEF WorkerStep, WorkerOnly, Woken, WakeClear, TakePending, NextRequest, Read,
                  ReadCatalog, ReadFails, BuiltCatalog, Recheck, PublishRead
    <3>2. ASSUME NEW t \in Thread, ThreadStep(t) \/ BeginLoad(t) PROVE UNCHANGED mirror
      BY <3>2 DEF ThreadStep, ThreadOnly, DataChanged, InvalidateAll, SettingsChanged,
                  BeginLoad, LoadRefused, EndLoad, LoadFails, PublishLoad
    <3>3. CASE ChangeDisk \/ SaveSettings \/ Subscribe \/ Close
      BY <3>3 DEF ChangeDisk, SaveSettings, Subscribe, Close, ThreadOnly
    <3>4. ASSUME NEW k \in Key, DataRequest(k) PROVE UNCHANGED mirror
      BY <3>4 DEF DataRequest
    <3>5. Loader \subseteq Thread BY DEF Thread
    <3> QED BY <1>1, <3>1, <3>2, <3>3, <3>4, <3>5 DEF HubNext
  <2> QED BY <2>2, <2>3, <2>4
<1>2. HInv /\ [HubNext]_hubVars => [Forward]_hubVars BY <1>1
<1> QED BY <1>2, HubInvariance, PTL DEF HubSpec, PageNeverGoesBack

=============================================================================
