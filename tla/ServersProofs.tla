---------------------------- MODULE ServersProofs ----------------------------
(* What a machine's list of servers may hold and lose, for any machines,     *)
(* users, servers and overlapping calls: the types of Servers, the inductive *)
(* invariant, and from it IdentitiesAreAccepted, CachedIsOwn and             *)
(* KeptUnlessRemoved.                                                        *)
(*                                                                           *)
(* The invariant follows a list wherever it goes - config.json, the Gist, the*)
(* entries put aside, what a waiting call holds: each identity in it has been*)
(* vouched for on that machine, each tombstone is of a removed server, and   *)
(* what a call read before it waited still names every server of the machine *)
(* unless another call has changed the list since.                           *)
EXTENDS Servers, TLAPS

Who == Login \cup {"session"}
Kept == [Servers -> [who : Who, ident : Nat] \cup {None}]
Row == [status : ServerAnswers \cup {"unasked"}, who : Who, ident : Nat,
        cached : [who : Who, ident : Nat] \cup {None}]
Rows == [Servers -> Row \cup {None}]
Thread ==
  [pc : {"idle", "verify", "sync", "merge", "reconnect", "exchange", "add", "ask", "logout"},
   goal : {None, "refresh", "reconnect", "read", "activate", "source"},
   server : Servers \cup {None}, token : Login, list : List, remote : List,
   gist : Nat, ask : SUBSET Servers, rows : Rows, clean : BOOLEAN]

\* Every identity of the list is among the accepted ones.
Vouched(list, ids) == \A s \in Servers : list[s] # None => <<s, list[s].ident>> \in ids
\* Every tombstone of the list is of a removed server.
Buried(list, dead) == \A s \in Servers : list[s] # None /\ list[s].deleted => s \in dead
\* What is shown from the catalogue was kept for who asks, under the identity registered.
Own(shown) == \A s \in Servers : shown[s] # None /\ shown[s].cached # None =>
  shown[s].cached.who = shown[s].who /\ shown[s].cached.ident = shown[s].ident

Config(n) == [Machines -> [servers : List, user : Login, gist : 0..n]]
Vault == [Machines -> [github : Login, session : [Servers -> Login]]]
Memory == [Machines -> [token : Login, device : BOOLEAN, checked : Login, conflicts : List]]
Gist == [owner : Login, servers : List]
Types ==
  /\ config \in Config(Len(gists)) /\ vault \in Vault /\ memory \in Memory
  /\ catalog \in [Machines -> Kept] /\ rows \in [Machines -> Rows]
  /\ requested \in [Machines -> BOOLEAN]
  /\ gists \in Seq(Gist)
  /\ now \in Nat /\ calls \in Nat
  /\ removed \subseteq Servers /\ wanted \subseteq Servers
  /\ accepted \in [Machines -> SUBSET (Servers \X Nat)]
MachineOk(m) ==
  /\ Vouched(config[m].servers, accepted[m])
  /\ Buried(config[m].servers, removed) /\ Buried(memory[m].conflicts, removed)
  /\ Own(rows[m])
GistsOk == \A g \in 1..Len(gists) : Buried(gists[g].servers, removed)
StateOk == Types /\ (\A m \in Machines : MachineOk(m)) /\ GistsOk

\* A call that holds `th`, on a machine with these servers, identities and
\* removals, among so many Gists.
ThreadOk(th, servers, ids, dead, n) ==
  /\ th \in Thread /\ th.gist \in 0..n
  /\ \A s \in Servers : th.list[s] # None =>
       <<s, th.list[s].ident>> \in ids \/ (th.pc = "add" /\ s = th.server)
  /\ th.pc = "add" => th.server \in Servers /\ th.list[th.server] # None
  /\ Buried(th.list, dead) /\ Buried(th.remote, dead)
  /\ th.pc = "ask" => th.ask \subseteq Active(th.list)
  /\ th.clean /\ th.pc \in {"merge", "exchange", "add", "logout"} =>
       Active(servers) \subseteq Active(th.list)
  /\ Own(th.rows)
Holds(t) == ThreadOk(thread[t], config[MachineOf[t]].servers, accepted[MachineOf[t]],
                     removed, Len(gists))
ThreadsOk == thread \in [Threads -> Thread] /\ \A t \in Threads : Holds(t)
Inv == StateOk /\ ThreadsOk

(* ------------------------------- the lists ---------------------------- *)
\* The empty list: nothing to vouch for and nothing buried.
LEMMA NothingIsAList ==
  /\ Nothing \in List /\ Nothing \in Rows /\ Nothing \in Kept
  /\ \A ids : Vouched(Nothing, ids)
  /\ \A dead : Buried(Nothing, dead)
  /\ Own(Nothing)
BY DEF Nothing, List, Rows, Kept, Vouched, Buried, Own

\* _developer_server_entries keeps the active servers with their identities.
LEMMA EntriesKeep ==
  ASSUME NEW list \in List
  PROVE /\ Entries(list) \in List /\ Active(Entries(list)) = Active(list)
        /\ \A ids : Vouched(list, ids) => Vouched(Entries(list), ids)
        /\ \A dead : Buried(Entries(list), dead)
BY DEF Entries, List, Active, Vouched, Buried

LEMMA EntryIsARecord ==
  ASSUME NEW key \in Nat
  PROVE Entry(key, 0) \in Record /\ ~Entry(key, 0).deleted /\ Entry(key, 0) # None
<1>1. Entry(key, 0) \in Record /\ ~Entry(key, 0).deleted
  BY DEF Entry, Record
<1>2. QED
  BY <1>1, ServersAssumption

\* What is sent to the Gist keeps every entry and its identity, tombstones too.
LEMMA RecoveryKeeps ==
  ASSUME NEW list \in List
  PROVE /\ Recovery(list) \in List /\ Active(Recovery(list)) = Active(list)
        /\ \A ids : Vouched(list, ids) => Vouched(Recovery(list), ids)
        /\ \A dead : Buried(list, dead) => Buried(Recovery(list), dead)
<1>1. \A s \in Servers : list[s] # None =>
        /\ Recovery(list)[s] \in Record /\ Recovery(list)[s] # None
        /\ Recovery(list)[s].ident = list[s].ident
        /\ Recovery(list)[s].deleted = list[s].deleted
  BY ServersAssumption DEF Recovery, List, Record
<1>2. \A s \in Servers : list[s] = None => Recovery(list)[s] = None
  BY DEF Recovery
<1>3. Recovery(list) \in List
  BY <1>1, <1>2 DEF Recovery, List
<1>4. QED
  BY <1>1, <1>2, <1>3 DEF Active, Vouched, Buried

\* The merge of two lists: entries of one of them, a known server's identity
\* is not replaced, and only a tombstone of the Gist takes a server away.
LEMMA MergedKeeps ==
  ASSUME NEW local \in List, NEW remote \in List
  PROVE /\ Merged(local, remote) \in List
        /\ \A s \in Servers : Merged(local, remote)[s] \in {local[s], remote[s]}
        /\ \A s \in Servers : local[s] # None =>
             Merged(local, remote)[s] # None
             /\ Merged(local, remote)[s].ident = local[s].ident
        /\ \A s \in Active(local) : s \notin Active(Merged(local, remote)) =>
             remote[s] # None /\ remote[s].deleted
<1> DEFINE both == Merged(local, remote)
<1>1. \A s \in Servers : both[s] \in {local[s], remote[s]}
  BY DEF Merged
<1>2. both \in List
  BY <1>1 DEF Merged, List
<1>3. \A s \in Servers : local[s] # None => both[s] # None /\ both[s].ident = local[s].ident
  BY DEF Merged, Conflicting
<1>4. \A s \in Active(local) : s \notin Active(both) => remote[s] # None /\ remote[s].deleted
  BY <1>1, <1>3 DEF Active
<1>5. QED
  BY <1>1, <1>2, <1>3, <1>4

(* --------------------------- the other threads ------------------------ *)
\* What a thread holds stays sound while another one works: identities and
\* removals only grow, and it is marked when the servers of its machine change.
LEMMA WaitingIsSound ==
  ASSUME NEW th, NEW next, NEW servers, NEW servers2, NEW ids, NEW ids2,
         NEW dead, NEW dead2, NEW n \in Nat, NEW n2 \in Nat,
         ThreadOk(th, servers, ids, dead, n),
         ids \subseteq ids2, dead \subseteq dead2, n <= n2,
         \/ next = th /\ (Waits(th.pc) => servers2 = servers)
         \/ next = [th EXCEPT !.clean = FALSE]
  PROVE ThreadOk(next, servers2, ids2, dead2, n2)
<1>1. th \in Thread /\ th.gist \in 0..n2
  BY DEF ThreadOk
<1>2. /\ next \in Thread /\ next.gist = th.gist
      /\ next.pc = th.pc /\ next.list = th.list /\ next.remote = th.remote
      /\ next.server = th.server /\ next.ask = th.ask /\ next.rows = th.rows
      /\ next.clean => th.clean /\ (Waits(th.pc) => servers2 = servers)
  <2>1. CASE next = th /\ (Waits(th.pc) => servers2 = servers)
    BY <1>1, <2>1
  <2>2. CASE next = [th EXCEPT !.clean = FALSE]
    BY <1>1, <2>2 DEF Thread
  <2>3. QED
    BY <2>1, <2>2
<1>3. next.clean /\ next.pc \in {"merge", "exchange", "add", "logout"} =>
        Active(servers2) \subseteq Active(next.list)
  BY <1>2 DEF ThreadOk, Waits
<1>4. QED
  BY <1>1, <1>2, <1>3 DEF ThreadOk, Buried

\* The step of one thread: what it leaves to itself has to be sound, the rest follows.
LEMMA OthersStaySound ==
  ASSUME Inv, NEW t \in Threads, NEW next, Go(t, next), StateOk',
         \A m \in Machines : accepted[m] \subseteq accepted'[m],
         removed \subseteq removed', Len(gists) <= Len(gists)',
         \A m \in Machines : m # MachineOf[t] => config'[m].servers = config[m].servers,
         ThreadOk(next, config[MachineOf[t]].servers', accepted[MachineOf[t]]', removed',
                  Len(gists)')
  PROVE Inv'
<1>1. /\ thread' \in [Threads -> {thread'[u] : u \in Threads}] /\ thread'[t] = next
      /\ \A u \in Threads : u # t =>
           \/ thread'[u] = thread[u]
              /\ (Waits(thread[u].pc) =>
                    config'[MachineOf[u]].servers = config[MachineOf[u]].servers)
           \/ thread'[u] = [thread[u] EXCEPT !.clean = FALSE]
  BY ServersAssumption DEF Go
<1>2. Len(gists) \in Nat /\ Len(gists)' \in Nat
  BY DEF Inv, StateOk, Types
<1>3. ASSUME NEW u \in Threads, u # t
      PROVE Holds(u)'
  <2>1. MachineOf[u] \in Machines
    BY ServersAssumption
  <2>2. ThreadOk(thread[u], config[MachineOf[u]].servers, accepted[MachineOf[u]],
                 removed, Len(gists))
    BY DEF Inv, ThreadsOk, Holds
  <2>3. ThreadOk(thread'[u], config'[MachineOf[u]].servers, accepted'[MachineOf[u]],
                 removed', Len(gists)')
    BY <1>1, <1>2, <1>3, <2>1, <2>2, WaitingIsSound
  <2>4. QED
    BY <2>3 DEF Holds
<1>4. Holds(t)'
  BY <1>1 DEF Holds
<1>5. \A u \in Threads : Holds(u)'
  BY <1>3, <1>4
<1>6. thread' \in [Threads -> Thread]
  BY <1>1, <1>5 DEF Holds, ThreadOk
<1>7. QED
  BY <1>5, <1>6 DEF Inv, ThreadsOk

\* A step that leaves every list where it is.
Quiet ==
  /\ \A m \in Machines : config'[m].servers = config[m].servers
                         /\ memory'[m].conflicts = memory[m].conflicts
  /\ rows' = rows /\ gists' = gists /\ accepted' = accepted /\ removed' = removed
LEMMA QuietStep ==
  ASSUME Inv, Quiet, Types', NEW t \in Threads, NEW next, Go(t, next),
         ThreadOk(next, config[MachineOf[t]].servers, accepted[MachineOf[t]], removed, Len(gists))
  PROVE Inv'
<1>1. MachineOf[t] \in Machines
  BY ServersAssumption
<1>2. ASSUME NEW m \in Machines PROVE MachineOk(m)'
  BY DEF Inv, StateOk, MachineOk, Quiet
<1>3. StateOk'
  BY <1>2 DEF Inv, StateOk, GistsOk, Quiet
<1>4. Len(gists) \in Nat
  BY DEF Inv, StateOk, Types
<1>5. QED
  BY <1>1, <1>3, <1>4, OthersStaySound DEF Quiet

\* A call that holds no list yet is sound.
LEMMA FreshIsSound ==
  ASSUME NEW next \in Thread, NEW servers, NEW ids, NEW dead, NEW n \in Nat,
         next.pc \in {"idle", "verify", "sync", "reconnect"},
         next.list = Nothing, next.remote = Nothing, next.rows = Nothing, next.gist = 0
  PROVE ThreadOk(next, servers, ids, dead, n)
<1>1. next.gist \in 0..n
  OBVIOUS
<1>2. \A s \in Servers : Nothing[s] = None
  BY DEF Nothing
<1>3. QED
  BY <1>1, <1>2, NothingIsAList DEF ThreadOk
LEMMA IdleIsFresh ==
  ASSUME NEW pc \in {"idle", "verify", "sync", "reconnect"},
         NEW goal \in {None, "refresh", "reconnect", "read", "activate", "source"},
         NEW s \in Servers \cup {None}, NEW servers, NEW ids, NEW dead, NEW n \in Nat
  PROVE /\ Idle \in Thread
        /\ ThreadOk([Idle EXCEPT !.pc = pc], servers, ids, dead, n)
        /\ ThreadOk([Idle EXCEPT !.pc = pc, !.goal = goal], servers, ids, dead, n)
        /\ ThreadOk([Idle EXCEPT !.pc = pc, !.goal = goal, !.server = s], servers, ids, dead, n)
        /\ ThreadOk(Idle, servers, ids, dead, n)
<1>1. Idle \in Thread
  BY NothingIsAList DEF Idle, Thread, Login
<1>2. /\ Idle.pc = "idle" /\ Idle.list = Nothing /\ Idle.remote = Nothing
      /\ Idle.rows = Nothing /\ Idle.gist = 0
  BY DEF Idle
<1>3. ASSUME NEW next, \/ next = Idle \/ next = [Idle EXCEPT !.pc = pc]
                       \/ next = [Idle EXCEPT !.pc = pc, !.goal = goal]
                       \/ next = [Idle EXCEPT !.pc = pc, !.goal = goal, !.server = s]
      PROVE ThreadOk(next, servers, ids, dead, n)
  <2>1. next \in Thread
    BY <1>1, <1>3 DEF Thread
  <2>2. /\ next.pc \in {"idle", "verify", "sync", "reconnect"} /\ next.list = Nothing
        /\ next.remote = Nothing /\ next.rows = Nothing /\ next.gist = 0
    BY <1>1, <1>2, <1>3 DEF Thread
  <2>3. QED
    BY <2>1, <2>2, FreshIsSound
<1>4. QED
  BY <1>1, <1>3

LEMMA NextIsFresh ==
  ASSUME NEW next \in {Idle, [Idle EXCEPT !.pc = "sync"], [Idle EXCEPT !.pc = "reconnect"]},
         NEW servers, NEW ids, NEW dead, NEW n \in Nat
  PROVE ThreadOk(next, servers, ids, dead, n)
<1>1. /\ ThreadOk([Idle EXCEPT !.pc = "sync"], servers, ids, dead, n)
      /\ ThreadOk([Idle EXCEPT !.pc = "reconnect"], servers, ids, dead, n)
      /\ ThreadOk(Idle, servers, ids, dead, n)
  <2>1. None \in Servers \cup {None}
    OBVIOUS
  <2>2. QED
    BY <2>1, IdleIsFresh
<1>2. QED
  BY <1>1

LEMMA TokenIsALogin ==
  ASSUME Inv, NEW m \in Machines
  PROVE Token(m) \in Login
BY DEF Inv, StateOk, Types, Memory, Vault, Token

(* ------------------------------ the login ----------------------------- *)
LEMMA InvInit == Init => Inv
<1> SUFFICES ASSUME Init PROVE Inv
  OBVIOUS
<1>1. PICK lists \in FirstLists, u \in FirstUsers :
        /\ config = [m \in Machines |-> [servers |-> lists[m], user |-> u, gist |-> 0]]
        /\ vault = [m \in Machines |-> [github |-> u, session |->
             [s \in Servers |-> IF s \in Active(lists[m]) THEN u ELSE None]]]
        /\ wanted = UNION {Active(lists[m]) : m \in Machines}
        /\ accepted = [m \in Machines |->
             {<<s, lists[m][s].ident>> : s \in {q \in Servers : lists[m][q] # None}}]
        /\ removed = UNION {{s \in Servers : lists[m][s] # None /\ lists[m][s].deleted}
                             : m \in Machines}
  BY DEF Init
<1>2. lists \in [Machines -> List] /\ u \in Login
  BY ServersAssumption
<1>3. Len(gists) = 0 /\ gists \in Seq(Gist)
  BY DEF Init
<1>4. Types
  <2>1. config \in [Machines -> [servers : List, user : Login, gist : 0..Len(gists)]]
    BY <1>1, <1>2, <1>3
  <2>2. vault \in [Machines -> [github : Login, session : [Servers -> Login]]]
    BY <1>1, <1>2 DEF Login
  <2>3. memory \in [Machines ->
          [token : Login, device : BOOLEAN, checked : Login, conflicts : List]]
    BY NothingIsAList DEF Init, Login
  <2>4. wanted \subseteq Servers /\ removed \subseteq Servers
    BY <1>1 DEF Active
  <2>5. ASSUME NEW m \in Machines, NEW s \in Servers, lists[m][s] # None
        PROVE lists[m][s].ident \in Nat
    BY <1>2, <2>5 DEF List, Record
  <2>6. accepted \in [Machines -> SUBSET (Servers \X Nat)]
    BY <1>1, <2>5
  <2>7. QED
    BY <1>3, <2>1, <2>2, <2>3, <2>4, <2>6, NothingIsAList
    DEF Init, Types, Config, Vault, Memory
<1>5. ASSUME NEW m \in Machines PROVE MachineOk(m)
  <2>1. config[m].servers = lists[m]
    BY <1>1
  <2>2. Vouched(lists[m], accepted[m])
    BY <1>1 DEF Vouched
  <2>3. Buried(lists[m], removed)
    BY <1>1 DEF Buried
  <2>4. memory[m].conflicts = Nothing /\ rows[m] = Nothing
    BY DEF Init
  <2>5. QED
    BY <2>1, <2>2, <2>3, <2>4, NothingIsAList DEF MachineOk
<1>6. \A t \in Threads : Holds(t)
  BY <1>3, IdleIsFresh DEF Init, Holds
<1>7. thread \in [Threads -> Thread]
  BY <1>3, IdleIsFresh DEF Init
<1>8. QED
  BY <1>3, <1>4, <1>5, <1>6, <1>7 DEF Inv, StateOk, GistsOk, ThreadsOk

\* The calls that only note something and go on afresh: bootstrap, the device
\* login's start, the sync and the use of a server, and a reading's start.
LEMMA CallsStart ==
  ASSUME Inv, NEW t \in Threads,
         \/ Bootstrap(t) \/ StartDevice(t) \/ SyncCall(t) \/ ReadStart(t)
         \/ \E s \in Servers, goal \in {"activate", "source"} : UseServer(t, goal, s)
  PROVE Inv'
<1>1. MachineOf[t] \in Machines /\ Len(gists) \in Nat /\ Types
  BY ServersAssumption DEF Inv, StateOk, Types
<1>2. CASE Bootstrap(t)
  <2>1. Types' /\ Quiet
    BY <1>1, <1>2 DEF Types, Quiet, Bootstrap, Start, world, ghosts
  <2>2. QED
    BY <1>1, <1>2, <2>1, QuietStep, IdleIsFresh DEF Bootstrap, Start
<1>3. CASE StartDevice(t)
  <2>1. memory' \in Memory /\ \A m \in Machines : memory'[m].conflicts = memory[m].conflicts
    BY <1>1, <1>3 DEF Types, StartDevice, Memory
  <2>2. calls' \in Nat
    BY <1>1, <1>3 DEF Types, StartDevice, Start
  <2>3. Types' /\ Quiet
    BY <1>1, <1>3, <2>1, <2>2 DEF Types, Quiet, StartDevice, world, ghosts
  <2>4. QED
    BY <1>1, <1>3, <2>3, QuietStep, IdleIsFresh DEF StartDevice, Start
<1>4. CASE SyncCall(t)
  <2>1. Types' /\ Quiet
    BY <1>1, <1>4 DEF Types, Quiet, SyncCall, Start, world, ghosts
  <2>2. QED
    BY <1>1, <1>4, <2>1, QuietStep, IdleIsFresh DEF SyncCall, Start
<1>5. CASE ReadStart(t)
  <2>1. Types' /\ Quiet
    BY <1>1, <1>5 DEF Types, Quiet, ReadStart, Start, world, ghosts
  <2>2. QED
    BY <1>1, <1>5, <2>1, QuietStep, IdleIsFresh DEF ReadStart, Start
<1>6. CASE \E s \in Servers, goal \in {"activate", "source"} : UseServer(t, goal, s)
  <2>1. PICK s \in Servers, goal \in {"activate", "source"} : UseServer(t, goal, s)
    BY <1>6
  <2>2. /\ UNCHANGED <<config, vault, memory, catalog, rows, requested, gists, now, removed,
                        wanted, accepted>>
        /\ calls' = calls + 1
    BY <2>1 DEF UseServer, Start, world, ghosts
  <2>3. Types' /\ Quiet
    BY <1>1, <2>2 DEF Types, Quiet
  <2>4. QED
    BY <1>1, <2>1, <2>3, QuietStep, IdleIsFresh DEF UseServer, Start
<1>7. QED
  BY <1>2, <1>3, <1>4, <1>5, <1>6

LEMMA PollIsSound ==
  ASSUME Inv, NEW t \in Threads, NEW u \in Users, NEW stored \in BOOLEAN,
         PollGranted(t, u, stored)
  PROVE Inv'
<1> DEFINE m == MachineOf[t]
<1>1. m \in Machines /\ Len(gists) \in Nat /\ Types /\ u \in Login
  BY ServersAssumption DEF Inv, StateOk, Types, Login
<1>2. memory' \in Memory /\ \A q \in Machines : memory'[q].conflicts = memory[q].conflicts
  BY <1>1 DEF Types, PollGranted, Memory
<1>3. config' \in Config(Len(gists)) /\ \A q \in Machines : config'[q].servers = config[q].servers
  <2>1. config' = [config EXCEPT ![m].user = u]
    BY DEF PollGranted
  <2>2. QED
    BY <1>1, <2>1 DEF Types, Config
<1>4. vault' \in Vault
  <2>1. (IF stored THEN u ELSE vault[m].github) \in Login
    BY <1>1 DEF Types, Vault
  <2>2. QED
    BY <1>1, <2>1 DEF PollGranted, Types, Vault
<1>5. Types' /\ Quiet
  BY <1>1, <1>2, <1>3, <1>4 DEF Types, Quiet, PollGranted, world, ghosts
<1>6. QED
  BY <1>1, <1>5, QuietStep, IdleIsFresh DEF PollGranted

LEMMA DeviceOverIsSound ==
  ASSUME Inv, NEW t \in Threads, DeviceOver(t)
  PROVE Inv'
<1>1. MachineOf[t] \in Machines /\ Types
  BY ServersAssumption DEF Inv, StateOk
<1>2. memory' \in Memory /\ \A m \in Machines : memory'[m].conflicts = memory[m].conflicts
  BY <1>1 DEF Types, DeviceOver, Memory
<1>3. Types'
  BY <1>1, <1>2 DEF Types, DeviceOver, world, ghosts
<1>4. ASSUME NEW m \in Machines PROVE MachineOk(m)'
  BY <1>2 DEF Inv, StateOk, MachineOk, DeviceOver, ghosts
<1>5. GistsOk'
  BY DEF Inv, StateOk, GistsOk, DeviceOver, world, ghosts
<1>6. QED
  BY <1>3, <1>4, <1>5 DEF Inv, StateOk, ThreadsOk, Holds, DeviceOver, world, ghosts

\* A call goes on to ask the active servers it read, or one of them.
LEMMA AskIsSound ==
  ASSUME NEW t \in Threads, NEW servers \in List, NEW ids, NEW dead, NEW n \in Nat,
         NEW list \in List, NEW th, ThreadOk(th, servers, ids, dead, n),
         Vouched(list, ids), Buried(list, dead), th = thread[t]
  PROVE ThreadOk(Ask(t, list), servers, ids, dead, n)
<1>1. th \in Thread
  BY DEF ThreadOk
<1>2. Ask(t, list) = [th EXCEPT !.pc = "ask", !.list = list, !.ask = Active(list)]
  BY DEF Ask
<1>3. /\ Ask(t, list) \in Thread /\ Ask(t, list).pc = "ask" /\ Ask(t, list).list = list
      /\ Ask(t, list).ask = Active(list) /\ Ask(t, list).remote = th.remote
      /\ Ask(t, list).rows = th.rows /\ Ask(t, list).gist = th.gist
  <2>1. Active(list) \in SUBSET Servers
    BY DEF Active
  <2>2. QED
    BY <1>1, <1>2, <2>1 DEF Thread
<1>4. QED
  BY <1>3 DEF ThreadOk, Vouched

LEMMA VerifyIsSound ==
  ASSUME Inv, NEW t \in Threads, NEW answer \in Answers, VerifyLogin(t, answer)
  PROVE Inv'
<1> DEFINE m == MachineOf[t]
           list == Entries(config[m].servers)
<1>1. m \in Machines /\ Len(gists) \in Nat /\ Token(m) \in Login /\ Types
  BY ServersAssumption, TokenIsALogin DEF Inv, StateOk, Types
<1>2. requested' \in [Machines -> BOOLEAN]
  BY <1>1 DEF Types, VerifyLogin, Refused
<1>3. /\ config' \in Config(Len(gists)) /\ vault' \in Vault /\ memory' \in Memory
      /\ \A q \in Machines : /\ config'[q].servers = config[q].servers
                             /\ memory'[q].conflicts = memory[q].conflicts
  <2>1. PICK u \in Login, checked \in Login, token \in Login, github \in Login :
          /\ config' = [config EXCEPT ![m].user = u]
          /\ memory' = [memory EXCEPT ![m].checked = checked, ![m].token = token]
          /\ vault' = [vault EXCEPT ![m].github = github]
    <3>1. /\ config[m].user \in Login /\ memory[m].checked \in Login
          /\ memory[m].token \in Login /\ vault[m].github \in Login /\ None \in Login
      BY <1>1 DEF Types, Config, Memory, Vault, Login
    <3>2. CASE answer = "valid"
      BY <1>1, <3>1, <3>2 DEF VerifyLogin
    <3>3. CASE answer = "invalid"
      BY <1>1, <3>1, <3>3 DEF VerifyLogin
    <3>4. CASE answer \notin {"valid", "invalid"}
      BY <1>1, <3>1, <3>4 DEF VerifyLogin
    <3>5. QED
      BY <3>2, <3>3, <3>4
  <2>2. /\ config' \in Config(Len(gists))
        /\ \A q \in Machines : config'[q].servers = config[q].servers
    BY <1>1, <2>1 DEF Types, Config
  <2>3. memory' \in Memory /\ \A q \in Machines : memory'[q].conflicts = memory[q].conflicts
    BY <1>1, <2>1 DEF Types, Memory
  <2>4. vault' \in Vault
    BY <1>1, <2>1 DEF Types, Vault
  <2>5. QED
    BY <2>2, <2>3, <2>4
<1>4. Types' /\ Quiet
  BY <1>1, <1>2, <1>3 DEF Types, Quiet, VerifyLogin, world, ghosts
<1>5. config[m].servers \in List /\ list = Entries(config'[m].servers)
  BY <1>1, <1>4 DEF Types, Config, Quiet
<1>6. list \in List /\ Vouched(list, accepted[m]) /\ Buried(list, removed)
  BY <1>1, <1>5, EntriesKeep DEF Inv, StateOk, MachineOk
<1>7. Holds(t)
  BY DEF Inv, ThreadsOk
<1>8. ASSUME NEW one \in {list} \cup {[Nothing EXCEPT ![s] = list[s]] : s \in Servers \cup {None}}
      PROVE ThreadOk(Ask(t, one), config[m].servers, accepted[m], removed, Len(gists))
  <2>1. one \in [Servers -> Record \cup {None}] /\ \A s \in Servers : one[s] \in {None, list[s]}
    <3>1. CASE one = list
      BY <1>6, <3>1 DEF List
    <3>2. CASE \E s \in Servers \cup {None} : one = [Nothing EXCEPT ![s] = list[s]]
      BY <1>6, <3>2 DEF Nothing, List
    <3>3. QED
      BY <1>8, <3>1, <3>2
  <2>2. one \in List /\ Vouched(one, accepted[m]) /\ Buried(one, removed)
    BY <1>6, <2>1 DEF List, Vouched, Buried
  <2>3. QED
    BY <1>1, <1>5, <1>7, <2>2, AskIsSound DEF Holds
<1>9. thread[t].server \in Servers \cup {None}
  BY <1>7 DEF Holds, ThreadOk, Thread
<1>10. ThreadOk(Verified(t), config[m].servers, accepted[m], removed, Len(gists))
  BY <1>1, <1>5, <1>8, <1>9, IdleIsFresh DEF Verified
<1>11. ThreadOk(Idle, config[m].servers, accepted[m], removed, Len(gists))
  BY <1>1, IdleIsFresh
<1>12. QED
  BY <1>4, <1>10, <1>11, QuietStep DEF VerifyLogin

(* -------------------- a call reads, and waits with it ----------------- *)
\* The list a call reads before it waits is its machine's, so it is sound.
LEMMA ReadIsSound ==
  ASSUME NEW next \in Thread, NEW servers \in List, NEW ids, NEW dead, NEW n \in Nat,
         next.gist \in 0..n, next.pc \notin {"add", "ask"},
         Vouched(next.list, ids), Buried(next.list, dead), Buried(next.remote, dead),
         Active(servers) \subseteq Active(next.list), Own(next.rows)
  PROVE ThreadOk(next, servers, ids, dead, n)
BY DEF ThreadOk, Vouched

LEMMA SyncReadIsSound ==
  ASSUME Inv, NEW t \in Threads, SyncRead(t)
  PROVE Inv'
<1> DEFINE m == MachineOf[t]
           local == config[m].servers
<1>1. m \in Machines /\ Len(gists) \in Nat /\ Types /\ Token(m) \in Login
  BY ServersAssumption, TokenIsALogin DEF Inv, StateOk, Types
<1>2. Types' /\ Quiet
  BY <1>1 DEF Types, Quiet, SyncRead, world, ghosts
<1>3. local \in List /\ Vouched(local, accepted[m]) /\ Buried(local, removed)
  BY <1>1 DEF Inv, StateOk, MachineOk, Types, Config
<1>4. PICK g \in GistsFor(m, Token(m)) :
        Go(t, [thread[t] EXCEPT
          !.pc = "merge", !.token = Token(m), !.list = Recovery(local), !.gist = g,
          !.remote = IF g = 0 THEN Nothing ELSE gists[g].servers])
  BY DEF SyncRead
<1> DEFINE remote == IF g = 0 THEN Nothing ELSE gists[g].servers
           next == [thread[t] EXCEPT !.pc = "merge", !.token = Token(m),
                      !.list = Recovery(local), !.gist = g, !.remote = remote]
<1>5. g \in 0..Len(gists)
  BY <1>1 DEF GistsFor, Types, Config
<1>6. remote \in List /\ Buried(remote, removed)
  <2>1. CASE g = 0
    BY <2>1, NothingIsAList
  <2>2. CASE g \in 1..Len(gists)
    <3>1. gists[g] \in Gist
      <4>1. gists \in Seq(Gist)
        BY <1>1 DEF Types
      <4>2. QED
        BY <2>2, <4>1
    <3>2. remote = gists[g].servers
      BY <1>1, <2>2
    <3>3. QED
      BY <2>2, <3>1, <3>2 DEF Inv, StateOk, GistsOk, Gist
  <2>3. QED
    BY <1>1, <1>5, <2>1, <2>2
<1>7. /\ Recovery(local) \in List /\ Active(Recovery(local)) = Active(local)
      /\ Vouched(Recovery(local), accepted[m]) /\ Buried(Recovery(local), removed)
  BY <1>3, RecoveryKeeps
<1>8. thread[t] \in Thread /\ Own(thread[t].rows)
  BY DEF Inv, ThreadsOk, Holds, ThreadOk
<1>9. /\ next \in Thread /\ next.pc = "merge" /\ next.list = Recovery(local)
      /\ next.remote = remote /\ next.gist = g /\ next.rows = thread[t].rows
  <2>1. "merge" \in {"idle", "verify", "sync", "merge", "reconnect", "exchange", "add", "ask",
                    "logout"} /\ g \in Nat
    BY <1>1, <1>5
  <2> HIDE DEF remote
  <2>2. QED
    BY <1>1, <1>6, <1>7, <1>8, <2>1 DEF Thread
<1> HIDE DEF next, remote
<1>10. ThreadOk(next, local, accepted[m], removed, Len(gists))
  BY <1>1, <1>3, <1>5, <1>6, <1>7, <1>8, <1>9, ReadIsSound
<1>11. Go(t, next)
  BY <1>4 DEF next, remote
<1>12. QED
  BY <1>2, <1>10, <1>11, QuietStep

LEMMA ReconnectReadIsSound ==
  ASSUME Inv, NEW t \in Threads, ReconnectRead(t)
  PROVE Inv'
<1> DEFINE m == MachineOf[t]
           local == config[m].servers
           next == [thread[t] EXCEPT !.pc = "exchange", !.token = Token(m),
                                     !.list = Entries(local)]
<1>1. m \in Machines /\ Len(gists) \in Nat /\ Types /\ Token(m) \in Login
  BY ServersAssumption, TokenIsALogin DEF Inv, StateOk, Types
<1>2. Types' /\ Quiet
  BY <1>1 DEF Types, Quiet, ReconnectRead, world, ghosts
<1>3. local \in List /\ Vouched(local, accepted[m])
  BY <1>1 DEF Inv, StateOk, MachineOk, Types, Config
<1>4. /\ Entries(local) \in List /\ Active(Entries(local)) = Active(local)
      /\ Vouched(Entries(local), accepted[m]) /\ Buried(Entries(local), removed)
  BY <1>3, EntriesKeep
<1>5. /\ thread[t] \in Thread /\ Own(thread[t].rows) /\ Buried(thread[t].remote, removed)
      /\ thread[t].gist \in 0..Len(gists)
  BY DEF Inv, ThreadsOk, Holds, ThreadOk
<1>6. /\ next \in Thread /\ next.pc = "exchange" /\ next.list = Entries(local)
      /\ next.remote = thread[t].remote /\ next.gist = thread[t].gist
      /\ next.rows = thread[t].rows
  BY <1>1, <1>4, <1>5 DEF Thread
<1> HIDE DEF next
<1>7. ThreadOk(next, local, accepted[m], removed, Len(gists))
  BY <1>1, <1>3, <1>4, <1>5, <1>6, ReadIsSound
<1>8. ThreadOk(Idle, local, accepted[m], removed, Len(gists))
  BY <1>1, IdleIsFresh
<1>9. Go(t, Idle) \/ Go(t, next)
  BY DEF ReconnectRead, next
<1>10. QED
  BY <1>2, <1>7, <1>8, <1>9, QuietStep

LEMMA LogoutStartIsSound ==
  ASSUME Inv, NEW t \in Threads, LogoutStart(t)
  PROVE Inv'
<1> DEFINE m == MachineOf[t]
           local == config[m].servers
           next == [Idle EXCEPT !.pc = "logout", !.list = Entries(local)]
<1>1. m \in Machines /\ Len(gists) \in Nat /\ Types /\ None \in Login
  BY ServersAssumption DEF Inv, StateOk, Types, Login
<1>2. config' \in Config(Len(gists)) /\ \A q \in Machines : config'[q].servers = config[q].servers
  BY <1>1 DEF Types, Config, LogoutStart
<1>3. memory' \in Memory /\ \A q \in Machines : memory'[q].conflicts = memory[q].conflicts
  BY <1>1 DEF Types, Memory, LogoutStart
<1>4. Go(t, next) /\ calls' = calls + 1
  BY DEF LogoutStart, Start
<1>5. Types' /\ Quiet
  <2>1. UNCHANGED <<vault, catalog, rows, requested, gists, now, removed, wanted, accepted>>
    BY DEF LogoutStart, world, ghosts
  <2>2. QED
    BY <1>1, <1>2, <1>3, <1>4, <2>1 DEF Types, Quiet
<1>6. local \in List /\ Vouched(local, accepted[m])
  BY <1>1 DEF Inv, StateOk, MachineOk, Types, Config
<1>7. /\ Entries(local) \in List /\ Active(Entries(local)) = Active(local)
      /\ Vouched(Entries(local), accepted[m]) /\ Buried(Entries(local), removed)
  BY <1>6, EntriesKeep
<1>8. Idle \in Thread /\ Idle.remote = Nothing /\ Idle.rows = Nothing /\ Idle.gist = 0
  BY <1>1, IdleIsFresh DEF Idle
<1>9. /\ next \in Thread /\ next.pc = "logout" /\ next.list = Entries(local)
      /\ next.remote = Nothing /\ next.gist = 0 /\ next.rows = Nothing
  BY <1>7, <1>8 DEF Thread
<1> HIDE DEF next
<1>10. ThreadOk(next, local, accepted[m], removed, Len(gists))
  BY <1>1, <1>6, <1>7, <1>9, NothingIsAList, ReadIsSound
<1>11. QED
  BY <1>4, <1>5, <1>10, QuietStep

LEMMA AddStartIsSound ==
  ASSUME Inv, NEW t \in Threads, NEW s \in Servers, AddStart(t, s)
  PROVE Inv'
<1> DEFINE m == MachineOf[t]
           local == config[m].servers
           list == [Entries(local) EXCEPT ![s] = Entry(Key[s], 0)]
           next == [Idle EXCEPT !.pc = "add", !.server = s, !.list = list]
<1>1. m \in Machines /\ Len(gists) \in Nat /\ Types
  BY ServersAssumption DEF Inv, StateOk, Types
<1>2. Go(t, next) /\ calls' = calls + 1
  BY DEF AddStart, Start
<1>3. Types' /\ Quiet
  BY <1>1, <1>2 DEF Types, Quiet, AddStart, world, ghosts
<1>4. local \in List /\ Vouched(local, accepted[m])
  BY <1>1 DEF Inv, StateOk, MachineOk, Types, Config
<1>5. /\ Entries(local) \in List /\ Active(Entries(local)) = Active(local)
      /\ Vouched(Entries(local), accepted[m]) /\ Buried(Entries(local), removed)
  BY <1>4, EntriesKeep
<1>6. Entry(Key[s], 0) \in Record /\ ~Entry(Key[s], 0).deleted /\ Entry(Key[s], 0) # None
  BY ServersAssumption, EntryIsARecord
<1>7. /\ list \in List /\ list[s] = Entry(Key[s], 0)
      /\ \A q \in Servers : q # s => list[q] = Entries(local)[q]
  BY <1>5, <1>6 DEF List
<1> HIDE DEF list
<1>8. Idle \in Thread /\ Idle.remote = Nothing /\ Idle.rows = Nothing /\ Idle.gist = 0
  BY <1>1, IdleIsFresh DEF Idle
<1>9. /\ next \in Thread /\ next.pc = "add" /\ next.list = list /\ next.server = s
      /\ next.remote = Nothing /\ next.gist = 0 /\ next.rows = Nothing
  BY <1>7, <1>8 DEF Thread
<1> HIDE DEF next
<1>10. ThreadOk(next, local, accepted[m], removed, Len(gists))
  <2>1. Active(local) \subseteq Active(list)
    BY <1>5, <1>6, <1>7 DEF Active
  <2>2. Buried(list, removed)
    BY <1>5, <1>6, <1>7 DEF Buried
  <2>3. \A q \in Servers : q # s /\ list[q] # None => <<q, list[q].ident>> \in accepted[m]
    BY <1>5, <1>7 DEF Vouched
  <2>4. QED
    BY <1>1, <1>6, <1>7, <1>9, <2>1, <2>2, <2>3, NothingIsAList DEF ThreadOk
<1>11. QED
  BY <1>2, <1>3, <1>10, QuietStep

LEMMA AddFailIsSound ==
  ASSUME Inv, NEW t \in Threads, NEW rejected \in BOOLEAN, AddFail(t, rejected)
  PROVE Inv'
<1> DEFINE m == MachineOf[t]
<1>1. m \in Machines /\ Len(gists) \in Nat /\ Types /\ None \in Login
  BY ServersAssumption DEF Inv, StateOk, Types, Login
<1>2. config' \in Config(Len(gists)) /\ \A q \in Machines : config'[q].servers = config[q].servers
  BY <1>1 DEF Types, Config, AddFail
<1>3. memory' \in Memory /\ \A q \in Machines : memory'[q].conflicts = memory[q].conflicts
  BY <1>1 DEF Types, Memory, AddFail
<1>4. vault' \in Vault
  BY <1>1 DEF Types, Vault, AddFail
<1>5. Types' /\ Quiet
  BY <1>1, <1>2, <1>3, <1>4 DEF Types, Quiet, AddFail, world, ghosts
<1>6. QED
  BY <1>1, <1>5, QuietStep, IdleIsFresh DEF AddFail

(* ------------------------ a call writes and is done ------------------- *)
\* A step that changes the lists of one machine, or the Gist.
OnlyAt(m) ==
  \A q \in Machines : q # m =>
    /\ config'[q].servers = config[q].servers /\ memory'[q].conflicts = memory[q].conflicts
    /\ rows'[q] = rows[q] /\ accepted'[q] = accepted[q]
LEMMA ChangeIsSound ==
  ASSUME Inv, NEW t \in Threads, NEW next, Go(t, next), OnlyAt(MachineOf[t]), Types',
         accepted[MachineOf[t]] \subseteq accepted'[MachineOf[t]],
         removed \subseteq removed', Len(gists) <= Len(gists)',
         MachineOk(MachineOf[t])', GistsOk',
         ThreadOk(next, config[MachineOf[t]].servers', accepted[MachineOf[t]]', removed',
                  Len(gists)')
  PROVE Inv'
<1>1. ASSUME NEW q \in Machines, q # MachineOf[t] PROVE MachineOk(q)'
  <2>1. MachineOk(q)
    BY DEF Inv, StateOk
  <2>2. QED
    BY <1>1, <2>1 DEF OnlyAt, MachineOk, Buried
<1>2. \A q \in Machines : MachineOk(q)'
  BY <1>1
<1>3. StateOk'
  BY <1>2 DEF StateOk
<1>4. \A q \in Machines : accepted[q] \subseteq accepted'[q]
  BY DEF OnlyAt
<1>5. QED
  BY <1>3, <1>4, OthersStaySound DEF OnlyAt

\* A step in which the Gists, the removals and the identities stay as they are.
LEMMA ListIsSound ==
  ASSUME Inv, NEW t \in Threads, NEW next \in {Idle, [Idle EXCEPT !.pc = "sync"]},
         Go(t, next), OnlyAt(MachineOf[t]), Types',
         accepted[MachineOf[t]] \subseteq accepted'[MachineOf[t]],
         removed \subseteq removed', UNCHANGED gists, MachineOk(MachineOf[t])'
  PROVE Inv'
<1>1. Len(gists) \in Nat /\ Len(gists)' = Len(gists)
  BY DEF Inv, StateOk, Types
<1>2. GistsOk'
  BY DEF Inv, StateOk, GistsOk, Buried
<1>3. ThreadOk(next, config[MachineOf[t]].servers', accepted[MachineOf[t]]', removed',
               Len(gists)')
  BY <1>1, NextIsFresh
<1>4. Len(gists) <= Len(gists)'
  BY <1>1
<1>5. QED
  BY <1>2, <1>3, <1>4, ChangeIsSound

\* The Gist takes the merged list: its tombstones are of removed servers too.
LEMMA GistIsWritten ==
  ASSUME Inv, NEW t \in Threads, At(t, "merge"), Written(t), UNCHANGED removed
  PROVE /\ gists' \in Seq(Gist) /\ GistsOk' /\ Len(gists) <= Len(gists)'
        /\ thread[t].gist \in 0..Len(gists)'
<1> DEFINE list == Merged(thread[t].list, thread[t].remote)
           user == thread[t].token
<1>1. gists \in Seq(Gist) /\ Len(gists) \in Nat /\ thread[t] \in Thread /\ Holds(t)
  BY DEF Inv, StateOk, Types, ThreadsOk
<1>2. /\ thread[t].list \in List /\ thread[t].remote \in List /\ user \in Login
      /\ thread[t].gist \in 0..Len(gists)
      /\ Buried(thread[t].list, removed) /\ Buried(thread[t].remote, removed)
  BY <1>1 DEF Thread, Holds, ThreadOk
<1>3. list \in List /\ Buried(list, removed)
  BY <1>2, MergedKeeps DEF Buried
<1> HIDE DEF list, user
<1>4. CASE thread[t].gist = 0
  <2> DEFINE new == [owner |-> user, servers |-> list]
  <2>1. gists' = Append(gists, new) /\ new \in Gist /\ new.servers = list
    BY <1>2, <1>3, <1>4 DEF Written, Gist, list, user
  <2> HIDE DEF new
  <2>2. /\ gists' \in Seq(Gist) /\ Len(gists') = Len(gists) + 1
        /\ \A g \in 1..Len(gists') : gists'[g] = IF g <= Len(gists) THEN gists[g] ELSE new
    BY <1>1, <2>1
  <2>3. ASSUME NEW g \in 1..Len(gists') PROVE Buried(gists'[g].servers, removed')
    BY <1>1, <1>3, <2>1, <2>2 DEF Inv, StateOk, GistsOk
  <2>4. QED
    BY <1>1, <1>4, <2>2, <2>3 DEF GistsOk
<1>5. CASE thread[t].gist \in 1..Len(gists)
  <2>1. gists' = [gists EXCEPT ![thread[t].gist].servers = list]
    BY <1>1, <1>5 DEF Written, list
  <2>2. gists[thread[t].gist] \in Gist
    BY <1>1, <1>5
  <2>3. [gists[thread[t].gist] EXCEPT !.servers = list] \in Gist
    BY <1>3, <2>2 DEF Gist
  <2>4. /\ gists' \in Seq(Gist) /\ Len(gists') = Len(gists)
        /\ \A g \in 1..Len(gists) : g # thread[t].gist => gists'[g] = gists[g]
        /\ gists'[thread[t].gist] = [gists[thread[t].gist] EXCEPT !.servers = list]
    BY <1>1, <1>5, <2>1, <2>3
  <2>5. gists'[thread[t].gist].servers = list
    BY <2>2, <2>4 DEF Gist
  <2>6. ASSUME NEW g \in 1..Len(gists) PROVE Buried(gists'[g].servers, removed')
    BY <1>3, <2>4, <2>5 DEF Inv, StateOk, GistsOk
  <2>7. QED
    BY <1>1, <1>5, <2>4, <2>6 DEF GistsOk
<1>6. QED
  BY <1>1, <1>2, <1>4, <1>5

\* SyncSave and SyncFail both go on with a fresh call or end.
LEMMA AfterSyncIsFresh ==
  ASSUME NEW t \in Threads
  PROVE AfterSync(t) \in {Idle, [Idle EXCEPT !.pc = "reconnect"]}
BY DEF AfterSync

LEMMA SyncSaveIsSound ==
  ASSUME Inv, NEW t \in Threads, SyncSave(t)
  PROVE Inv'
<1> DEFINE m == MachineOf[t]
           local == thread[t].list
           remote == thread[t].remote
           list == Merged(local, remote)
           new == {<<s, remote[s].ident>> : s \in {q \in Servers : local[q] = None /\ remote[q] # None}}
           aside == [s \in Servers |-> IF Conflicting(local, remote, s) THEN remote[s] ELSE None]
<1>1. m \in Machines /\ Types /\ Len(gists) \in Nat /\ Holds(t)
  BY ServersAssumption DEF Inv, StateOk, Types, ThreadsOk
<1>2. At(t, "merge") /\ Written(t) /\ UNCHANGED removed
  BY DEF SyncSave
<1>3. /\ gists' \in Seq(Gist) /\ GistsOk' /\ Len(gists) <= Len(gists)'
      /\ thread[t].gist \in 0..Len(gists)' /\ Len(gists)' \in Nat
  BY <1>2, GistIsWritten
<1>4. /\ local \in List /\ remote \in List
      /\ Buried(local, removed) /\ Buried(remote, removed) /\ Vouched(local, accepted[m])
  BY <1>1, <1>2 DEF Holds, ThreadOk, Thread, At, Vouched
<1>5. \A s \in Servers : remote[s] # None => remote[s].ident \in Nat
  BY <1>4 DEF List, Record
<1>6. list \in List /\ Buried(list, removed) /\ Vouched(list, accepted[m] \cup new)
  <2>1. \A s \in Servers : /\ list[s] \in {local[s], remote[s]}
                          /\ local[s] # None => list[s].ident = local[s].ident
    BY <1>4, MergedKeeps
  <2>2. QED
    BY <1>4, <2>1, MergedKeeps DEF Buried, Vouched
<1>7. aside \in List /\ Buried(aside, removed)
  BY <1>4 DEF List, Buried
<1> HIDE DEF list, aside, local, remote
<1> DEFINE n == IF thread[t].gist = 0 THEN Len(gists') ELSE thread[t].gist
<1>8. n \in 0..Len(gists)' /\ config' = [config EXCEPT ![m].servers = list, ![m].gist = n]
  BY <1>3 DEF SyncSave, list, local, remote
<1> HIDE DEF n
<1>9. /\ config' \in Config(Len(gists)') /\ config'[m].servers = list
      /\ \A q \in Machines : q # m => config'[q].servers = config[q].servers
  <2>1. 0..Len(gists) \subseteq 0..Len(gists)'
    BY <1>1, <1>3
  <2>2. QED
    BY <1>1, <1>6, <1>8, <2>1 DEF Types, Config
<1>10. /\ memory' \in Memory /\ memory'[m].conflicts = aside
       /\ \A q \in Machines : q # m => memory'[q].conflicts = memory[q].conflicts
  <2>1. memory' = [memory EXCEPT ![m].conflicts = aside]
    BY DEF SyncSave, aside, local, remote
  <2>2. QED
    BY <1>1, <1>7, <2>1 DEF Types, Memory
<1>11. /\ accepted' \in [Machines -> SUBSET (Servers \X Nat)]
       /\ accepted'[m] = accepted[m] \cup new
       /\ \A q \in Machines : q # m => accepted'[q] = accepted[q]
  <2>1. accepted' = [accepted EXCEPT ![m] = @ \cup new]
    BY DEF SyncSave, local, remote
  <2>2. new \subseteq Servers \X Nat
    BY <1>5
  <2> HIDE DEF new
  <2>3. QED
    BY <1>1, <2>1, <2>2 DEF Types
<1> HIDE DEF new
<1>12. UNCHANGED <<vault, catalog, rows, requested, now, calls, removed, wanted>>
  BY DEF SyncSave
<1>13. Types'
  BY <1>1, <1>3, <1>9, <1>10, <1>11, <1>12 DEF Types
<1>14. OnlyAt(m)
  BY <1>9, <1>10, <1>11, <1>12 DEF OnlyAt
<1>15. MachineOk(m)'
  <2>1. Own(rows[m])
    BY <1>1 DEF Inv, StateOk, MachineOk
  <2>2. QED
    BY <1>6, <1>7, <1>9, <1>10, <1>11, <1>12, <2>1 DEF MachineOk
<1>16. ThreadOk(AfterSync(t), config[m].servers', accepted[m]', removed', Len(gists)')
  BY <1>3, AfterSyncIsFresh, NextIsFresh
<1>17. Go(t, AfterSync(t)) /\ accepted[m] \subseteq accepted'[m] /\ removed \subseteq removed'
  BY <1>11, <1>12 DEF SyncSave
<1>18. QED
  BY <1>3, <1>13, <1>14, <1>15, <1>16, <1>17, ChangeIsSound

LEMMA SyncFailIsSound ==
  ASSUME Inv, NEW t \in Threads, SyncFail(t)
  PROVE Inv'
<1>1. MachineOf[t] \in Machines /\ Types /\ Len(gists) \in Nat
  BY ServersAssumption DEF Inv, StateOk, Types
<1>2. UNCHANGED <<config, vault, memory, catalog, rows, requested, now, calls, removed,
                  wanted, accepted>> /\ Go(t, AfterSync(t))
  BY DEF SyncFail, ghosts
<1>3. gists' \in Seq(Gist) /\ GistsOk' /\ Len(gists) <= Len(gists)' /\ Len(gists)' \in Nat
  <2>1. CASE UNCHANGED gists
    BY <1>1, <1>2, <2>1 DEF Inv, StateOk, GistsOk, Types
  <2>2. CASE At(t, "merge") /\ Written(t)
    BY <1>2, <2>2, GistIsWritten
  <2>3. QED
    BY <2>1, <2>2 DEF SyncFail
<1>4. config' \in Config(Len(gists)')
  <2>1. 0..Len(gists) \subseteq 0..Len(gists)'
    BY <1>1, <1>3
  <2>2. QED
    BY <1>1, <1>2, <2>1 DEF Types, Config
<1>5. Types' /\ OnlyAt(MachineOf[t])
  BY <1>1, <1>2, <1>3, <1>4 DEF Types, OnlyAt
<1>6. MachineOk(MachineOf[t])'
  BY <1>1, <1>2 DEF Inv, StateOk, MachineOk
<1>7. ThreadOk(AfterSync(t), config[MachineOf[t]].servers', accepted[MachineOf[t]]',
               removed', Len(gists)')
  BY <1>3, AfterSyncIsFresh, NextIsFresh
<1>8. QED
  BY <1>2, <1>3, <1>5, <1>6, <1>7, ChangeIsSound

\* The entries the page chose come from what the last sync put aside.
LEMMA ResolveIsSound ==
  ASSUME Inv, NEW t \in Threads, NEW chosen \in SUBSET Servers, Resolve(t, chosen)
  PROVE Inv'
<1> DEFINE m == MachineOf[t]
           aside == memory[m].conflicts
           local == Entries(config[m].servers)
           list == [s \in Servers |-> IF s \in chosen /\ aside[s] # None THEN aside[s] ELSE local[s]]
           new == {<<s, aside[s].ident>> : s \in {q \in chosen : aside[q] # None}}
<1>1. m \in Machines /\ Types /\ Len(gists) \in Nat
  BY ServersAssumption DEF Inv, StateOk, Types
<1>2. aside \in List /\ Buried(aside, removed)
  BY <1>1 DEF Types, Memory, Inv, StateOk, MachineOk
<1>3. /\ local \in List /\ Vouched(local, accepted[m]) /\ Buried(local, removed)
  <2>1. config[m].servers \in List /\ Vouched(config[m].servers, accepted[m])
    BY <1>1 DEF Types, Config, Inv, StateOk, MachineOk
  <2>2. QED
    BY <2>1, EntriesKeep
<1> HIDE DEF aside, local
<1>4. list \in List /\ Buried(list, removed) /\ Vouched(list, accepted[m] \cup new)
  BY <1>2, <1>3 DEF List, Buried, Vouched
<1>5. new \subseteq Servers \X Nat
  BY <1>2 DEF List, Record
<1>6. /\ config' = [config EXCEPT ![m].servers = list]
      /\ accepted' = [accepted EXCEPT ![m] = @ \cup new]
      /\ wanted' = (wanted \ chosen) \cup {s \in chosen : s \in Active(list)}
      /\ UNCHANGED <<vault, memory, catalog, rows, requested, gists, now, removed>>
      /\ calls' = calls + 1 /\ Go(t, [Idle EXCEPT !.pc = "sync"])
  BY DEF Resolve, SetServers, Start, aside, local, world
<1> HIDE DEF list, new
<1>7. /\ config' \in Config(Len(gists)) /\ config'[m].servers = list
      /\ \A q \in Machines : q # m => config'[q].servers = config[q].servers
  BY <1>1, <1>4, <1>6 DEF Types, Config
<1>8. /\ accepted' \in [Machines -> SUBSET (Servers \X Nat)]
      /\ accepted'[m] = accepted[m] \cup new
      /\ \A q \in Machines : q # m => accepted'[q] = accepted[q]
  BY <1>1, <1>5, <1>6 DEF Types
<1>9. wanted' \subseteq Servers
  BY <1>1, <1>6 DEF Types
<1>10. Types'
  BY <1>1, <1>6, <1>7, <1>8, <1>9 DEF Types
<1>11. OnlyAt(m)
  BY <1>6, <1>7, <1>8 DEF OnlyAt
<1>12. MachineOk(m)'
  <2>1. MachineOk(m)
    BY <1>1 DEF Inv, StateOk
  <2>2. QED
    BY <1>4, <1>6, <1>7, <1>8, <2>1 DEF MachineOk
<1>13. accepted[m] \subseteq accepted'[m] /\ removed \subseteq removed'
  BY <1>6, <1>8
<1>14. QED
  BY <1>6, <1>10, <1>11, <1>12, <1>13, ListIsSound

\* The list a call held while it waited is written back.
LEMMA WrittenBack ==
  ASSUME Inv, NEW t \in Threads, thread[t].pc \in {"exchange", "logout"},
         config' = [config EXCEPT ![MachineOf[t]].servers = thread[t].list],
         vault' \in Vault, Go(t, Idle),
         UNCHANGED <<memory, catalog, rows, requested, gists, now, calls, removed, wanted, accepted>>
  PROVE Inv'
<1> DEFINE m == MachineOf[t]
<1>1. m \in Machines /\ Types /\ Len(gists) \in Nat /\ Holds(t)
  BY ServersAssumption DEF Inv, StateOk, Types, ThreadsOk
<1>2. /\ thread[t].list \in List /\ Buried(thread[t].list, removed)
      /\ Vouched(thread[t].list, accepted[m])
  BY <1>1 DEF Holds, ThreadOk, Thread, Vouched
<1>3. /\ config' \in Config(Len(gists)) /\ config'[m].servers = thread[t].list
      /\ \A q \in Machines : q # m => config'[q].servers = config[q].servers
  BY <1>1, <1>2 DEF Types, Config
<1>4. Types' /\ OnlyAt(m)
  BY <1>1, <1>3 DEF Types, OnlyAt
<1>5. MachineOk(m)'
  <2>1. MachineOk(m)
    BY <1>1 DEF Inv, StateOk
  <2>2. QED
    BY <1>2, <1>3, <2>1 DEF MachineOk
<1>6. QED
  BY <1>4, <1>5, ListIsSound

LEMMA ReconnectSaveIsSound ==
  ASSUME Inv, NEW t \in Threads, NEW connected, ReconnectSave(t, connected)
  PROVE Inv'
<1>1. MachineOf[t] \in Machines /\ Types /\ thread[t] \in Thread
  BY ServersAssumption DEF Inv, StateOk, ThreadsOk
<1>2. thread[t].token \in Login
  BY <1>1 DEF Thread
<1>3. vault' \in Vault
  BY <1>1, <1>2 DEF ReconnectSave, Types, Vault
<1>4. QED
  BY <1>3, WrittenBack DEF ReconnectSave, At, SetServers, world, ghosts

LEMMA LogoutSaveIsSound ==
  ASSUME Inv, NEW t \in Threads, LogoutSave(t)
  PROVE Inv'
<1>1. MachineOf[t] \in Machines /\ Types /\ None \in Login
  BY ServersAssumption DEF Inv, StateOk, Login
<1>2. vault' \in Vault
  BY <1>1 DEF LogoutSave, Types, Vault
<1>3. QED
  BY <1>2, WrittenBack DEF LogoutSave, At, SetServers, world, ghosts

\* The new server's identity is accepted as its list is saved.
LEMMA AddSaveIsSound ==
  ASSUME Inv, NEW t \in Threads, AddSave(t)
  PROVE Inv'
<1> DEFINE m == MachineOf[t]
           s == thread[t].server
           token == Token(m)
           list == thread[t].list
           new == {<<s, list[s].ident>>}
           next == IF token # None THEN [Idle EXCEPT !.pc = "sync"] ELSE Idle
<1>1. m \in Machines /\ Types /\ Len(gists) \in Nat /\ Holds(t) /\ token \in Login
  BY ServersAssumption, TokenIsALogin DEF Inv, StateOk, Types, ThreadsOk
<1>2. s \in Servers /\ list \in List /\ list[s] # None /\ Buried(list, removed)
  BY <1>1 DEF AddSave, At, Holds, ThreadOk, Thread
<1>3. Vouched(list, accepted[m] \cup new)
  BY <1>1 DEF Holds, ThreadOk, Vouched
<1>4. new \subseteq Servers \X Nat
  BY <1>2 DEF List, Record
<1>5. /\ config' = [config EXCEPT ![m].servers = list, ![m].user = IF token # None THEN token ELSE @]
      /\ vault' = [vault EXCEPT ![m].session[s] = IF token # None THEN token ELSE @]
      /\ requested' = [requested EXCEPT ![m] = TRUE]
      /\ wanted' = wanted \cup {s}
      /\ accepted' = [accepted EXCEPT ![m] = @ \cup new]
      /\ UNCHANGED <<memory, catalog, rows, gists, now, calls, removed>>
      /\ Go(t, next)
  BY DEF AddSave, Request, world
<1> HIDE DEF list, new, token
<1>6. /\ config' \in Config(Len(gists)) /\ config'[m].servers = list
      /\ \A q \in Machines : q # m => config'[q].servers = config[q].servers
  BY <1>1, <1>2, <1>5 DEF Types, Config
<1>7. vault' \in Vault
  BY <1>1, <1>2, <1>5 DEF Types, Vault
<1>8. /\ accepted' \in [Machines -> SUBSET (Servers \X Nat)]
      /\ accepted'[m] = accepted[m] \cup new
      /\ \A q \in Machines : q # m => accepted'[q] = accepted[q]
  BY <1>1, <1>4, <1>5 DEF Types
<1>9. Types'
  BY <1>1, <1>2, <1>5, <1>6, <1>7, <1>8 DEF Types
<1>10. OnlyAt(m)
  BY <1>5, <1>6, <1>8 DEF OnlyAt
<1>11. MachineOk(m)'
  <2>1. MachineOk(m)
    BY <1>1 DEF Inv, StateOk
  <2>2. QED
    BY <1>2, <1>3, <1>5, <1>6, <1>8, <2>1 DEF MachineOk
<1>12. next \in {Idle, [Idle EXCEPT !.pc = "sync"]}
  OBVIOUS
<1> HIDE DEF next
<1>13. accepted[m] \subseteq accepted'[m] /\ removed \subseteq removed'
  BY <1>5, <1>8
<1>14. QED
  BY <1>5, <1>9, <1>10, <1>11, <1>12, <1>13, ListIsSound

\* The entry becomes a tombstone, with the identity it had; the others stay.
Tombstone(entry, at) == [entry EXCEPT !.deleted = TRUE, !.at = at]
LEMMA TombstoneIsARecord ==
  ASSUME NEW entry \in Record, NEW at \in Nat
  PROVE Tombstone(entry, at) \in Record /\ Tombstone(entry, at).ident = entry.ident
BY DEF Tombstone, Record
Removal(f, m, s, at) == [f EXCEPT ![m].servers[s].deleted = TRUE, ![m].servers[s].at = at]
LEMMA TombstoneIsSet ==
  ASSUME NEW n \in Nat, NEW f \in Config(n), NEW m \in Machines, NEW s \in Servers,
         NEW at \in Nat, f[m].servers[s] \in Record
  PROVE /\ Removal(f, m, s, at) \in Config(n)
        /\ Removal(f, m, s, at)[m].servers[s] = Tombstone(f[m].servers[s], at)
        /\ \A q \in Servers : q # s => Removal(f, m, s, at)[m].servers[q] = f[m].servers[q]
        /\ \A q \in Machines : q # m => Removal(f, m, s, at)[q] = f[q]
<1> DEFINE list == [f[m].servers EXCEPT ![s] = Tombstone(@, at)]
           g == Removal(f, m, s, at)
<1>1. f[m].servers \in List /\ f[m] \in [servers : List, user : Login, gist : 0..n]
  BY DEF Config
<1>2. list \in List
  BY <1>1, TombstoneIsARecord DEF List
<1>3. g[m] = [f[m] EXCEPT !.servers = [[f[m].servers EXCEPT ![s].deleted = TRUE]
                                        EXCEPT ![s].at = at]]
  BY DEF Config, Removal
<1>4. [[f[m].servers EXCEPT ![s].deleted = TRUE] EXCEPT ![s].at = at] = list
  BY <1>1 DEF List, Record, Tombstone
<1>5. g[m] = [f[m] EXCEPT !.servers = list]
  BY <1>3, <1>4
<1>6. \A q \in Machines : q # m => g[q] = f[q]
  BY DEF Config, Removal
<1> HIDE DEF list
<1>7. g[m] \in [servers : List, user : Login, gist : 0..n] /\ g[m].servers = list
  BY <1>1, <1>2, <1>5
<1>8. g \in Config(n)
  BY <1>6, <1>7 DEF Config, Removal
<1>9. QED
  BY <1>1, <1>6, <1>7, <1>8 DEF list, List

LEMMA RemoveIsSound ==
  ASSUME Inv, NEW t \in Threads, NEW s \in Servers, Remove(t, s)
  PROVE Inv'
<1> DEFINE m == MachineOf[t]
           local == config[m].servers
           list == config'[m].servers
<1>1. m \in Machines /\ Types /\ Len(gists) \in Nat /\ now \in Nat
  BY ServersAssumption DEF Inv, StateOk, Types
<1>2. /\ s \in Active(local) /\ now' = now + 1
      /\ config' = [config EXCEPT ![m].servers[s].deleted = TRUE, ![m].servers[s].at = now']
      /\ vault' = [vault EXCEPT ![m].session[s] = None]
      /\ catalog' = [catalog EXCEPT ![m][s] = None]
      /\ (IF Token(m) = None THEN Request(m) ELSE UNCHANGED requested)
      /\ removed' = removed \cup {s} /\ wanted' = wanted \ {s}
      /\ UNCHANGED <<memory, rows, gists, accepted>>
      /\ calls' = calls + 1 /\ Go(t, Idle)
  BY DEF Remove, Start
<1>3. /\ local \in List /\ Vouched(local, accepted[m]) /\ Buried(local, removed)
  BY <1>1 DEF Types, Config, Inv, StateOk, MachineOk
<1>4. local[s] \in Record /\ local[s] # None
  BY <1>2, <1>3 DEF List, Active
<1>5. config' = Removal(config, m, s, now + 1)
  BY <1>2 DEF Removal
<1>6. /\ config' \in Config(Len(gists)) /\ list[s] = Tombstone(local[s], now + 1)
      /\ \A q \in Servers : q # s => list[q] = local[q]
      /\ \A q \in Machines : q # m => config'[q].servers = config[q].servers
  BY <1>1, <1>4, <1>5, TombstoneIsSet DEF Types
<1>7. list[s].ident = local[s].ident
  <2>1. now + 1 \in Nat
    BY <1>1
  <2>2. Tombstone(local[s], now + 1).ident = local[s].ident
    BY <1>4, <2>1, TombstoneIsARecord
  <2>3. QED
    BY <1>6, <2>2
<1> HIDE DEF list
<1>8. Vouched(list, accepted[m]) /\ Buried(list, removed')
  BY <1>2, <1>3, <1>4, <1>6, <1>7 DEF Vouched, Buried
<1>9. vault' \in Vault
  BY <1>1, <1>2 DEF Types, Vault, Login
<1>10. catalog' \in [Machines -> Kept]
  BY <1>1, <1>2 DEF Types, Kept
<1>11. requested' \in [Machines -> BOOLEAN]
  BY <1>1, <1>2 DEF Types, Request
<1>12. Types'
  BY <1>1, <1>2, <1>6, <1>9, <1>10, <1>11 DEF Types
<1>13. OnlyAt(m)
  BY <1>2, <1>6 DEF OnlyAt
<1>14. MachineOk(m)'
  <2>1. MachineOk(m)
    BY <1>1 DEF Inv, StateOk
  <2>2. QED
    BY <1>2, <1>8, <2>1 DEF MachineOk, Buried, list
<1>15. QED
  BY <1>2, <1>12, <1>13, <1>14, ListIsSound

(* ----------------------- what the servers answer ---------------------- *)
\* The identity a server has after it answered, and who it was asked for.
LEMMA RotatedIsARecord ==
  ASSUME NEW entry \in Record, NEW s \in Servers, now \in Nat
  PROVE Rotated(entry, s) \in Record /\ Rotated(entry, s).deleted = entry.deleted
<1>1. Key[s] \in Nat
  BY ServersAssumption
<1>2. QED
  BY <1>1 DEF Rotated, Record
LEMMA IdentityIsWho ==
  ASSUME Types, NEW m \in Machines, NEW s \in Servers
  PROVE Identity(m, s) \in Who
BY DEF Types, Config, Identity, Who, Login
\* A row's catalogue was kept for whom the row is read, under its identity.
LEMMA RowIsOwn ==
  ASSUME Types, NEW m \in Machines, NEW s \in Servers, NEW entry \in Record,
         NEW answer \in ServerAnswers \cup {"unasked"}
  PROVE /\ RowOf(m, s, entry, answer) \in Row
        /\ RowOf(m, s, entry, answer).cached # None =>
             /\ RowOf(m, s, entry, answer).cached.who = RowOf(m, s, entry, answer).who
             /\ RowOf(m, s, entry, answer).cached.ident = RowOf(m, s, entry, answer).ident
<1>1. catalog[m][s] \in [who : Who, ident : Nat] \cup {None}
  BY DEF Types, Kept
<1>2. Cached(m, s, entry) \in [who : Who, ident : Nat] \cup {None}
  BY <1>1 DEF Cached
<1>3. entry.ident \in Nat /\ Identity(m, s) \in Who
  BY IdentityIsWho DEF Record
<1>4. Cached(m, s, entry) # None =>
        Cached(m, s, entry).who = Identity(m, s) /\ Cached(m, s, entry).ident = entry.ident
  BY DEF Cached
<1> DEFINE cached == IF answer \in {"offline", "reauth_required"} THEN Cached(m, s, entry) ELSE None
<1>5. /\ cached \in [who : Who, ident : Nat] \cup {None}
      /\ cached # None => cached.who = Identity(m, s) /\ cached.ident = entry.ident
  BY <1>2, <1>4
<1>6. RowOf(m, s, entry, answer) = [status |-> answer, who |-> Identity(m, s),
                                   ident |-> entry.ident, cached |-> cached]
  BY DEF RowOf
<1> HIDE DEF cached
<1>7. QED
  BY <1>3, <1>5, <1>6 DEF Row

LEMMA AskServerIsSound ==
  ASSUME Inv, NEW t \in Threads, NEW s \in Servers, NEW answer \in ServerAnswers,
         AskServer(t, s, answer)
  PROVE Inv'
<1> DEFINE m == MachineOf[t]
           th == thread[t]
           goal == th.goal
           entry == th.list[s]
           known == IF answer = "offline" THEN entry ELSE Rotated(entry, s)
           local == config[m].servers
           list == IF known = entry THEN local ELSE Replaced(local, s, known)
           ids == IF known = entry THEN accepted[m] ELSE accepted[m] \cup {<<s, known.ident>>}
           row == RowOf(m, s, known, IF Identity(m, s) = None THEN "unasked" ELSE answer)
           next == IF goal # "read" THEN Idle
                   ELSE [th EXCEPT !.ask = @ \ {s}, !.rows[s] = row]
<1>1. m \in Machines /\ Types /\ Len(gists) \in Nat /\ Holds(t) /\ now \in Nat /\ th \in Thread
  BY ServersAssumption DEF Inv, StateOk, Types, ThreadsOk
<1>2. th.pc = "ask" /\ s \in th.ask
  BY DEF AskServer, At
<1>3. entry \in Record /\ entry # None /\ ~entry.deleted
  BY <1>1, <1>2 DEF Holds, ThreadOk, Thread, List, Active
<1>4. known \in Record /\ ~known.deleted
  BY <1>1, <1>3, RotatedIsARecord
<1>5. local \in List /\ Vouched(local, accepted[m]) /\ Buried(local, removed)
  BY <1>1 DEF Types, Config, Inv, StateOk, MachineOk
<1> HIDE DEF known
<1>6. /\ list \in List /\ Vouched(list, ids) /\ Buried(list, removed)
  <2>1. CASE known = entry
    BY <1>5, <2>1
  <2>2. CASE known # entry
    BY <1>4, <1>5, <2>2 DEF Replaced, List, Vouched, Buried
  <2>3. QED
    BY <2>1, <2>2
<1>7. ids \subseteq Servers \X Nat /\ accepted[m] \subseteq ids
  <2>1. accepted[m] \subseteq Servers \X Nat /\ known.ident \in Nat
    BY <1>1, <1>4 DEF Types, Record
  <2>2. QED
    BY <2>1
<1>8. Identity(m, s) \in Who /\ known.ident \in Nat
  BY <1>1, <1>4, IdentityIsWho DEF Record
<1>9. row \in Row /\ (row.cached # None => row.cached.who = row.who /\ row.cached.ident = row.ident)
  <2>1. (IF Identity(m, s) = None THEN "unasked" ELSE answer) \in ServerAnswers \cup {"unasked"}
    OBVIOUS
  <2>2. QED
    BY <1>1, <1>4, <2>1, RowIsOwn
<1> HIDE DEF list, ids, row
<1>10. /\ config' = [config EXCEPT ![m].servers = list]
       /\ accepted' = [accepted EXCEPT ![m] = ids]
       /\ requested' = [requested EXCEPT ![m] = @ \/ goal = "activate"]
       /\ UNCHANGED <<vault, memory, rows, gists, now, calls, removed, wanted>>
       /\ Go(t, next)
  BY DEF AskServer, SetServers, world, known, list, ids, row
<1>11. /\ config' \in Config(Len(gists)) /\ config'[m].servers = list
       /\ \A q \in Machines : q # m => config'[q].servers = config[q].servers
  BY <1>1, <1>6, <1>10 DEF Types, Config
<1>12. /\ accepted' \in [Machines -> SUBSET (Servers \X Nat)] /\ accepted'[m] = ids
       /\ \A q \in Machines : q # m => accepted'[q] = accepted[q]
  BY <1>1, <1>7, <1>10 DEF Types
<1>13. catalog' \in [Machines -> Kept]
  <2> DEFINE kept == IF answer \notin {"offline", "reauth_required"} /\ goal # "source"
                     THEN [who |-> Identity(m, s), ident |-> known.ident] ELSE catalog[m][s]
  <2>1. catalog' = [catalog EXCEPT ![m][s] = kept]
    BY DEF AskServer, known
  <2>2. kept \in [who : Who, ident : Nat] \cup {None}
    BY <1>1, <1>8 DEF Types, Kept
  <2> HIDE DEF kept
  <2>3. QED
    BY <1>1, <2>1, <2>2 DEF Types, Kept
<1>14. requested' \in [Machines -> BOOLEAN]
  BY <1>1, <1>10 DEF Types
<1>15. Types'
  BY <1>1, <1>10, <1>11, <1>12, <1>13, <1>14 DEF Types
<1>16. OnlyAt(m)
  BY <1>10, <1>11, <1>12 DEF OnlyAt
<1>17. MachineOk(m)'
  <2>1. MachineOk(m)
    BY <1>1 DEF Inv, StateOk
  <2>2. QED
    BY <1>6, <1>10, <1>11, <1>12, <2>1 DEF MachineOk
<1>18. GistsOk'
  BY <1>10 DEF Inv, StateOk, GistsOk
<1>19. ThreadOk(next, config[m].servers', accepted[m]', removed', Len(gists)')
  <2>1. CASE goal # "read"
    BY <1>1, <1>10, <2>1, NextIsFresh
  <2>2. CASE goal = "read"
    <3>1. next = [th EXCEPT !.ask = @ \ {s}, !.rows[s] = row]
      BY <2>2
    <3>2. th.rows \in Rows /\ th.ask \in SUBSET Servers
      BY <1>1 DEF Thread
    <3>3. /\ [th.rows EXCEPT ![s] = row] \in Rows
          /\ \A q \in Servers : [th.rows EXCEPT ![s] = row][q] = IF q = s THEN row ELSE th.rows[q]
      BY <1>9, <3>2 DEF Rows
    <3>4. /\ next \in Thread /\ next.pc = th.pc /\ next.list = th.list /\ next.remote = th.remote
          /\ next.gist = th.gist /\ next.ask = th.ask \ {s}
          /\ next.rows = [th.rows EXCEPT ![s] = row]
      BY <1>1, <3>1, <3>2, <3>3 DEF Thread
    <3>5. Own(next.rows)
      <4>1. Own(th.rows)
        BY <1>1 DEF Holds, ThreadOk
      <4>2. ASSUME NEW q \in Servers, next.rows[q] # None, next.rows[q].cached # None
            PROVE /\ next.rows[q].cached.who = next.rows[q].who
                  /\ next.rows[q].cached.ident = next.rows[q].ident
        <5>1. next.rows[q] = IF q = s THEN row ELSE th.rows[q]
          BY <3>3, <3>4
        <5>2. QED
          BY <1>9, <4>1, <4>2, <5>1 DEF Own
      <4>3. QED
        BY <4>2 DEF Own
    <3> HIDE DEF next
    <3>6. QED
      BY <1>1, <1>2, <1>7, <1>10, <1>12, <3>4, <3>5 DEF Holds, ThreadOk
  <2>3. QED
    BY <2>1, <2>2
<1> HIDE DEF next
<1>20. Len(gists) <= Len(gists)' /\ removed \subseteq removed' /\ accepted[m] \subseteq accepted'[m]
  BY <1>1, <1>7, <1>10, <1>12
<1>21. QED
  BY <1>10, <1>15, <1>16, <1>17, <1>18, <1>19, <1>20, ChangeIsSound

LEMMA PublishIsSound ==
  ASSUME Inv, NEW t \in Threads, Publish(t)
  PROVE Inv'
<1> DEFINE m == MachineOf[t]
<1>1. m \in Machines /\ Types
  BY ServersAssumption DEF Inv, StateOk
<1>2. thread[t].rows \in Rows /\ Own(thread[t].rows)
  BY DEF Inv, ThreadsOk, Holds, ThreadOk, Thread
<1>3. rows' = [rows EXCEPT ![m] = thread[t].rows] /\ Go(t, Idle)
      /\ UNCHANGED <<config, vault, memory, catalog, requested, gists, now, calls, removed,
                     wanted, accepted>>
  BY DEF Publish, world, ghosts
<1>4. /\ rows' \in [Machines -> Rows] /\ rows'[m] = thread[t].rows
      /\ \A q \in Machines : q # m => rows'[q] = rows[q]
  BY <1>1, <1>2, <1>3 DEF Types
<1>5. Types' /\ OnlyAt(m)
  BY <1>1, <1>3, <1>4 DEF Types, OnlyAt
<1>6. MachineOk(m)'
  BY <1>1, <1>2, <1>3, <1>4 DEF Inv, StateOk, MachineOk
<1>7. QED
  BY <1>3, <1>5, <1>6, ListIsSound

(* ----------------------------- the theorems --------------------------- *)
LEMMA InvNext == Inv /\ [Next]_vars => Inv'
<1> SUFFICES ASSUME Inv, [Next]_vars PROVE Inv'
  OBVIOUS
<1>1. CASE UNCHANGED vars
  BY <1>1 DEF Inv, StateOk, Types, MachineOk, GistsOk, ThreadsOk, Holds, vars
<1>2. ASSUME NEW t \in Threads, LoginStep(t) PROVE Inv'
  BY <1>2, CallsStart, PollIsSound, DeviceOverIsSound, VerifyIsSound DEF LoginStep
<1>3. ASSUME NEW t \in Threads, SyncStep(t) PROVE Inv'
  BY <1>3, CallsStart, SyncReadIsSound, SyncSaveIsSound, SyncFailIsSound,
     ReconnectReadIsSound, ResolveIsSound, ReconnectSaveIsSound DEF SyncStep
<1>4. ASSUME NEW t \in Threads, ListStep(t) PROVE Inv'
  BY <1>4, AddStartIsSound, RemoveIsSound, AddSaveIsSound, AddFailIsSound,
     LogoutStartIsSound, LogoutSaveIsSound DEF ListStep
<1>5. ASSUME NEW t \in Threads, ReadStep(t) PROVE Inv'
  BY <1>5, CallsStart, PublishIsSound, AskServerIsSound DEF ReadStep
<1>6. QED
  BY <1>1, <1>2, <1>3, <1>4, <1>5 DEF Next
LEMMA InvAlways == Spec => []Inv
BY InvInit, InvNext, PTL DEF Spec

\* The variables keep their types, and with them the inductive invariant holds:
\* a server's entry is an entry or nothing, wherever a list is kept.
THEOREM ServerTypes == Spec => []Types
BY InvAlways, PTL DEF Inv, StateOk

\* Another identity reaches a machine's list only by its user, the server's own
\* rotation, or the first sync that brings the server (_trusted_server_client).
THEOREM IdentitiesAreVouchedFor == Spec => []IdentitiesAreAccepted
<1>1. Inv => IdentitiesAreAccepted
  BY DEF Inv, StateOk, MachineOk, Vouched, IdentitiesAreAccepted, Active
<1>2. QED
  BY <1>1, InvAlways, PTL

\* A catalogue shown for a server that does not answer was kept for the user and
\* the identity of the row it is shown in (_validate_cached_key_status).
THEOREM CacheIsOwn == Spec => []CachedIsOwn
<1>1. Inv => CachedIsOwn
  BY DEF Inv, StateOk, MachineOk, Own, CachedIsOwn
<1>2. QED
  BY <1>1, InvAlways, PTL

\* Most steps leave every machine's servers as they are.
LEMMA ServersStay ==
  ASSUME Inv, NEW t \in Threads, NEW q \in Machines,
         \/ Bootstrap(t) \/ StartDevice(t) \/ DeviceOver(t) \/ SyncCall(t) \/ SyncRead(t)
         \/ SyncFail(t) \/ ReconnectRead(t) \/ LogoutStart(t) \/ ReadStart(t) \/ Publish(t)
         \/ \E u \in Users, stored \in BOOLEAN : PollGranted(t, u, stored)
         \/ \E answer \in Answers : VerifyLogin(t, answer)
         \/ \E s \in Servers : AddStart(t, s)
         \/ \E rejected \in BOOLEAN : AddFail(t, rejected)
         \/ \E s \in Servers, goal \in {"activate", "source"} : UseServer(t, goal, s)
  PROVE Gone(q) = {}
<1>1. config \in Config(Len(gists)) /\ MachineOf[t] \in Machines
  BY ServersAssumption DEF Inv, StateOk, Types
<1>2. config' = config \/ \E u : config' = [config EXCEPT ![MachineOf[t]].user = u]
  <2>1. CASE LogoutStart(t)
    BY <2>1 DEF LogoutStart
  <2>2. CASE \E u \in Users, stored \in BOOLEAN : PollGranted(t, u, stored)
    BY <2>2 DEF PollGranted
  <2>3. CASE \E answer \in Answers : VerifyLogin(t, answer)
    BY <2>3 DEF VerifyLogin
  <2>4. CASE \E rejected \in BOOLEAN : AddFail(t, rejected)
    BY <2>4 DEF AddFail
  <2>5. QED
    BY <2>1, <2>2, <2>3, <2>4 DEF Bootstrap, StartDevice, DeviceOver, SyncCall, SyncRead,
       SyncFail, ReconnectRead, ReadStart, Publish, AddStart, UseServer
<1>3. config'[q].servers = config[q].servers
  BY <1>1, <1>2 DEF Config
<1>4. QED
  BY <1>3 DEF Gone

\* A call that writes back what it held loses only what it did not know of.
LEMMA WrittenBackKeeps ==
  ASSUME Inv, NEW t \in Threads, thread[t].pc \in {"merge", "exchange", "add", "logout"},
         NEW dead, NEW next, Go(t, next), next.pc # thread[t].pc,
         \A s \in Active(thread[t].list) :
           s \in Active(config'[MachineOf[t]].servers) \/ s \in dead
  PROVE Gone(MachineOf[t]) \subseteq dead \/ Stale(MachineOf[t])
<1>1. thread'[t] = next
  BY DEF Go
<1>2. CASE thread[t].clean
  <2>1. Active(config[MachineOf[t]].servers) \subseteq Active(thread[t].list)
    BY <1>2 DEF Inv, ThreadsOk, Holds, ThreadOk
  <2>2. QED
    BY <2>1 DEF Gone
<1>3. CASE ~thread[t].clean
  BY <1>1, <1>3 DEF Stale
<1>4. QED
  BY <1>2, <1>3

LEMMA ConfigChanges ==
  ASSUME Inv, NEW t \in Threads, NEW list, NEW q \in Machines,
         SetServers(MachineOf[t], list)
  PROVE config'[q].servers = IF q = MachineOf[t] THEN list ELSE config[q].servers
<1>1. config \in Config(Len(gists)) /\ MachineOf[t] \in Machines
  BY ServersAssumption DEF Inv, StateOk, Types
<1>2. QED
  BY <1>1 DEF Config, SetServers

LEMMA SyncKeeps ==
  ASSUME Inv, NEW t \in Threads, NEW q \in Machines, SyncSave(t)
  PROVE Gone(q) \subseteq removed' \/ Stale(q)
<1> DEFINE m == MachineOf[t]
           list == Merged(thread[t].list, thread[t].remote)
<1>1. config \in Config(Len(gists)) /\ m \in Machines /\ Holds(t) /\ thread[t].pc = "merge"
  BY ServersAssumption DEF Inv, StateOk, Types, ThreadsOk, SyncSave, At
<1>2. config'[q].servers = IF q = m THEN list ELSE config[q].servers
  <2> DEFINE n == IF thread[t].gist = 0 THEN Len(gists') ELSE thread[t].gist
  <2>1. config' = [config EXCEPT ![m].servers = list, ![m].gist = n]
    BY DEF SyncSave
  <2> HIDE DEF n, list
  <2>2. QED
    BY <1>1, <2>1 DEF Config
<1>3. CASE q # m
  BY <1>2, <1>3 DEF Gone
<1>4. CASE q = m
  <2>1. \A s \in Active(thread[t].list) : s \in Active(list) \/ s \in removed'
    <3>1. /\ thread[t].list \in List /\ thread[t].remote \in List
          /\ Buried(thread[t].remote, removed)
      BY <1>1 DEF Holds, ThreadOk, Thread
    <3>2. UNCHANGED removed
      BY DEF SyncSave
    <3>3. QED
      BY <3>1, <3>2, MergedKeeps DEF Buried, Active
  <2>2. Go(t, AfterSync(t)) /\ AfterSync(t).pc # "merge"
    BY IdleIsFresh DEF SyncSave, AfterSync, Idle
  <2>3. QED
    BY <1>1, <1>2, <1>4, <2>1, <2>2, WrittenBackKeeps
<1>5. QED
  BY <1>3, <1>4

LEMMA ResolveKeeps ==
  ASSUME Inv, NEW t \in Threads, NEW q \in Machines, NEW chosen \in SUBSET Servers,
         Resolve(t, chosen)
  PROVE Gone(q) \subseteq removed'
<1> DEFINE m == MachineOf[t]
           aside == memory[m].conflicts
           list == [s \in Servers |-> IF s \in chosen /\ aside[s] # None THEN aside[s]
                                      ELSE Entries(config[m].servers)[s]]
<1>1. Buried(aside, removed) /\ UNCHANGED removed /\ config[m].servers \in List
  BY ServersAssumption DEF Inv, StateOk, MachineOk, Types, Config, Resolve
<1>2. config'[q].servers = IF q = m THEN list ELSE config[q].servers
  BY ConfigChanges DEF Resolve
<1>3. \A s \in Active(config[m].servers) : s \in Active(list) \/ s \in removed
  BY <1>1, EntriesKeep DEF Active, Buried
<1>4. QED
  BY <1>1, <1>2, <1>3 DEF Gone

LEMMA WaitersKeep ==
  ASSUME Inv, NEW t \in Threads, NEW q \in Machines,
         (\E connected : ReconnectSave(t, connected)) \/ LogoutSave(t) \/ AddSave(t)
  PROVE Gone(q) \subseteq removed' \/ Stale(q)
<1> DEFINE m == MachineOf[t]
           list == thread[t].list
<1>1. config \in Config(Len(gists)) /\ m \in Machines
  BY ServersAssumption DEF Inv, StateOk, Types
<1>2. thread[t].pc \in {"exchange", "add", "logout"}
  BY DEF ReconnectSave, LogoutSave, AddSave, At
<1>3. config'[q].servers = IF q = m THEN list ELSE config[q].servers
  <2>1. CASE AddSave(t)
    <3> DEFINE u == IF Token(m) # None THEN Token(m) ELSE config[m].user
    <3>1. config' = [config EXCEPT ![m].servers = list, ![m].user = u]
      BY <1>1, <2>1 DEF AddSave, Config
    <3> HIDE DEF u
    <3>2. QED
      BY <1>1, <3>1 DEF Config
  <2>2. CASE LogoutSave(t)
    BY <2>2, ConfigChanges DEF LogoutSave
  <2>3. CASE \E connected : ReconnectSave(t, connected)
    <3>1. PICK connected : ReconnectSave(t, connected)
      BY <2>3
    <3>2. QED
      BY <3>1, ConfigChanges DEF ReconnectSave
  <2>4. QED
    BY <2>1, <2>2, <2>3
<1>4. CASE q # m
  BY <1>3, <1>4 DEF Gone
<1>5. CASE q = m
  <2>1. PICK next : Go(t, next) /\ next.pc # thread[t].pc
    <3>1. Idle.pc = "idle" /\ [Idle EXCEPT !.pc = "sync"].pc = "sync"
      BY DEF Idle
    <3>2. QED
      BY <1>2, <3>1 DEF ReconnectSave, LogoutSave, AddSave
  <2>2. \A s \in Active(list) : s \in Active(config'[m].servers) \/ s \in removed'
    BY <1>3, <1>5
  <2>3. QED
    BY <1>2, <1>5, <2>1, <2>2, WrittenBackKeeps
<1>6. QED
  BY <1>4, <1>5

LEMMA RemoveKeeps ==
  ASSUME Inv, NEW t \in Threads, NEW q \in Machines, NEW s \in Servers, Remove(t, s)
  PROVE Gone(q) \subseteq removed'
<1> DEFINE m == MachineOf[t]
<1>1. /\ m \in Machines /\ Len(gists) \in Nat /\ now + 1 \in Nat /\ config \in Config(Len(gists))
      /\ config[m].servers \in List
  BY ServersAssumption DEF Inv, StateOk, Types, Config
<1>2. /\ s \in Active(config[m].servers) /\ config' = Removal(config, m, s, now + 1)
      /\ removed' = removed \cup {s}
  BY DEF Remove, Removal
<1>3. config[m].servers[s] \in Record
  BY <1>1, <1>2 DEF Active, List
<1>4. /\ \A r \in Servers : r # s => config'[m].servers[r] = config[m].servers[r]
      /\ \A r \in Machines : r # m => config'[r] = config[r]
  BY <1>1, <1>2, <1>3, TombstoneIsSet
<1>5. QED
  BY <1>2, <1>4 DEF Gone, Active

\* A server that answers is active before and after its identity is written.
LEMMA AnswerKeeps ==
  ASSUME Inv, NEW t \in Threads, NEW q \in Machines, NEW s \in Servers,
         NEW answer \in ServerAnswers, AskServer(t, s, answer)
  PROVE Gone(q) = {}
<1> DEFINE m == MachineOf[t]
           entry == thread[t].list[s]
           known == IF answer = "offline" THEN entry ELSE Rotated(entry, s)
           local == config[m].servers
           list == IF known = entry THEN local ELSE Replaced(local, s, known)
<1>1. m \in Machines /\ Types /\ Holds(t) /\ now \in Nat /\ thread[t] \in Thread
  BY ServersAssumption DEF Inv, StateOk, Types, ThreadsOk
<1>2. thread[t].pc = "ask" /\ s \in thread[t].ask
  BY DEF AskServer, At
<1>3. entry \in Record /\ entry # None /\ ~entry.deleted
  BY <1>1, <1>2 DEF Holds, ThreadOk, Thread, List, Active
<1>4. known \in Record /\ ~known.deleted /\ known # None
  BY <1>1, <1>3, RotatedIsARecord, ServersAssumption
<1> HIDE DEF known
<1>5. local \in List
  BY <1>1 DEF Types, Config
<1>6. Active(local) \subseteq Active(list)
  BY <1>4, <1>5 DEF Active, List, Replaced
<1>7. config'[q].servers = IF q = m THEN list ELSE config[q].servers
  BY ConfigChanges DEF AskServer, known
<1>8. QED
  BY <1>6, <1>7 DEF Gone

\* Whatever is synced, reconnected, resolved or logged out of, a server leaves a
\* machine's list only after some user removed it, or in the writing of a call
\* that another one has overtaken (github_gist_sync; docs/gist-schema.md).
THEOREM ServersAreKept == Spec => KeptUnlessRemoved
<1>1. ASSUME Inv, Next, NEW q \in Machines PROVE Gone(q) \subseteq removed' \/ Stale(q)
  <2>1. PICK t \in Threads : LoginStep(t) \/ SyncStep(t) \/ ListStep(t) \/ ReadStep(t)
    BY <1>1 DEF Next
  <2>2. CASE LoginStep(t)
    BY <1>1, <2>2, ServersStay DEF LoginStep
  <2>3. CASE SyncStep(t)
    BY <1>1, <2>3, ServersStay, SyncKeeps, ResolveKeeps, WaitersKeep DEF SyncStep
  <2>4. CASE ListStep(t)
    BY <1>1, <2>4, ServersStay, WaitersKeep, RemoveKeeps DEF ListStep
  <2>5. CASE ReadStep(t)
    BY <1>1, <2>5, ServersStay, AnswerKeeps DEF ReadStep
  <2>6. QED
    BY <2>1, <2>2, <2>3, <2>4, <2>5
<1>2. Inv /\ [Next]_vars =>
        (\A m \in Machines : Gone(m) \subseteq removed' \/ Stale(m)) \/ UNCHANGED vars
  BY <1>1
<1>3. QED
  BY <1>2, InvAlways, PTL DEF Spec, KeptUnlessRemoved
=============================================================================
