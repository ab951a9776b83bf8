------------------------------- MODULE Servers -------------------------------
(* The developer servers a user has registered on several machines: the list *)
(* in each config.json, the GitHub login, the Gist that carries the list from*)
(* machine to machine (github_sync.py), the sessions in the credential store,*)
(* and what the servers answer, with the catalogue kept for when they do not *)
(* (private_distribution_controller.py, cache.py).                           *)
(*                                                                           *)
(* Page calls and background threads of a machine share its list and take no *)
(* lock: one that waits for the network writes back what it read before.     *)
(* Every server signs; its identity stands for url, name and fingerprint.    *)
EXTENDS Integers, Sequences

CONSTANTS
  Servers, Users, Machines,
  Threads,       \* page calls and background threads
  MachineOf,     \* thread -> machine
  FirstLists,    \* what each machine has registered first
  FirstUsers,    \* who is logged in on all of them first
  Key,           \* server -> its signing key, the last of its rotations
  MaxCalls, MaxTime, MaxGists,   \* bounds: calls, the clock, Gists
  None

\* A list of servers: of each the entry, a tombstone (deleted) or nothing.
Login == Users \cup {None}
Record == [ident : Nat, at : Nat, deleted : BOOLEAN, pinned : BOOLEAN]
List == [Servers -> Record \cup {None}]

ASSUME ServersAssumption ==
  /\ MachineOf \in [Threads -> Machines]
  /\ Key \in [Servers -> Nat]
  /\ FirstLists \subseteq [Machines -> List]
  /\ FirstUsers \subseteq Login
  /\ None \notin Record

VARIABLES
  config,      \* machine -> config.json: servers, github_user_id, github_gist_id
  vault,       \* machine -> the credential store: github-access-token, a session per server
  memory,      \* machine -> token, device login, token last checked, conflicts of the last sync
  catalog,     \* machine -> cache/private-servers.json
  rows,        \* machine -> the reading the page shows
  requested,   \* machine -> KEY_SERVERS waits to be read again
  gists,       \* the Gists that exist, by number: owner, servers
  thread,      \* thread -> where it is and what it read before it waited
  now, calls,
  removed,     \* servers some user ever removed, a tombstone of the first lists too
  wanted,      \* servers whose last decision by a user was to add them
  accepted     \* machine -> identities its user or a rotation vouched for
vars == <<config, vault, memory, catalog, rows, requested, gists, thread, now, calls,
          removed, wanted, accepted>>
ghosts == <<removed, wanted, accepted>>
world == <<gists, now>>

Nothing == [s \in Servers |-> None]
Token(m) == IF memory[m].token # None THEN memory[m].token ELSE vault[m].github
Active(list) == {s \in Servers : list[s] # None /\ ~list[s].deleted}
\* _developer_server_entries(): deleted ones are left out.
Entries(list) == [s \in Servers |-> IF s \in Active(list) THEN list[s] ELSE None]
Entry(ident, at) == [ident |-> ident, at |-> at, deleted |-> FALSE, pinned |-> TRUE]

Idle == [pc |-> "idle", goal |-> None, server |-> None, token |-> None, list |-> Nothing,
         remote |-> Nothing, gist |-> 0, ask |-> {}, rows |-> Nothing, clean |-> TRUE]
At(t, pc) == thread[t].pc = pc
Waits(pc) == pc \in {"merge", "exchange", "add", "ask", "logout"}

\* Thread t goes on with `next`; the others of its machine may now hold an old list.
Go(t, next) ==
  thread' = [u \in Threads |->
    IF u = t THEN next
    ELSE IF /\ MachineOf[u] = MachineOf[t] /\ Waits(thread[u].pc)
            /\ config'[MachineOf[t]].servers # config[MachineOf[t]].servers
         THEN [thread[u] EXCEPT !.clean = FALSE]
         ELSE thread[u]]
Start(t, next) == At(t, "idle") /\ calls < MaxCalls /\ calls' = calls + 1 /\ Go(t, next)
SetServers(m, list) == config' = [config EXCEPT ![m].servers = list]
Request(m) == requested' = [requested EXCEPT ![m] = TRUE]

Init ==
  /\ \E lists \in FirstLists, u \in FirstUsers :
       /\ config = [m \in Machines |-> [servers |-> lists[m], user |-> u, gist |-> 0]]
       /\ vault = [m \in Machines |-> [github |-> u, session |->
            [s \in Servers |-> IF s \in Active(lists[m]) THEN u ELSE None]]]
       /\ wanted = UNION {Active(lists[m]) : m \in Machines}
       /\ accepted = [m \in Machines |->
            {<<s, lists[m][s].ident>> : s \in {q \in Servers : lists[m][q] # None}}]
       /\ removed = UNION {{s \in Servers : lists[m][s] # None /\ lists[m][s].deleted} : m \in Machines}
  /\ memory = [m \in Machines |-> [token |-> None, device |-> FALSE, checked |-> None,
                                   conflicts |-> Nothing]]
  /\ catalog = [m \in Machines |-> Nothing] /\ rows = [m \in Machines |-> Nothing]
  /\ requested = [m \in Machines |-> FALSE]
  /\ gists = <<>> /\ now = 1 /\ calls = 0
  /\ thread = [t \in Threads |-> Idle]

(* ------------------------------ the login ----------------------------- *)
\* bootstrap: a saved token starts the refresh in the background.
Bootstrap(t) ==
  /\ Token(MachineOf[t]) # None
  /\ UNCHANGED <<config, vault, memory, catalog, rows, requested, world, ghosts>>
  /\ Start(t, [Idle EXCEPT !.pc = "verify", !.goal = "refresh"])

StartDevice(t) ==
  LET m == MachineOf[t]
  IN /\ memory' = [memory EXCEPT ![m].device = TRUE]
     /\ UNCHANGED <<config, vault, catalog, rows, requested, world, ghosts>>
     /\ Start(t, Idle)

\* A poll GitHub grants; a pending one changes nothing here.
PollGranted(t, u, stored) ==
  LET m == MachineOf[t]
  IN /\ At(t, "idle") /\ memory[m].device
     /\ memory' = [memory EXCEPT ![m].device = FALSE, ![m].token = u, ![m].checked = u]
     /\ vault' = [vault EXCEPT ![m].github = IF stored THEN u ELSE @]
     /\ config' = [config EXCEPT ![m].user = u]
     /\ UNCHANGED <<catalog, rows, requested, world, calls, ghosts>>
     /\ Go(t, [Idle EXCEPT !.pc = "sync", !.goal = "reconnect"])

\* GitHub refuses, or the user closes the dialog.
DeviceOver(t) ==
  LET m == MachineOf[t]
  IN /\ At(t, "idle") /\ memory[m].device
     /\ memory' = [memory EXCEPT ![m].device = FALSE]
     /\ UNCHANGED <<config, vault, catalog, rows, requested, world, thread, calls, ghosts>>

\* _verify_github_login; who goes on, and who does not, when it fails.
Answers == {"none", "recent", "valid", "invalid", "unreachable"}
Passes(t, answer) ==
  \/ answer \in {"recent", "valid"} \/ thread[t].goal = "read"
  \/ answer = "none" /\ (thread[t].goal = "refresh" => config[MachineOf[t]].user # None)
Ask(t, list) == [thread[t] EXCEPT !.pc = "ask", !.list = list, !.ask = Active(list)]
Verified(t) ==
  LET m == MachineOf[t]
      list == Entries(config'[m].servers)
      s == thread[t].server
  IN CASE thread[t].goal = "refresh" -> [Idle EXCEPT !.pc = "sync", !.goal = "reconnect"]
       [] thread[t].goal = "read" -> Ask(t, list)
       [] list[s] # None /\ (config'[m].user # None \/ vault[m].session[s] # None) ->
            Ask(t, [Nothing EXCEPT ![s] = list[s]])
       [] OTHER -> Idle
\* The request of a new reading that ends every activation.
Refused(t) == requested' =
  [requested EXCEPT ![MachineOf[t]] = @ \/ thread[t].goal = "activate"]
VerifyLogin(t, answer) ==
  LET m == MachineOf[t]
      token == Token(m)
  IN /\ At(t, "verify")
     /\ (answer = "none") = (token = None)
     /\ answer = "recent" => memory[m].checked = token /\ thread[t].goal # "refresh"
     /\ config' = [config EXCEPT ![m].user =
          CASE answer = "valid" -> token [] answer = "invalid" -> None [] OTHER -> @]
     /\ memory' = [memory EXCEPT
          ![m].checked = CASE answer = "valid" -> token [] answer = "invalid" -> None [] OTHER -> @,
          ![m].token = IF answer = "invalid" THEN None ELSE @]
     /\ vault' = [vault EXCEPT ![m].github = IF answer = "invalid" THEN None ELSE @]
     /\ UNCHANGED <<catalog, rows, world, calls, ghosts>>
     /\ IF Passes(t, answer)
        THEN /\ Go(t, Verified(t))
             /\ IF Verified(t) = Idle THEN Refused(t) ELSE UNCHANGED requested
        ELSE Go(t, Idle) /\ Refused(t)

(* ---------------------- the Gist: github_gist_sync -------------------- *)
\* What is sent and kept of an entry; the signing identity is not.
Recovery(list) ==
  [s \in Servers |-> IF list[s] = None THEN None ELSE [list[s] EXCEPT !.pinned = FALSE]]
\* faulty variant: entries that differ are not put aside
ConflictingNot(local, remote, s) == FALSE
Conflicting(local, remote, s) ==
  local[s] # None /\ remote[s] # None /\ local[s].ident # remote[s].ident
\* faulty variant: what the Gist does not list was deleted
MergedAbsent(local, remote) ==
  [s \in Servers |->
     CASE remote[s] = None -> IF local[s] = None THEN None ELSE [local[s] EXCEPT !.deleted = TRUE]
       [] local[s] = None -> remote[s]
       [] Conflicting(local, remote, s) -> local[s]
       [] OTHER -> IF remote[s].at > local[s].at THEN remote[s] ELSE local[s]]
Merged(local, remote) ==
  [s \in Servers |->
     CASE remote[s] = None -> local[s]
       [] local[s] = None -> remote[s]
       [] Conflicting(local, remote, s) -> local[s]
       [] OTHER -> IF remote[s].at > local[s].at THEN remote[s] ELSE local[s]]

SyncCall(t) ==
  /\ UNCHANGED <<config, vault, memory, catalog, rows, requested, world, ghosts>>
  /\ Start(t, [Idle EXCEPT !.pc = "sync"])

AfterSync(t) ==
  IF thread[t].goal = "reconnect" THEN [Idle EXCEPT !.pc = "reconnect"] ELSE Idle

\* The Gist named in config.json, else one of the account's; 0: there is none.
GistsFor(m, u) ==
  LET own == {g \in DOMAIN gists : gists[g].owner = u}
  IN IF config[m].gist # 0 THEN {config[m].gist} ELSE IF own # {} THEN own ELSE {0}
SyncRead(t) ==
  LET m == MachineOf[t]
      local == config[m].servers
  IN /\ At(t, "sync") /\ Token(m) # None
     /\ UNCHANGED <<config, vault, memory, catalog, rows, requested, world, calls, ghosts>>
     /\ \E g \in GistsFor(m, Token(m)) :
          Go(t, [thread[t] EXCEPT
            !.pc = "merge", !.token = Token(m), !.list = Recovery(local), !.gist = g,
            !.remote = IF g = 0 THEN Nothing ELSE gists[g].servers])

Written(t) ==
  LET list == Merged(thread[t].list, thread[t].remote)
      user == thread[t].token
  IN IF thread[t].gist = 0
     THEN Len(gists) < MaxGists /\ gists' = Append(gists, [owner |-> user, servers |-> list])
     ELSE /\ gists[thread[t].gist].owner = user
          /\ gists' = [gists EXCEPT ![thread[t].gist].servers = list]
\* The merged list goes to the Gist, then replaces the list of this machine.
SyncSave(t) ==
  LET m == MachineOf[t]
      local == thread[t].list
      remote == thread[t].remote
      list == Merged(local, remote)
  IN /\ At(t, "merge") /\ Written(t)
     /\ config' = [config EXCEPT ![m].servers = list,
                     ![m].gist = IF thread[t].gist = 0 THEN Len(gists') ELSE thread[t].gist]
     /\ memory' = [memory EXCEPT ![m].conflicts =
          [s \in Servers |-> IF Conflicting(local, remote, s)
                             THEN remote[s] ELSE None]]
     /\ accepted' = [accepted EXCEPT ![m] =
          @ \cup {<<s, remote[s].ident>> : s \in {q \in Servers : local[q] = None /\ remote[q] # None}}]
     /\ UNCHANGED <<vault, catalog, rows, requested, now, calls, removed, wanted>>
     /\ Go(t, AfterSync(t))
\* No token, no answer, or the answer to the write is lost: this machine keeps its list.
SyncFail(t) ==
  /\ \/ At(t, "sync") /\ UNCHANGED gists
     \/ At(t, "merge") /\ (Written(t) \/ UNCHANGED gists)
  /\ UNCHANGED <<config, vault, memory, catalog, rows, requested, now, calls, ghosts>>
  /\ Go(t, AfterSync(t))

\* The page asks whether the entries put aside in the last sync should replace ours.
Resolve(t, chosen) ==
  LET m == MachineOf[t]
      aside == memory[m].conflicts
      list == [s \in Servers |-> IF s \in chosen /\ aside[s] # None THEN aside[s]
                                 ELSE Entries(config[m].servers)[s]]
  IN /\ \E s \in chosen : aside[s] # None
     /\ SetServers(m, list)
     /\ accepted' = [accepted EXCEPT ![m] =
          @ \cup {<<s, aside[s].ident>> : s \in {q \in chosen : aside[q] # None}}]
     /\ wanted' = (wanted \ chosen) \cup {s \in chosen : s \in Active(list)}
     /\ UNCHANGED <<vault, memory, catalog, rows, requested, world, removed>>
     /\ Start(t, [Idle EXCEPT !.pc = "sync"])

(* -------------------------- sessions: reconnect ----------------------- *)
ReconnectRead(t) ==
  LET m == MachineOf[t]
  IN /\ At(t, "reconnect")
     /\ UNCHANGED <<config, vault, memory, catalog, rows, requested, world, calls, ghosts>>
     /\ Go(t, IF Token(m) = None THEN Idle
              ELSE [thread[t] EXCEPT !.pc = "exchange", !.token = Token(m),
                                     !.list = Entries(config[m].servers)])
ReconnectSave(t, connected) ==
  LET m == MachineOf[t]
  IN /\ At(t, "exchange")
     /\ vault' = [vault EXCEPT ![m].session =
          [s \in Servers |-> IF s \in connected THEN thread[t].token ELSE @[s]]]
     /\ SetServers(m, thread[t].list)
     /\ UNCHANGED <<memory, catalog, rows, requested, world, calls, ghosts>>
     /\ Go(t, Idle)

(* ------------------- adding, removing and logging out ----------------- *)
\* The server has said who it is and the user has confirmed its fingerprint.
AddStart(t, s) ==
  LET list == Entries(config[MachineOf[t]].servers)
  IN /\ list[s] = None
     /\ UNCHANGED <<config, vault, memory, catalog, rows, requested, world, ghosts>>
     /\ Start(t, [Idle EXCEPT !.pc = "add", !.server = s,
                              !.list = [list EXCEPT ![s] = Entry(Key[s], 0)]])
AddSave(t) ==
  LET m == MachineOf[t]
      s == thread[t].server
      token == Token(m)
  IN /\ At(t, "add")
     /\ config' = [config EXCEPT ![m].servers = thread[t].list,
                                 ![m].user = IF token # None THEN token ELSE @]
     /\ vault' = [vault EXCEPT ![m].session[s] = IF token # None THEN token ELSE @]
     /\ Request(m)
     /\ wanted' = wanted \cup {s}
     /\ accepted' = [accepted EXCEPT ![m] = @ \cup {<<s, thread[t].list[s].ident>>}]
     /\ UNCHANGED <<memory, catalog, rows, world, calls, removed>>
     /\ Go(t, IF token # None THEN [Idle EXCEPT !.pc = "sync"] ELSE Idle)
\* The server refuses the token (and the login is over), or cannot be reached.
AddFail(t, rejected) ==
  LET m == MachineOf[t]
  IN /\ At(t, "add") /\ Token(m) # None
     /\ memory' = [memory EXCEPT ![m].token = IF rejected THEN None ELSE @]
     /\ vault' = [vault EXCEPT ![m].github = IF rejected THEN None ELSE @]
     /\ config' = [config EXCEPT ![m].user = IF rejected THEN None ELSE @]
     /\ UNCHANGED <<catalog, rows, requested, world, calls, ghosts>>
     /\ Go(t, Idle)

\* A tombstone takes the entry's place.  With a token the call then raises: the
\* thread it wants to start has no function, so no sync and no new reading follow.
Remove(t, s) ==
  LET m == MachineOf[t]
  IN /\ s \in Active(config[m].servers) /\ now < MaxTime
     /\ now' = now + 1
     /\ config' = [config EXCEPT ![m].servers[s].deleted = TRUE, ![m].servers[s].at = now']
     /\ vault' = [vault EXCEPT ![m].session[s] = None]
     /\ catalog' = [catalog EXCEPT ![m][s] = None]
     /\ IF Token(m) = None THEN Request(m) ELSE UNCHANGED requested
     /\ removed' = removed \cup {s} /\ wanted' = wanted \ {s}
     /\ UNCHANGED <<memory, rows, gists, accepted>>
     /\ Start(t, Idle)

LogoutStart(t) ==
  LET m == MachineOf[t]
  IN /\ memory' = [memory EXCEPT ![m].device = FALSE, ![m].token = None]
     /\ config' = [config EXCEPT ![m].user = None]
     /\ UNCHANGED <<vault, catalog, rows, requested, world, ghosts>>
     /\ Start(t, [Idle EXCEPT !.pc = "logout", !.list = Entries(config[m].servers)])
LogoutSave(t) ==
  LET m == MachineOf[t]
      left == Active(thread[t].list)
  IN /\ At(t, "logout")
     /\ vault' = [vault EXCEPT ![m].github = None,
          ![m].session = [s \in Servers |-> IF s \in left THEN None ELSE @[s]]]
     /\ SetServers(m, thread[t].list)
     /\ UNCHANGED <<memory, catalog, rows, requested, world, calls, ghosts>>
     /\ Go(t, Idle)

(* ----------------------- what the servers answer ---------------------- *)
\* The hub's worker reads the servers again: after a change, or because the page asks.
ReadStart(t) ==
  LET m == MachineOf[t]
  IN /\ requested' = [requested EXCEPT ![m] = FALSE]
     /\ UNCHANGED <<config, vault, memory, catalog, rows, world, ghosts>>
     /\ \/ requested[m] /\ At(t, "idle") /\ UNCHANGED calls
           /\ Go(t, [Idle EXCEPT !.pc = "verify", !.goal = "read"])
        \/ Start(t, [Idle EXCEPT !.pc = "verify", !.goal = "read"])
\* activate_developer_server, and an install from a server: _private_package_source.
UseServer(t, goal, s) ==
  /\ UNCHANGED <<config, vault, memory, catalog, rows, requested, world, ghosts>>
  /\ Start(t, [Idle EXCEPT !.pc = "verify", !.goal = goal, !.server = s])

\* user id, else "session" when there is a session; None: the server is not asked.
Identity(m, s) ==
  IF config[m].user # None THEN config[m].user
  ELSE IF vault[m].session[s] # None THEN "session" ELSE None
\* faulty variant: the user the catalogue was kept for is not looked at
CachedForAny(m, s, entry) ==
  IF catalog[m][s] # None /\ catalog[m][s].ident = entry.ident THEN catalog[m][s] ELSE None
\* PrivateCatalogCache.load and _validate_cached_key_status.
Cached(m, s, entry) ==
  IF /\ catalog[m][s] # None
     /\ catalog[m][s].who = Identity(m, s)
     /\ catalog[m][s].ident = entry.ident
  THEN catalog[m][s] ELSE None
RowOf(m, s, entry, answer) ==
  [status |-> answer, who |-> Identity(m, s), ident |-> entry.ident,
   cached |-> IF answer \in {"offline", "reauth_required"} THEN Cached(m, s, entry) ELSE None]

\* _trusted_server_client: a signing identity still unknown is noted if the
\* fingerprint is the confirmed one, a known one may rotate; both are saved.
Trusted(entry, s) == entry.pinned \/ entry.ident = Key[s]
Rotated(entry, s) ==
  IF entry.ident = Key[s] THEN [entry EXCEPT !.pinned = TRUE]
  ELSE [entry EXCEPT !.ident = Key[s], !.at = now]
Replaced(list, s, entry) == [list EXCEPT ![s] = IF @ = None THEN None ELSE entry]
\* "answered" stands for active, expired, revoked and registered.
ServerAnswers == {"answered", "reauth_required", "offline"}
AskServer(t, s, answer) ==
  LET m == MachineOf[t]
      goal == thread[t].goal
      entry == thread[t].list[s]
      known == IF answer = "offline" THEN entry ELSE Rotated(entry, s)
      good == answer \notin {"offline", "reauth_required"}
      more == thread[t].ask \ {s}
  IN /\ At(t, "ask") /\ s \in thread[t].ask
     /\ answer # "offline" => Identity(m, s) # None /\ Trusted(entry, s)
     /\ SetServers(m, IF known = entry THEN config[m].servers
                      ELSE Replaced(config[m].servers, s, known))
     /\ accepted' = [accepted EXCEPT ![m] = IF known = entry THEN @ ELSE @ \cup {<<s, known.ident>>}]
     /\ catalog' = [catalog EXCEPT ![m][s] =
          IF good /\ goal # "source" THEN [who |-> Identity(m, s), ident |-> known.ident] ELSE @]
     /\ requested' = [requested EXCEPT ![m] = @ \/ goal = "activate"]
     /\ UNCHANGED <<vault, memory, rows, world, calls, removed, wanted>>
     /\ Go(t, IF goal # "read" THEN Idle
              ELSE [thread[t] EXCEPT !.ask = more, !.rows[s] =
                      RowOf(m, s, known, IF Identity(m, s) = None THEN "unasked" ELSE answer)])
Publish(t) ==
  LET m == MachineOf[t]
  IN /\ At(t, "ask") /\ thread[t].ask = {} /\ thread[t].goal = "read"
     /\ rows' = [rows EXCEPT ![m] = thread[t].rows]
     /\ UNCHANGED <<config, vault, memory, catalog, requested, world, calls, ghosts>>
     /\ Go(t, Idle)

LoginStep(t) ==
  \/ Bootstrap(t) \/ StartDevice(t) \/ DeviceOver(t)
  \/ \E u \in Users, stored \in BOOLEAN : PollGranted(t, u, stored)
  \/ \E answer \in Answers : VerifyLogin(t, answer)
SyncStep(t) ==
  \/ SyncCall(t) \/ SyncRead(t) \/ SyncSave(t) \/ SyncFail(t) \/ ReconnectRead(t)
  \/ \E chosen \in SUBSET Servers : Resolve(t, chosen)
  \/ \E connected \in SUBSET Active(thread[t].list) : ReconnectSave(t, connected)
ListStep(t) ==
  \/ \E s \in Servers : AddStart(t, s) \/ Remove(t, s)
  \/ AddSave(t) \/ (\E rejected \in BOOLEAN : AddFail(t, rejected))
  \/ LogoutStart(t) \/ LogoutSave(t)
ReadStep(t) ==
  \/ ReadStart(t) \/ Publish(t)
  \/ \E s \in Servers, goal \in {"activate", "source"} : UseServer(t, goal, s)
  \/ \E s \in Servers, answer \in ServerAnswers : AskServer(t, s, answer)
Next ==
  \E t \in Threads : LoginStep(t) \/ SyncStep(t) \/ ListStep(t) \/ ReadStep(t)
Spec == Init /\ [][Next]_vars

(* ------------------------------ properties ---------------------------- *)
\* A call that waited writes back a list older than its machine's.
Stale(m) == \E t \in Threads : MachineOf[t] = m /\ ~thread[t].clean /\ thread'[t] # thread[t]
Gone(m) == Active(config[m].servers) \ Active(config'[m].servers)

\* Whatever is synced, reconnected, resolved or logged out of, a server leaves
\* a machine's list only after some user removed it, or because two calls
\* overlapped (github_gist_sync; docs/gist-schema.md).
KeptUnlessRemoved ==
  [][\A m \in Machines : Gone(m) \subseteq removed' \/ Stale(m)]_vars

\* A server added after its removal stays until someone removes it again
\* (docs/gist-schema.md: not deleted locally without an explicit user action).
AddedIsKept ==
  [][\A m \in Machines : Gone(m) \cap wanted' = {} \/ Stale(m)]_vars

\* A removal ends with the servers asked for again, so that the page stops
\* showing the server (remove_developer_server ends in data_changed(KEY_SERVERS)).
RemovalIsTold ==
  [][\A m \in Machines : Gone(m) # {} /\ now' > now => requested'[m]]_vars

\* Another identity reaches a machine's list only when its user added or took
\* it, the server rotated to it, or the machine did not know the server when it
\* synced (github_gist_sync, resolve_github_gist_conflicts, _trusted_server_client).
IdentitiesAreAccepted ==
  \A m \in Machines : \A s \in Active(config[m].servers) :
    <<s, config[m].servers[s].ident>> \in accepted[m]

\* What is shown of a server that does not answer was kept for the user the
\* reading is for, under the identity that is registered (_developer_servers_data).
CachedIsOwn ==
  \A m \in Machines, s \in Servers :
    rows[m][s] # None /\ rows[m][s].cached # None =>
      /\ rows[m][s].cached.who = rows[m][s].who
      /\ rows[m][s].cached.ident = rows[m][s].ident
=============================================================================
