-------------------------- MODULE ServiceRegistry --------------------------
(***************************************************************************)
(* The registered services, the consumers that have been heard of lately,  *)
(* and the file the registry is kept in.  The file is written after every  *)
(* change, by writes that do not wait for each other.                      *)
(***************************************************************************)
EXTENDS FiniteSets, Integers

CONSTANTS
  ServiceIds, Adapters, Writers,   \* Writers: writes of the file that may be under way
  Descriptors,                     \* what a service may register: [kind, hcl, url]
  Absent, Torn,                    \* no file, no entry; a file that is no JSON
  MaxChanges, MaxCrashes           \* bounds

\* The kinds of a service, and none.
ServiceKinds == {"none", "nomad", "external"}

\* What the file holds when it is whole.
Contents == UNION {[S -> [kind: ServiceKinds, hcl: BOOLEAN]] : S \in SUBSET ServiceIds}

ASSUME RegistryConstants ==
  /\ Absent # Torn /\ {Absent, Torn} \cap Contents = {}
  /\ MaxChanges \in Nat /\ MaxCrashes \in Nat
  /\ \A d \in Descriptors : d.kind \in ServiceKinds /\ {d.hcl, d.url} \subseteq BOOLEAN

VARIABLES
  services,   \* function from ids to [kind, hcl, url, consumers]
  adapterSeen,\* function from ids to functions from adapters to "fresh" or "old"
  file,       \* what is on the disk: a function from ids to [kind, hcl], Absent or Torn
  write,      \* per writer: the snapshot it writes and how far it is
  reload,     \* what a reload under way has read
  running,    \* whether the server runs
  callsIn,    \* history: adapters heard of within the TTL and not taken away
  installed,  \* history: the ids installed with a Nomad spec and not forgotten
  crossed,    \* history: two writes, or a change and a reload, were under way at once
  changes, crashes

registryVars == <<services, adapterSeen, file, write, reload, running, callsIn,
                  installed, crossed, changes, crashes>>
history == <<callsIn, installed, crossed, changes, crashes>>

NoWrite == [at |-> "free", snap |-> Absent]

RegistryInit ==
  /\ services = <<>> /\ adapterSeen = <<>> /\ file = Absent
  /\ write = [w \in Writers |-> NoWrite] /\ reload = Absent /\ running = TRUE
  /\ callsIn = [i \in ServiceIds |-> {}] /\ installed = {} /\ crossed = FALSE
  /\ changes = 0 /\ crashes = 0

Without(f, i) == [x \in DOMAIN f \ {i} |-> f[x]]
With(f, i, v) == [x \in DOMAIN f \cup {i} |-> IF x = i THEN v ELSE f[x]]
Busy == {w \in Writers : write[w] # NoWrite}

-----------------------------------------------------------------------------
(* The file.                                                               *)

\* The spec of a service is kept for one that was installed as a kind.
Entry(s) == [kind |-> s.kind, hcl |-> s.hcl /\ s.kind # "none"]

Saved(svcs) == [i \in DOMAIN svcs |-> Entry(svcs[i])]

\* persist: the snapshot is taken at once; the directory is made, the file is
\* emptied and written later.
persist(svcs) ==
  /\ \E w \in Writers \ Busy : write' = [write EXCEPT ![w] = [at |-> "mkdir", snap |-> Saved(svcs)]]
  /\ crossed' = (crossed \/ Busy # {} \/ reload # Absent)
  /\ changes < MaxChanges /\ changes' = changes + 1

writeOpen(w) ==
  /\ write[w].at = "mkdir"
  /\ write' = [write EXCEPT ![w].at = "open"] /\ file' = Torn
  /\ UNCHANGED <<services, adapterSeen, reload, running, history>>

\* Two writes at once may leave the end of the longer text behind.
writeDone(w) ==
  /\ write[w].at = "open"
  /\ file' \in {write[w].snap} \cup (IF Cardinality(Busy) > 1 THEN {Torn} ELSE {})
  /\ write' = [write EXCEPT ![w] = NoWrite]
  /\ UNCHANGED <<services, adapterSeen, reload, running, history>>

\* What load makes of the file: nobody is heard of yet, and what the file does
\* not have, as the URL, is kept from the memory.
Loaded(content) ==
  [i \in DOMAIN content |->
    [kind |-> IF content[i].kind = "none" /\ i \in DOMAIN services THEN services[i].kind ELSE content[i].kind,
     consumers |-> {},
     hcl |-> content[i].hcl \/ (i \in DOMAIN services /\ services[i].hcl),
     url |-> i \in DOMAIN services /\ services[i].url]]

\* POST /api/services/reload: the file is read, ...
reloadRead ==
  /\ running /\ reload = Absent /\ file # Torn
  /\ reload' = [content |-> IF file = Absent THEN <<>> ELSE file]
  /\ crossed' = (crossed \/ Busy # {})
  /\ UNCHANGED <<services, adapterSeen, file, write, running, callsIn, installed, changes, crashes>>

\* ... and taken for the services, whatever was registered meanwhile.
load ==
  /\ reload # Absent
  /\ services' = Loaded(reload.content) /\ adapterSeen' = <<>> /\ reload' = Absent
  /\ UNCHANGED <<file, write, running, history>>

-----------------------------------------------------------------------------
(* Services come and go.                                                   *)

\* register: what the descriptor leaves out is kept from before.
Merged(i, d) ==
  LET old == IF i \in DOMAIN services THEN services[i]
             ELSE [kind |-> "none", hcl |-> FALSE, url |-> FALSE, consumers |-> {}] IN
  [old EXCEPT !.kind = IF d.kind # "none" THEN d.kind ELSE old.kind,
              !.hcl = old.hcl \/ d.hcl, !.url = old.url \/ d.url]

register(i, d) ==
  /\ running /\ services' = With(services, i, Merged(i, d))
  /\ installed' = IF d.kind = "nomad" /\ d.hcl THEN installed \cup {i} ELSE installed
  /\ persist(services')
  /\ UNCHANGED <<adapterSeen, file, reload, running, callsIn, crashes>>

\* Mutant: what is forgotten is forgotten in memory only.
ForgetInMemory(i) == /\ UNCHANGED <<write, crossed>>
                     /\ changes < MaxChanges /\ changes' = changes + 1

ForgetIn(i) == persist(Without(services, i))

forget(i) ==
  /\ running /\ i \in DOMAIN services
  /\ services' = Without(services, i) /\ adapterSeen' = Without(adapterSeen, i)
  /\ ForgetIn(i)
  /\ installed' = installed \ {i}
  /\ UNCHANGED <<file, reload, running, callsIn, crashes>>

-----------------------------------------------------------------------------
(* Consumers.                                                              *)

Fresh(seen) == {a \in DOMAIN seen : seen[a] = "fresh"}

\* pruneAdapters: a service nobody called for keeps the list it has.
pruneAdapters(seen, i) ==
  IF i \notin DOMAIN seen THEN UNCHANGED services /\ adapterSeen' = seen
  ELSE /\ adapterSeen' = [seen EXCEPT ![i] = [a \in Fresh(seen[i]) |-> "fresh"]]
       /\ services' = [services EXCEPT ![i].consumers = Fresh(seen[i])]

get(i) ==
  /\ running /\ i \in DOMAIN services /\ pruneAdapters(adapterSeen, i)
  /\ UNCHANGED <<file, write, reload, running, history>>

\* What get answers, without its effect on the maps.
hasActiveConsumer(i) ==
  i \in DOMAIN services /\
  (IF i \in DOMAIN adapterSeen THEN Fresh(adapterSeen[i]) ELSE services[i].consumers) # {}

addAdapter(i, a) ==
  /\ running /\ i \in DOMAIN services
  /\ LET seen == IF i \in DOMAIN adapterSeen THEN adapterSeen[i] ELSE <<>> IN
     pruneAdapters(With(adapterSeen, i, With(seen, a, "fresh")), i)
  /\ callsIn' = [callsIn EXCEPT ![i] = @ \cup {a}]
  /\ UNCHANGED <<file, write, reload, running, installed, crossed, changes, crashes>>

removeAdapter(i, a) ==
  /\ running /\ i \in DOMAIN services
  /\ IF i \in DOMAIN adapterSeen
     THEN pruneAdapters([adapterSeen EXCEPT ![i] = Without(adapterSeen[i], a)], i)
     ELSE services' = [services EXCEPT ![i].consumers = @ \ {a}] /\ UNCHANGED adapterSeen
  /\ callsIn' = [callsIn EXCEPT ![i] = @ \ {a}]
  /\ UNCHANGED <<file, write, reload, running, installed, crossed, changes, crashes>>

TtlPasses(i, a) ==
  /\ a \in callsIn[i] /\ callsIn' = [callsIn EXCEPT ![i] = @ \ {a}]
  /\ adapterSeen' = IF i \in DOMAIN adapterSeen /\ a \in DOMAIN adapterSeen[i]
                    THEN [adapterSeen EXCEPT ![i][a] = "old"] ELSE adapterSeen
  /\ UNCHANGED <<services, file, write, reload, running, installed, crossed, changes, crashes>>

-----------------------------------------------------------------------------
\* The server stops between any two steps; a write that was open leaves its
\* part.  It does not start with a file that is no JSON.
CrashRegistry ==
  /\ running /\ crashes < MaxCrashes /\ crashes' = crashes + 1
  /\ running' = FALSE
  /\ services' = <<>> /\ adapterSeen' = <<>> /\ reload' = Absent
  /\ write' = [w \in Writers |-> NoWrite]
  /\ crossed' = (crossed \/ Busy # {})
  /\ UNCHANGED <<file, callsIn, installed, changes>>

StartRegistry ==
  /\ ~running /\ file # Torn /\ running' = TRUE
  /\ services' = Loaded(IF file = Absent THEN <<>> ELSE file)
  /\ UNCHANGED <<adapterSeen, file, write, reload, history>>

RegistryNext ==
  \/ \E w \in Writers : writeOpen(w) \/ writeDone(w)
  \/ \E i \in ServiceIds :
       \/ \E d \in Descriptors : register(i, d)
       \/ forget(i) \/ get(i)
       \/ \E a \in Adapters : addAdapter(i, a) \/ removeAdapter(i, a) \/ TtlPasses(i, a)
  \/ reloadRead \/ load \/ CrashRegistry \/ StartRegistry

RegistrySpec == RegistryInit /\ [][RegistryNext]_registryVars

-----------------------------------------------------------------------------
(* Properties.                                                             *)

\* A service counts as live, and jobs and searches are sent to it, only when
\* one of its consumers called within the TTL and was not taken away since:
\* a reload, a new registration and a service that was forgotten and comes
\* back included (registry.ts:136-165).
ActiveMeansSeen ==
  \A i \in ServiceIds : hasActiveConsumer(i) => callsIn[i] # {}

\* When no write is under way the file holds the services as they are, unless
\* writes met each other, a reload or a stop before.
FileIsCurrent ==
  (running /\ Busy = {} /\ ~crossed) =>
    file = Saved(services) \/ (file = Absent /\ services = <<>>)

\* A service installed with its Nomad spec can be started and stopped with it
\* until it is forgotten: its consumer registering without one, reloads and
\* restarts included (registry.ts:123-124, 172).
SpecSurvives ==
  (running /\ ~crossed) => \A i \in installed : i \in DOMAIN services /\ services[i].hcl

\* What the registry tells is so, in memory, in its file and after a restart.
RegistryIsKept == ActiveMeansSeen /\ FileIsCurrent /\ SpecSurvives
=============================================================================
