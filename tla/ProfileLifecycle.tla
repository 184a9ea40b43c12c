--------------------------- MODULE ProfileLifecycle ---------------------------
(***************************************************************************)
(* The life of a response-surface profile: a server measures cells under   *)
(* one runtime identity and exports them as a document, an operator stores *)
(* the document in a file and pins its digest, and a later server loads    *)
(* it as a prior.  Parts: load_profile and create (profile.py, sglang.py), *)
(* refresh_identity and profile_snapshot (sglang.py), the constructor, the *)
(* rotation and the snapshot of Governor (core.py), and the endpoint that  *)
(* hands the document out (http.py).                                       *)
(*                                                                         *)
(* The load is not atomic: the path is looked at, opened, looked at again  *)
(* and read, while the operator may replace, rewrite or link the file, the *)
(* runtime may change, and time passes.  Only a starting server looks at   *)
(* the file: in the meantime it is unknown, and what the operator has made *)
(* of it is chosen when a server starts.  Wall and monotonic clock advance *)
(* together; steps of the wall clock are left out.                         *)
(***************************************************************************)
EXTENDS RuntimeProfile

CONSTANTS
  Measured,    \* the keys of the cells the load reaches
  Runtimes,    \* the identities the runtime takes
  Seeds,       \* documents certified before the first server starts
  Inodes,      \* files
  NoInode, NoIdentity,
  FirstClock,  \* the clock when the first server may start
  WINDOW,      \* age up to which evidence qualifies a cell
  START_DELAY, \* bound: time create takes to use a validated profile
  CONTROL_TIMEOUT, \* bound: time an envelope travels to the server process
  MaxClock     \* bound: clock

ASSUME LifecycleAssumption ==
  /\ Measured \subseteq Keys
  /\ Runtimes \subseteq Identity /\ NoIdentity \notin Identity
  /\ WINDOW \in Nat /\ START_DELAY \in Nat
  /\ FirstClock \in Nat /\ MaxClock \in Nat
  /\ CONTROL_TIMEOUT \in Nat /\ CONTROL_TIMEOUT < VALID_FOR
  /\ NoInode \notin Inodes

\* A certified document tells what was measured when it was made, one cell to
\* a key.
ASSUME SeedsAreCertified ==
  \A d \in Seeds :
    /\ d \in Document /\ IsFiniteSet(d.cells)
    /\ \A b, c \in d.cells : b.key = c.key => b = c
    /\ d.created <= FirstClock
    /\ d.until = d.created + VALID_FOR
    /\ \A c \in d.cells : /\ c.at <= d.created /\ d.created <= c.at + WINDOW
                          /\ c.by = d.identity

VARIABLES
  clock,    \* wall and monotonic time
  runtime,  \* what the identity provider returns
  path,     \* what the configured path names: [kind, inode]
  contents, \* contents[i]: the document in file i, or Torn
  held,     \* the last document the operator has got
  server,   \* the scheduler's process: [status, online, identity, paused, busy]
  loading,  \* the local variables of create, bootstrap_profile and load_profile
  touched,  \* history: the file was changed since the server started
  live,     \* core: the cells measured in this epoch
  prior,    \* core: profile_prior and profile_deadline
  mirror,   \* Governor: _profile_cell_count and _profile_expires_at
  loaded    \* SglangGovernor: loaded_profile

fileVars == <<path, contents, touched>>
coreVars == <<live, prior, mirror, loaded>>
vars == <<clock, runtime, held, server, loading, fileVars, coreVars>>

Never == 0
NoPrior == [cells |-> {}, deadline |-> Never]
NoMirror == [count |-> 0, expires |-> Never]

Statuses == {"down", "starting", "up", "failed"}
Steps == {"done", "config", "lstat", "open", "check", "read", "validate", "create"}

Servers ==
  [status : Statuses, online : BOOLEAN, identity : Identity \cup {NoIdentity},
   paused : BOOLEAN, busy : BOOLEAN]

Up == server.status = "up"
Starting(step) == server.status = "starting" /\ loading.at = step

Down ==
  [ status |-> "down", online |-> FALSE, identity |-> NoIdentity, paused |-> FALSE,
    busy |-> FALSE ]

NotLoading ==
  [ at |-> "done", pinned |-> NoDocument, before |-> NoInode, opened |-> NoInode,
    data |-> NoDocument, ttl |-> 0, wall |-> 0 ]

Unknown == [kind |-> "none", inode |-> NoInode]

Init ==
  /\ clock = FirstClock
  /\ runtime \in Runtimes
  /\ held \in Seeds
  /\ server = Down
  /\ loading = NotLoading
  /\ path = Unknown
  /\ contents = [i \in Inodes |-> Torn]
  /\ touched = FALSE
  /\ live = {}
  /\ prior = NoPrior /\ mirror = NoMirror /\ loaded = NoDocument

-----------------------------------------------------------------------------
(* The operator, while a server starts.                                    *)

\* The path is made to name a file, or a symbolic link to one, or nothing.
Place(kind, i) ==
  /\ server.status = "starting"
  /\ path' = [kind |-> kind, inode |-> i]
  /\ path' # path
  /\ touched' = TRUE
  /\ UNCHANGED <<clock, runtime, held, server, loading, contents, coreVars>>

\* The operator writes the document that was read last, or an older one.
Available == {held} \cup Seeds

\* A file is rewritten in place: it is torn until all of it is written.
Rewrite(i) ==
  /\ server.status = "starting"
  /\ \E d \in IF contents[i] = Torn THEN Available ELSE {Torn} :
       contents' = [contents EXCEPT ![i] = d]
  /\ touched' = TRUE
  /\ UNCHANGED <<clock, runtime, held, server, loading, path, coreVars>>

-----------------------------------------------------------------------------
(* create, up to the profile.                                              *)

\* The environment names neither a path nor a digest.
StartOnline ==
  /\ server.status = "down"
  /\ server' = [Down EXCEPT !.status = "starting", !.online = TRUE, !.identity = runtime]
  /\ loading' = [NotLoading EXCEPT !.at = "create"]
  /\ UNCHANGED <<clock, runtime, held, fileVars, coreVars>>

\* It names both: the path may not be what the operator meant it to be.
StartWithProfile ==
  /\ server.status = "down"
  /\ server' = [Down EXCEPT !.status = "starting", !.identity = runtime]
  /\ loading' = [NotLoading EXCEPT !.at = "lstat", !.pinned = held]
  /\ path' \in [kind : {"file", "link"}, inode : Inodes] \cup {Unknown}
  /\ contents' \in [Inodes -> Available \cup {Torn}]
  /\ UNCHANGED <<clock, runtime, held, touched, coreVars>>

\* Only one of the two, a limit out of range, an identity without its fields.
Misconfigured ==
  /\ server.status = "down"
  /\ server' = [server EXCEPT !.status = "failed"]
  /\ loading' = [NotLoading EXCEPT !.at = "config"]
  /\ UNCHANGED <<clock, runtime, held, fileVars, coreVars>>

\* An exception leaves create and the server does not start.
Refuse ==
  /\ server' = [server EXCEPT !.status = "failed"]
  /\ UNCHANGED loading

Proceed(next) ==
  /\ loading' = next
  /\ UNCHANGED server

-----------------------------------------------------------------------------
(* load_profile.                                                           *)

Lstat ==
  /\ Starting("lstat")
  /\ IF path.kind = "file"
       THEN Proceed([loading EXCEPT !.at = "open", !.before = path.inode])
       ELSE Refuse
  /\ UNCHANGED <<clock, runtime, held, fileVars, coreVars>>

\* open follows links.
Open ==
  /\ Starting("open")
  /\ IF path.kind # "none"
       THEN Proceed([loading EXCEPT !.at = "check", !.opened = path.inode])
       ELSE Refuse
  /\ UNCHANGED <<clock, runtime, held, fileVars, coreVars>>

\* What was opened is what the path named before and names after.
SameFile ==
  /\ loading.opened = loading.before
  /\ path.kind = "file" /\ path.inode = loading.opened

CheckOpened ==
  /\ Starting("check")
  /\ IF SameFile THEN Proceed([loading EXCEPT !.at = "read"]) ELSE Refuse
  /\ UNCHANGED <<clock, runtime, held, fileVars, coreVars>>

Read ==
  /\ Starting("read")
  /\ LET data == contents[loading.opened] IN
       IF Authentic(data, loading.pinned)
         THEN Proceed([loading EXCEPT !.at = "validate", !.data = data])
         ELSE Refuse
  /\ UNCHANGED <<clock, runtime, held, fileVars, coreVars>>

\* Mutant: the file is read again after its digest was taken.
Validate_ReadAgain ==
  /\ Starting("validate")
  /\ LET data == contents[loading.opened] IN
       IF data # Torn /\ Valid(data, server.identity, clock)
         THEN Proceed([loading EXCEPT !.at = "create", !.wall = clock, !.data = data,
                                      !.ttl = data.until - clock])
         ELSE Refuse
  /\ UNCHANGED <<clock, runtime, held, fileVars, coreVars>>

Validate ==
  /\ Starting("validate")
  /\ IF Valid(loading.data, server.identity, clock)
       THEN Proceed([loading EXCEPT !.at = "create", !.wall = clock,
                                    !.ttl = loading.data.until - clock])
       ELSE Refuse
  /\ UNCHANGED <<clock, runtime, held, fileVars, coreVars>>

FileForgotten ==
  path' = Unknown /\ contents' = [i \in Inodes |-> Torn] /\ touched' = FALSE

\* The lifetime starts when create reads the monotonic clock.
Create ==
  /\ Starting("create")
  /\ LET data == loading.data
         deadline == clock + loading.ttl
         none == data = NoDocument
     IN /\ prior' = IF none THEN NoPrior ELSE [cells |-> data.cells, deadline |-> deadline]
        /\ mirror' = IF none THEN NoMirror
                     ELSE [count |-> Cardinality(data.cells), expires |-> deadline]
        /\ loaded' = data
  /\ server' = [server EXCEPT !.status = "up"]
  /\ loading' = [NotLoading EXCEPT !.pinned = loading.pinned]
  /\ FileForgotten
  /\ UNCHANGED <<clock, runtime, held, live>>

-----------------------------------------------------------------------------
(* refresh_identity.                                                       *)

Moved == runtime # server.identity

\* Mutant: a pause ends when the runtime is what it was.
Transition_Reconsidered == Moved

Transition == server.paused \/ Moved
Pauses == Transition /\ server.busy
Rotates == Transition /\ ~server.busy

\* Mutant: Governor keeps the numbers of a prior that the core has dropped.
RotateEpoch_MirrorKept ==
  /\ live' = {}
  /\ prior' = NoPrior
  /\ UNCHANGED mirror
  /\ loaded' = NoDocument

RotateEpoch ==
  /\ live' = {}
  /\ prior' = NoPrior
  /\ mirror' = NoMirror
  /\ loaded' = NoDocument

RefreshedServer ==
  IF Rotates THEN [server EXCEPT !.identity = runtime, !.paused = FALSE]
  ELSE [server EXCEPT !.paused = Pauses]

Refresh == IF Rotates THEN RotateEpoch ELSE UNCHANGED coreVars

\* policy_snapshot, or another call that does no more to the profile.
Poll ==
  /\ Up /\ Transition
  /\ server' = RefreshedServer
  /\ Refresh
  /\ UNCHANGED <<clock, runtime, held, loading, fileVars>>

\* A request is admitted: requests are in flight from now on.
Admit ==
  /\ Up /\ ~server.busy
  /\ server' = [RefreshedServer EXCEPT !.busy = TRUE]
  /\ Refresh
  /\ UNCHANGED <<clock, runtime, held, loading, fileVars>>

\* The last request is released.
Drain ==
  /\ Up /\ server.busy
  /\ server' = [server EXCEPT !.busy = FALSE]
  /\ UNCHANGED <<clock, runtime, held, loading, fileVars, coreVars>>

\* A batch gives a cell the exposure that qualifies it.
Measure(k) ==
  /\ Up /\ server.busy
  /\ server' = RefreshedServer
  /\ live' = {c \in live : c.key # k} \cup {[key |-> k, at |-> clock, by |-> runtime]}
  /\ UNCHANGED <<clock, runtime, held, loading, fileVars, prior, mirror, loaded>>

-----------------------------------------------------------------------------
(* Exporting.                                                              *)

PriorActive == clock < prior.deadline
ActivePrior == IF PriorActive THEN prior.cells ELSE {}

Qualified(cells, now) == {c \in cells : now <= c.at + WINDOW}

\* Mutant: what admission may use is what is exported.
Exported_WithPrior == Qualified(live, clock) \cup ActivePrior

\* Only live evidence is exported, never a prior.
Exported == Qualified(live, clock)

\* The server process checks what it got; the operator keeps the document.
Receive(envelope) ==
  held' = IF EnvelopeAccepted(envelope, clock) THEN envelope.profile ELSE held

\* The operator reads the profile.  During a transition there is none, a server
\* with an online identity has no document, and the read that ends a
\* transition finds nothing measured.
ReadProfile ==
  /\ Up /\ ~Pauses /\ ~server.online
  /\ server' = RefreshedServer
  /\ Refresh
  /\ Receive(Envelope(server'.identity, IF Rotates THEN {} ELSE Exported, FALSE, clock))
  /\ UNCHANGED <<clock, runtime, loading, fileVars>>

-----------------------------------------------------------------------------
(* The environment.                                                        *)

ChangeRuntime(i) ==
  /\ i # runtime
  /\ runtime' = i
  /\ UNCHANGED <<clock, held, server, loading, fileVars, coreVars>>

\* The process ends, on its own, by a crash or because it refused to start.
Stop ==
  /\ server.status # "down"
  /\ server' = Down
  /\ loading' = NotLoading
  /\ FileForgotten
  /\ live' = {} /\ prior' = NoPrior /\ mirror' = NoMirror /\ loaded' = NoDocument
  /\ UNCHANGED <<clock, runtime, held>>

\* Cells that have left the window are forgotten: they qualify no more.
Tick ==
  /\ clock < MaxClock
  /\ Starting("create") /\ loading.data # NoDocument => clock < loading.wall + START_DELAY
  /\ clock' = clock + 1
  /\ live' = Qualified(live, clock + 1)
  /\ UNCHANGED <<runtime, held, server, loading, fileVars, prior, mirror, loaded>>

Load == Lstat \/ Open \/ CheckOpened \/ Read \/ Validate \/ Create

Next ==
  \/ \E i \in Inodes : Place("file", i) \/ Place("link", i) \/ Rewrite(i)
  \/ Place("none", NoInode)
  \/ StartOnline \/ StartWithProfile \/ Misconfigured
  \/ Load
  \/ Poll \/ Admit \/ Drain \/ ReadProfile
  \/ \E k \in Measured : Measure(k)
  \/ \E i \in Runtimes : ChangeRuntime(i)
  \/ Stop \/ Tick

Spec == Init /\ [][Next]_vars

-----------------------------------------------------------------------------
(* Properties.                                                             *)

Loadings ==
  [ at : Steps, pinned : Document \cup {NoDocument}, before : Inodes \cup {NoInode},
    opened : Inodes \cup {NoInode}, data : Document \cup {NoDocument}, ttl : Nat, wall : Nat ]

TypeOK ==
  /\ clock \in Nat
  /\ runtime \in Identity
  /\ path \in [kind : {"file", "link", "none"}, inode : Inodes \cup {NoInode}]
  /\ contents \in [Inodes -> Document \cup {Torn}]
  /\ held \in Document
  /\ server \in Servers
  /\ loading \in Loadings
  /\ touched \in BOOLEAN
  /\ live \subseteq Cell
  /\ prior \in [cells : SUBSET Cell, deadline : Nat]
  /\ mirror \in [count : Nat, expires : Nat]
  /\ loaded \in Document \cup {NoDocument}

\* What is measured under i is conservative for a server that runs under j: the
\* settings are the same, and there is no less memory for the same load.
Conservative(i, j) == i.static = j.static /\ i.capacity <= j.capacity

\* No forecast rests on old evidence: whatever the number of servers a profile
\* has gone through, a prior in use was measured within one lifetime of a
\* profile, the window of the cell, and the time a start takes.
PriorFresh ==
  \A c \in ActivePrior : clock < c.at + VALID_FOR + WINDOW + START_DELAY

\* Nor on evidence of another runtime: while admission is open, a prior in use
\* was measured under the static settings that serve now and with no more
\* capacity, although the runtime may have changed while the cell was measured,
\* while the document was exported, and while the server started.
PriorFits ==
  Up /\ ~Transition => \A c \in ActivePrior : Conservative(c.by, runtime)

\* snapshot counts the prior cells from the numbers that Governor keeps of
\* the load; they are the cells the core uses, and profile_bootstrap names
\* the document they come from.
ReportedCells == IF clock < mirror.expires THEN mirror.count ELSE 0

PriorReported ==
  /\ ReportedCells = Cardinality(ActivePrior)
  /\ prior.cells # {} => loaded # NoDocument /\ prior.cells = loaded.cells

\* A server that serves with a profile has the document that was pinned when
\* it was started, whatever happened to the file meanwhile.
PinnedIsLoaded ==
  Up /\ loaded # NoDocument => loaded = loading.pinned

\* A server refuses to start only for a reason that lies in its surroundings,
\* with one exception: a configuration error, a file that is not the pinned
\* document or was changed meanwhile, an expired profile, an incompatible
\* runtime, or a document larger than the reader accepts.  The last one is
\* the exporter's: it does not look at the size of what it hands out.
ExportsLoad ==
  server.status = "failed" =>
    \/ loading.at = "config"
    \/ touched
    \/ path.kind # "file"
    \/ contents[path.inode] # loading.pinned
    \/ Cardinality(loading.pinned.cells) > MaxCells
    \/ clock >= loading.pinned.until
    \/ ~Conservative(loading.pinned.identity, server.identity)
=============================================================================
