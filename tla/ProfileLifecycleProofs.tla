------------------------ MODULE ProfileLifecycleProofs ------------------------
(***************************************************************************)
(* A prior in use is fresh, fits the runtime and is reported, and an       *)
(* export loads, for any number of servers, documents, files and runtimes. *)
(*                                                                         *)
(* The argument goes around with the document: what is exported certifies  *)
(* its cells (Certified) because the cells measured in an epoch are those  *)
(* of its identity until a transition begins (MeasuredOK); what is held,   *)
(* stored, pinned and loaded is a certified document (DocumentsOK,         *)
(* LoadingOK); and a server's prior is that of the document it loaded      *)
(* under the identity it still has (PriorOK).  That exports load needs, in *)
(* addition, that documents have one cell to a key and that the load of an *)
(* untouched file sees one file throughout (LoadsOK).                      *)
(***************************************************************************)
EXTENDS ProfileLifecycle, FiniteSetTheorems, TLAPS

Certified(d) ==
  /\ d \in Document /\ IsFiniteSet(d.cells)
  /\ d.until = d.created + VALID_FOR
  /\ \A c \in d.cells : /\ c.at <= d.created /\ d.created <= c.at + WINDOW
                        /\ c.by = d.identity

\* Files are torn or hold a document.
DocumentsOK ==
  /\ Certified(held)
  /\ contents \in [Inodes -> Document \cup {Torn}]
  /\ path \in [kind : {"file", "link", "none"}, inode : Inodes \cup {NoInode}]
  /\ touched \in BOOLEAN

\* What create knows at each of its steps.
LoadingOK ==
  /\ loading = [ at |-> loading.at, pinned |-> loading.pinned,
                 before |-> loading.before, opened |-> loading.opened,
                 data |-> loading.data, ttl |-> loading.ttl, wall |-> loading.wall ]
  /\ loading.at \in Steps
  /\ loading.before \in Inodes \cup {NoInode}
  /\ loading.opened \in Inodes \cup {NoInode}
  /\ loading.ttl \in Nat /\ loading.wall \in Nat
  /\ loading.pinned = NoDocument \/ Certified(loading.pinned)
  /\ loading.data = NoDocument \/ Certified(loading.data)
  /\ loading.at \in {"lstat", "open", "check", "read"} =>
       loading.data = NoDocument /\ Certified(loading.pinned)
  /\ loading.at = "validate" =>
       loading.data = loading.pinned /\ Certified(loading.data)
  /\ Starting("create") /\ loading.data # NoDocument =>
       /\ loading.data = loading.pinned /\ Certified(loading.data)
       /\ Compatible(loading.data.identity, server.identity)
       /\ loading.wall + loading.ttl = loading.data.until
       /\ clock <= loading.wall + START_DELAY

\* What the core has measured, and under which identity while no transition
\* has begun.
MeasuredOK ==
  /\ live \subseteq Cell /\ IsFiniteSet(live)
  /\ \A c \in live : c.at <= clock
  /\ ~server.paused => \A c \in live : c.by = server.identity

\* A server without a loaded document has no prior.
PriorOK ==
  \/ loaded = NoDocument /\ prior = NoPrior /\ mirror = NoMirror
  \/ /\ Up /\ Certified(loaded) /\ loaded = loading.pinned
     /\ Compatible(loaded.identity, server.identity)
     /\ prior = [cells |-> loaded.cells, deadline |-> prior.deadline]
     /\ prior.deadline \in Nat /\ prior.deadline <= loaded.until + START_DELAY
     /\ mirror = [count |-> Cardinality(loaded.cells), expires |-> prior.deadline]

ServerOK ==
  /\ clock \in Nat /\ runtime \in Identity
  /\ server \in Servers
  /\ server.status \in {"starting", "up"} => server.identity \in Identity
  /\ ~Up => live = {} /\ loaded = NoDocument

IInv == DocumentsOK /\ LoadingOK /\ MeasuredOK /\ PriorOK /\ ServerOK

-----------------------------------------------------------------------------
(* Documents.                                                              *)

\* What is exported is certified.
LEMMA BuiltIsCertified ==
  ASSUME NEW identity \in Identity, NEW cells \in SUBSET Cell, NEW wall \in Nat,
         IsFiniteSet(cells),
         \A c \in cells : c.at <= wall /\ wall <= c.at + WINDOW /\ c.by = identity
  PROVE  Certified(Built(identity, cells, wall))
BY ProfileAssumption DEF Certified, Built, Document

\* The empty set is finite.
LEMMA EmptyIsFinite == IsFiniteSet({}) /\ Cardinality({}) = 0
BY FS_EmptySet

\* No server runs and no document is kept at first.
LEMMA InitIInv == Init => IInv
<1> SUFFICES ASSUME Init PROVE IInv
  OBVIOUS
<1>1. Certified(held)
  BY SeedsAreCertified DEF Init, Certified
<1>2. DocumentsOK
  BY <1>1 DEF Init, DocumentsOK, Unknown
<1>3. LoadingOK
  BY DEF Init, LoadingOK, NotLoading, Steps, Starting, Down
<1>4. MeasuredOK /\ PriorOK
  BY EmptyIsFinite DEF Init, MeasuredOK, PriorOK
<1>5. ServerOK
  BY LifecycleAssumption DEF Init, ServerOK, Servers, Statuses, Down, Up
<1> QED
  BY <1>2, <1>3, <1>4, <1>5 DEF IInv

-----------------------------------------------------------------------------
(* A server starts: what is measured and loaded does not change.           *)

\* Steps that neither serve nor end a start keep these three.
LEMMA NotServing ==
  ASSUME IInv, UNCHANGED <<clock, runtime, held, coreVars>>, ~Up, ~Up',
         server' \in Servers,
         server'.status = "starting" => server'.identity \in Identity
  PROVE  MeasuredOK' /\ PriorOK' /\ ServerOK'
<1>1. live' = {} /\ loaded' = NoDocument /\ prior' = NoPrior /\ mirror' = NoMirror
  BY DEF IInv, ServerOK, PriorOK, coreVars
<1> QED
  BY <1>1, EmptyIsFinite
     DEF IInv, MeasuredOK, PriorOK, ServerOK, Up, coreVars

\* The operator places, links, rewrites and removes files.
LEMMA FileSteps ==
  ASSUME IInv,
         \/ \E i \in Inodes : Place("file", i) \/ Place("link", i) \/ Rewrite(i)
         \/ Place("none", NoInode)
  PROVE  IInv'
<1>1. /\ UNCHANGED <<clock, runtime, held, server, loading, coreVars>>
      /\ ~Up /\ ~Up' /\ touched' = TRUE
  BY DEF Place, Rewrite, Up
<1>2. contents' \in [Inodes -> Document \cup {Torn}]
  BY SeedsAreCertified DEF Place, Rewrite, IInv, DocumentsOK, Certified, Available
<1>3. path' \in [kind : {"file", "link", "none"}, inode : Inodes \cup {NoInode}]
  BY DEF Place, Rewrite, IInv, DocumentsOK
<1>4. DocumentsOK'
  BY <1>1, <1>2, <1>3 DEF IInv, DocumentsOK, Certified
<1>5. LoadingOK'
  BY <1>1 DEF IInv, LoadingOK, Certified, Compatible, Starting
<1> QED
  BY <1>1, <1>4, <1>5, NotServing DEF IInv, ServerOK

\* A server is started, with or without a profile, or refuses its configuration.
LEMMA StartSteps ==
  ASSUME IInv, StartOnline \/ StartWithProfile \/ Misconfigured
  PROVE  IInv'
<1>1. /\ UNCHANGED <<clock, runtime, held, touched, coreVars>> /\ ~Up /\ ~Up'
      /\ server' \in Servers
      /\ server'.status = "starting" => server'.identity \in Identity
  BY DEF StartOnline, StartWithProfile, Misconfigured, Up, Down, IInv, ServerOK,
         Servers, Statuses, fileVars
<1>2. contents' \in [Inodes -> Document \cup {Torn}]
  BY SeedsAreCertified
     DEF StartOnline, StartWithProfile, Misconfigured, IInv, DocumentsOK, Certified,
         Available, fileVars
<1>3. path' \in [kind : {"file", "link", "none"}, inode : Inodes \cup {NoInode}]
  BY DEF StartOnline, StartWithProfile, Misconfigured, IInv, DocumentsOK, Unknown, fileVars
<1>4. DocumentsOK'
  BY <1>1, <1>2, <1>3 DEF IInv, DocumentsOK, Certified
<1>5. LoadingOK'
  <2>1. CASE StartOnline \/ Misconfigured
    BY <2>1 DEF StartOnline, Misconfigured, LoadingOK, NotLoading, Steps, Starting
  <2>2. CASE StartWithProfile
    <3>1. Certified(held)
      BY DEF IInv, DocumentsOK
    <3> QED
      BY <2>2, <3>1
         DEF StartWithProfile, LoadingOK, NotLoading, Steps, Starting, Certified
  <2> QED
    BY <2>1, <2>2
<1> QED
  BY <1>1, <1>4, <1>5, NotServing DEF IInv

\* The steps of load_profile before the document is there.
LEMMA LookSteps ==
  ASSUME IInv, Lstat \/ Open \/ CheckOpened
  PROVE  IInv'
<1>1. /\ UNCHANGED <<clock, runtime, held, fileVars, coreVars>> /\ ~Up /\ ~Up'
      /\ server' \in Servers
      /\ server'.status = "starting" => server'.identity \in Identity
  BY DEF Lstat, Open, CheckOpened, Proceed, Refuse, Up, Starting, IInv, ServerOK,
         Servers, Statuses
<1>4. DocumentsOK'
  BY <1>1 DEF IInv, DocumentsOK, Certified, fileVars
<1>5. LoadingOK'
  <2>1. CASE Lstat
    BY <2>1 DEF Lstat, Proceed, Refuse, IInv, LoadingOK, DocumentsOK, Steps, Starting,
                Certified
  <2>2. CASE Open
    BY <2>2 DEF Open, Proceed, Refuse, IInv, LoadingOK, DocumentsOK, Steps, Starting,
                Certified
  <2>3. CASE CheckOpened
    BY <2>3 DEF CheckOpened, Proceed, Refuse, IInv, LoadingOK, Steps, Starting,
                Certified
  <2> QED
    BY <2>1, <2>2, <2>3
<1> QED
  BY <1>1, <1>4, <1>5, NotServing DEF IInv

\* A loading server reads the file and validates what it read.
LEMMA ReadSteps ==
  ASSUME IInv, Read \/ Validate
  PROVE  IInv'
<1>1. /\ UNCHANGED <<clock, runtime, held, fileVars, coreVars>> /\ ~Up /\ ~Up'
      /\ server' \in Servers
      /\ server'.status = "starting" => server'.identity \in Identity
  BY DEF Read, Validate, Proceed, Refuse, Up, Starting, IInv, ServerOK, Servers, Statuses
<1>4. DocumentsOK'
  BY <1>1 DEF IInv, DocumentsOK, Certified, fileVars
<1>5. CASE server'.status = "failed"
  <2>1. LoadingOK'
    BY <1>5 DEF Read, Validate, Proceed, Refuse, IInv, LoadingOK, Starting, Certified
  <2> QED
    BY <1>1, <1>4, <2>1, NotServing DEF IInv
<1>6. CASE Read /\ server' = server
  <2>1. /\ Certified(loading.pinned)
        /\ loading' = [loading EXCEPT !.at = "validate", !.data = loading.pinned]
    BY <1>6 DEF Read, Proceed, Refuse, Authentic, IInv, LoadingOK, ServerOK, Servers, Starting
  <2>2. LoadingOK'
    BY <2>1 DEF IInv, LoadingOK, Steps, Starting, Certified
  <2> QED
    BY <1>1, <1>4, <2>2, NotServing DEF IInv
<1>7. CASE Validate /\ server' = server
  <2>1. /\ Certified(loading.data) /\ loading.data = loading.pinned
        /\ Valid(loading.data, server.identity, clock)
        /\ loading' = [loading EXCEPT !.at = "create", !.wall = clock,
                                      !.ttl = loading.data.until - clock]
    BY <1>7 DEF Validate, Proceed, Refuse, IInv, LoadingOK, ServerOK, Servers, Starting
  <2>2. /\ loading.data.until \in Nat /\ clock \in Nat /\ START_DELAY \in Nat
        /\ loading.data.until - clock \in Nat
    BY <2>1, LifecycleAssumption DEF Certified, Document, Valid, IInv, ServerOK
  <2>a. loading' = [ at |-> "create", pinned |-> loading.pinned,
                     before |-> loading.before, opened |-> loading.opened,
                     data |-> loading.data, ttl |-> loading.data.until - clock,
                     wall |-> clock ]
    BY <2>1 DEF IInv, LoadingOK
  <2>b. /\ clock' = clock /\ server' = server
        /\ clock + (loading.data.until - clock) = loading.data.until
        /\ clock <= clock + START_DELAY
    BY <1>1, <1>7, <2>2
  <2>c. /\ loading'.at = "create" /\ loading'.pinned = loading.pinned
        /\ loading'.before = loading.before /\ loading'.opened = loading.opened
        /\ loading'.data = loading.data
        /\ loading'.ttl = loading.data.until - clock /\ loading'.wall = clock
    BY <2>a
  <2>d. /\ loading' = [ at |-> loading'.at, pinned |-> loading'.pinned,
                        before |-> loading'.before, opened |-> loading'.opened,
                        data |-> loading'.data, ttl |-> loading'.ttl, wall |-> loading'.wall ]
        /\ loading'.ttl \in Nat /\ loading'.wall \in Nat /\ loading'.at \in Steps
        /\ loading'.wall + loading'.ttl = loading'.data.until
        /\ clock' <= loading'.wall + START_DELAY
    BY <2>2, <2>a, <2>b, <2>c DEF Steps
  <2>e. /\ loading'.before \in Inodes \cup {NoInode} /\ loading'.opened \in Inodes \cup {NoInode}
        /\ loading'.data = loading'.pinned /\ Certified(loading'.data)
        /\ Compatible(loading'.data.identity, server'.identity)
    BY <2>1, <2>b, <2>c DEF IInv, LoadingOK, Valid
  <2>3. LoadingOK'
    BY <2>c, <2>d, <2>e DEF LoadingOK, Starting
  <2> QED
    BY <1>1, <1>4, <2>3, NotServing DEF IInv
<1> QED
  BY <1>5, <1>6, <1>7 DEF Read, Validate, Proceed, Refuse, IInv, ServerOK, Servers

\* The server is created with what it loaded, or without.
LEMMA CreateStep == ASSUME IInv, Create PROVE IInv'
<1>1. DocumentsOK'
  BY DEF Create, FileForgotten, IInv, DocumentsOK, Certified, Unknown
<1>2. LoadingOK'
  BY DEF Create, IInv, LoadingOK, NotLoading, Steps, Starting, Certified
<1>3. ServerOK'
  BY DEF Create, IInv, ServerOK, Servers, Statuses, Starting, Up
<1>4. MeasuredOK'
  BY EmptyIsFinite DEF Create, IInv, MeasuredOK, ServerOK, Starting, Up
<1>5. PriorOK'
  <2>1. CASE loading.data = NoDocument
    BY <2>1 DEF Create, PriorOK
  <2>2. CASE loading.data # NoDocument
    <3> DEFINE d == loading.data
    <3>1. /\ Certified(d) /\ d = loading.pinned
          /\ Compatible(d.identity, server.identity)
          /\ loading.wall + loading.ttl = d.until
          /\ clock <= loading.wall + START_DELAY
          /\ loading.ttl \in Nat /\ loading.wall \in Nat
      BY <2>2 DEF Create, IInv, LoadingOK
    <3>2. /\ clock + loading.ttl \in Nat
          /\ clock + loading.ttl <= d.until + START_DELAY
      BY <3>1, LifecycleAssumption DEF IInv, ServerOK, Certified, Document
    <3>3. /\ loaded' = d /\ loading'.pinned = loading.pinned
          /\ prior' = [cells |-> d.cells, deadline |-> clock + loading.ttl]
          /\ mirror' = [count |-> Cardinality(d.cells), expires |-> clock + loading.ttl]
          /\ server'.identity = server.identity /\ Up'
      BY <2>2 DEF Create, IInv, LoadingOK, ServerOK, Servers, NotLoading, Up
    <3> QED
      BY <3>1, <3>2, <3>3 DEF PriorOK, Certified, Compatible
  <2> QED
    BY <2>1, <2>2
<1> QED
  BY <1>1, <1>2, <1>3, <1>4, <1>5 DEF IInv

-----------------------------------------------------------------------------
(* A server serves.                                                        *)

\* Whatever else a call does to a server that is up, what it loaded stays.
LEMMA ServingKeepsLoading ==
  ASSUME IInv, Up, Up', UNCHANGED <<loading, contents, path, touched>>,
         Certified(held)'
  PROVE  DocumentsOK' /\ LoadingOK'
<1>1. DocumentsOK'
  BY DEF IInv, DocumentsOK, Certified
<1>2. LoadingOK'
  BY DEF IInv, LoadingOK, Starting, Up, Certified
<1> QED
  BY <1>1, <1>2

\* The refresh of the identity that precedes the calls.
LEMMA RefreshSteps ==
  ASSUME IInv, Up, Refresh, UNCHANGED <<clock, runtime, loading, fileVars>>,
         NEW b \in BOOLEAN, server' = [RefreshedServer EXCEPT !.busy = b],
         Certified(held)'
  PROVE  IInv'
<1>1. /\ server \in Servers /\ server.status = "up" /\ server.identity \in Identity
      /\ runtime \in Identity
  BY DEF IInv, ServerOK, Up
<1>2. CASE Rotates
  <2>1. server' = [server EXCEPT !.identity = runtime, !.paused = FALSE, !.busy = b]
    BY <1>1, <1>2 DEF RefreshedServer, Servers
  <2>2. /\ server' \in Servers /\ server'.status = "up" /\ server'.identity = runtime
    BY <1>1, <2>1 DEF Servers
  <2>3. /\ live' = {} /\ prior' = NoPrior /\ mirror' = NoMirror /\ loaded' = NoDocument
    BY <1>2 DEF Refresh, RotateEpoch
  <2>4. MeasuredOK' /\ PriorOK' /\ ServerOK'
    BY <1>1, <2>2, <2>3, EmptyIsFinite DEF MeasuredOK, PriorOK, ServerOK, Up, IInv
  <2> QED
    BY <2>2, <2>4, ServingKeepsLoading DEF IInv, Up, fileVars
<1>3. CASE ~Rotates
  <2>1. server' = [server EXCEPT !.paused = Pauses, !.busy = b]
    BY <1>1, <1>3 DEF RefreshedServer, Servers
  <2>2. /\ server' \in Servers /\ server'.status = "up"
        /\ server'.identity = server.identity
        /\ ~server'.paused => ~server.paused
    BY <1>1, <1>3, <2>1 DEF Servers, Pauses, Rotates, Transition
  <2>3. UNCHANGED coreVars
    BY <1>3 DEF Refresh
  <2>4. MeasuredOK' /\ ServerOK'
    BY <1>1, <2>2, <2>3 DEF MeasuredOK, ServerOK, Up, IInv, coreVars
  <2>5. PriorOK'
    BY <1>1, <2>2, <2>3 DEF PriorOK, Up, IInv, coreVars, Certified, Compatible
  <2> QED
    BY <2>2, <2>4, <2>5, ServingKeepsLoading DEF IInv, Up, fileVars
<1> QED
  BY <1>2, <1>3

\* The calls that refresh the identity.
LEMMA CallSteps ==
  ASSUME IInv, Poll \/ Admit \/ Drain
  PROVE  IInv'
<1>1. /\ Up /\ server \in Servers /\ server.busy \in BOOLEAN
      /\ Certified(held)
  BY DEF Poll, Admit, Drain, IInv, ServerOK, Servers, DocumentsOK
<1>2. Certified(held)'
  BY <1>1 DEF Poll, Admit, Drain, Certified
<1>3. CASE Poll
  <2>1. server' = [RefreshedServer EXCEPT !.busy = server.busy]
    BY <1>1, <1>3 DEF Poll, RefreshedServer, Servers
  <2> QED
    BY <1>1, <1>2, <1>3, <2>1, RefreshSteps DEF Poll
<1>4. CASE Admit
  BY <1>1, <1>2, <1>4, RefreshSteps DEF Admit
<1>5. CASE Drain
  <2>1. /\ server' = [server EXCEPT !.busy = FALSE] /\ server' \in Servers
        /\ server'.status = "up" /\ server'.identity = server.identity
        /\ server'.paused = server.paused
    BY <1>1, <1>5 DEF Drain, Servers, Up
  <2>2. MeasuredOK' /\ ServerOK'
    BY <1>1, <1>5, <2>1 DEF Drain, MeasuredOK, ServerOK, Up, IInv, coreVars
  <2>3. PriorOK'
    BY <1>1, <1>5, <2>1 DEF Drain, PriorOK, Up, IInv, coreVars, Certified, Compatible
  <2> QED
    BY <1>1, <1>2, <1>5, <2>1, <2>2, <2>3, ServingKeepsLoading
       DEF Drain, IInv, Up, fileVars
<1> QED
  BY <1>3, <1>4, <1>5

\* A cell is measured.
LEMMA MeasureStep ==
  ASSUME IInv, NEW k \in Measured, Measure(k)
  PROVE  IInv'
<1> DEFINE cell == [key |-> k, at |-> clock, by |-> runtime]
           others == {c \in live : c.key # k}
<1>1. /\ Up /\ server \in Servers /\ server.busy /\ ~Rotates
      /\ UNCHANGED <<clock, runtime, held, loading, fileVars, prior, mirror, loaded>>
      /\ live' = others \cup {cell}
      /\ runtime \in Identity /\ clock \in Nat
  BY DEF Measure, Rotates, IInv, ServerOK, Servers
<1>2. server' = [server EXCEPT !.paused = Pauses]
  BY <1>1 DEF Measure, RefreshedServer
<1>3. /\ server' \in Servers /\ server'.status = "up"
      /\ server'.identity = server.identity
      /\ ~server'.paused => ~server.paused /\ runtime = server.identity
  BY <1>1, <1>2 DEF Servers, Up, Pauses, Transition, Moved
<1>4. IsFiniteSet(live')
  <2>1. IsFiniteSet(others)
    BY FS_Subset DEF IInv, MeasuredOK
  <2> QED
    BY <1>1, <2>1, FS_AddElement
<1>5. cell \in Cell
  BY <1>1, LifecycleAssumption DEF Cell
<1>6. MeasuredOK'
  BY <1>1, <1>3, <1>4, <1>5 DEF IInv, MeasuredOK
<1>7. ServerOK'
  BY <1>1, <1>3 DEF IInv, ServerOK, Up
<1>8. PriorOK'
  BY <1>1, <1>3 DEF IInv, PriorOK, Up, Certified, Compatible
<1>9. Certified(held)'
  BY <1>1 DEF IInv, DocumentsOK, Certified
<1> QED
  BY <1>1, <1>3, <1>6, <1>7, <1>8, <1>9, ServingKeepsLoading DEF IInv, Up, fileVars

\* The document that leaves the server was measured under the identity that
\* it names: no transition has begun, or nothing is measured yet.
LEMMA ReadStep == ASSUME IInv, ReadProfile PROVE IInv'
<1> DEFINE cells == IF Rotates THEN {} ELSE Exported
           document == Built(server'.identity, cells, clock)
<1>1. /\ Up /\ server \in Servers /\ server.status = "up" /\ ~Pauses
      /\ server.identity \in Identity /\ runtime \in Identity /\ clock \in Nat
      /\ Certified(held)
  BY DEF ReadProfile, IInv, ServerOK, Up, DocumentsOK
<1>2. server'.identity \in Identity
  BY <1>1 DEF ReadProfile, RefreshedServer, Servers
<1>3. /\ cells \in SUBSET Cell /\ IsFiniteSet(cells)
      /\ \A c \in cells : /\ c.at <= clock /\ clock <= c.at + WINDOW
                          /\ c.by = server'.identity
  <2>1. CASE Rotates
    BY <2>1, EmptyIsFinite
  <2>2. CASE ~Rotates
    <3>1. ~Transition /\ ~server.paused /\ server'.identity = server.identity
      BY <1>1, <2>2
         DEF Rotates, Pauses, Transition, ReadProfile, RefreshedServer, Servers
    <3>2. /\ cells \subseteq live
          /\ \A c \in cells : clock <= c.at + WINDOW
      BY <2>2 DEF Exported, Qualified
    <3> QED
      BY <3>1, <3>2, FS_Subset DEF IInv, MeasuredOK
  <2> QED
    BY <2>1, <2>2
<1>4. Certified(document)
  BY <1>1, <1>2, <1>3, BuiltIsCertified
<1>5. held' = document \/ held' = held
  BY DEF ReadProfile, Receive, Envelope
<1>6. Certified(held)'
  BY <1>1, <1>4, <1>5 DEF Certified
<1>7. server' = [RefreshedServer EXCEPT !.busy = server.busy] /\ server.busy \in BOOLEAN
  BY <1>1 DEF ReadProfile, RefreshedServer, Servers
<1> QED
  BY <1>1, <1>6, <1>7, RefreshSteps DEF ReadProfile

-----------------------------------------------------------------------------
(* The environment.                                                        *)

\* The runtime changes under the server.
LEMMA ChangeStep ==
  ASSUME IInv, NEW i \in Runtimes, ChangeRuntime(i)
  PROVE  IInv'
<1>1. runtime' \in Identity
  BY LifecycleAssumption DEF ChangeRuntime
<1>2. UNCHANGED <<clock, held, server, loading, fileVars, coreVars>>
  BY DEF ChangeRuntime
<1>3. DocumentsOK' /\ LoadingOK'
  BY <1>2 DEF IInv, DocumentsOK, LoadingOK, fileVars, Certified, Compatible, Starting
<1>4. MeasuredOK' /\ PriorOK'
  BY <1>2 DEF IInv, MeasuredOK, PriorOK, coreVars, Certified, Compatible, Up
<1>5. ServerOK'
  BY <1>1, <1>2 DEF IInv, ServerOK, coreVars, Up
<1> QED
  BY <1>3, <1>4, <1>5 DEF IInv

\* The server stops.
LEMMA StopStep == ASSUME IInv, Stop PROVE IInv'
<1>1. DocumentsOK'
  BY DEF Stop, FileForgotten, IInv, DocumentsOK, Certified, Unknown
<1>2. LoadingOK'
  BY DEF Stop, LoadingOK, NotLoading, Steps, Starting, Down
<1>3. MeasuredOK' /\ PriorOK'
  BY EmptyIsFinite DEF Stop, MeasuredOK, PriorOK
<1>4. ServerOK'
  BY DEF Stop, IInv, ServerOK, Servers, Statuses, Down, Up
<1> QED
  BY <1>1, <1>2, <1>3, <1>4 DEF IInv

\* Time passes.
LEMMA TickStep == ASSUME IInv, Tick PROVE IInv'
<1>1. /\ clock \in Nat /\ clock' = clock + 1
      /\ UNCHANGED <<runtime, held, server, loading, fileVars, prior, mirror, loaded>>
  BY DEF Tick, IInv, ServerOK
<1>2. DocumentsOK'
  BY <1>1 DEF IInv, DocumentsOK, fileVars, Certified
<1>3. LoadingOK'
  <2>1. Starting("create") /\ loading.data # NoDocument =>
          clock + 1 <= loading.wall + START_DELAY
    BY <1>1, LifecycleAssumption DEF Tick, IInv, LoadingOK
  <2> QED
    BY <1>1, <2>1 DEF IInv, LoadingOK, Certified, Compatible, Starting
<1>4. MeasuredOK'
  <2>1. live' \subseteq live
    BY DEF Tick, Qualified
  <2>2. IsFiniteSet(live')
    BY <2>1, FS_Subset DEF IInv, MeasuredOK
  <2>3. \A c \in live' : c.at <= clock'
    BY <1>1, <2>1 DEF IInv, MeasuredOK, Cell
  <2> QED
    BY <1>1, <2>1, <2>2, <2>3 DEF IInv, MeasuredOK
<1>5. PriorOK'
  BY <1>1 DEF IInv, PriorOK, Certified, Compatible, Up
<1>6. ServerOK'
  BY <1>1 DEF IInv, ServerOK, Up, Tick, Qualified
<1> QED
  BY <1>2, <1>3, <1>4, <1>5, <1>6 DEF IInv

\* Nothing happens.
LEMMA Stutter == ASSUME IInv, UNCHANGED vars PROVE IInv'
<1>1. DocumentsOK' /\ LoadingOK'
  BY DEF vars, IInv, DocumentsOK, LoadingOK, fileVars, Certified, Compatible, Starting
<1>2. MeasuredOK' /\ PriorOK' /\ ServerOK'
  BY DEF vars, IInv, MeasuredOK, PriorOK, ServerOK, coreVars, Certified, Compatible, Up
<1> QED
  BY <1>1, <1>2 DEF IInv

\* Every step keeps the invariant.
LEMMA NextIInv == IInv /\ [Next]_vars => IInv'
<1> SUFFICES ASSUME IInv, [Next]_vars PROVE IInv'
  OBVIOUS
<1>1. CASE \/ \E i \in Inodes : Place("file", i) \/ Place("link", i) \/ Rewrite(i)
           \/ Place("none", NoInode)
  BY <1>1, FileSteps
<1>2. CASE StartOnline \/ StartWithProfile \/ Misconfigured
  BY <1>2, StartSteps
<1>3. CASE Load
  BY <1>3, LookSteps, ReadSteps, CreateStep DEF Load
<1>4. CASE Poll \/ Admit \/ Drain \/ ReadProfile
  BY <1>4, CallSteps, ReadStep
<1>5. CASE \E k \in Measured : Measure(k)
  BY <1>5, MeasureStep
<1>6. CASE \E i \in Runtimes : ChangeRuntime(i)
  BY <1>6, ChangeStep
<1>7. CASE Stop \/ Tick
  BY <1>7, StopStep, TickStep
<1>8. CASE UNCHANGED vars
  BY <1>8, Stutter
<1> QED
  BY <1>1, <1>2, <1>3, <1>4, <1>5, <1>6, <1>7, <1>8 DEF Next

\* The invariant holds of every reachable state.
THEOREM Invariance == Spec => []IInv
<1> QED
  BY InitIInv, NextIInv, PTL DEF Spec

-----------------------------------------------------------------------------
(* What it gives.                                                          *)

\* Types, among them that no profile is used with a lifetime in the past.
THEOREM Typing == Spec => []TypeOK
<1>1. IInv => TypeOK
  <2> SUFFICES ASSUME IInv PROVE TypeOK
    OBVIOUS
  <2>1. Certified(held) /\ held \in Document
    BY DEF IInv, DocumentsOK, Certified
  <2>2. loading \in Loadings
    BY DEF IInv, LoadingOK, Loadings, Certified
  <2>3. /\ prior \in [cells : SUBSET Cell, deadline : Nat]
        /\ mirror \in [count : Nat, expires : Nat]
        /\ loaded \in Document \cup {NoDocument}
    <3>1. CASE loaded = NoDocument /\ prior = NoPrior /\ mirror = NoMirror
      BY <3>1 DEF NoPrior, NoMirror, Never
    <3>2. CASE PriorOK /\ Certified(loaded)
      BY <3>2, FS_CardinalityType DEF PriorOK, Certified, Document, NoPrior, NoMirror, Never
    <3> QED
      BY <3>1, <3>2 DEF IInv, PriorOK
  <2> QED
    BY <2>1, <2>2, <2>3 DEF IInv, TypeOK, DocumentsOK, MeasuredOK, ServerOK
<1> QED
  BY <1>1, Invariance, PTL

\* No server forecasts from evidence older than a profile's lifetime, however
\* often a profile was exported and loaded again.
THEOREM Freshness == Spec => []PriorFresh
<1>1. IInv => PriorFresh
  <2> SUFFICES ASSUME IInv, NEW c \in ActivePrior
               PROVE  clock < c.at + VALID_FOR + WINDOW + START_DELAY
    BY DEF PriorFresh
  <2>1. clock < prior.deadline /\ c \in prior.cells
    BY DEF ActivePrior, PriorActive
  <2>2. /\ Certified(loaded) /\ prior.cells = loaded.cells
        /\ prior.deadline \in Nat /\ prior.deadline <= loaded.until + START_DELAY
    BY <2>1 DEF IInv, PriorOK, NoPrior
  <2>3. /\ c.at \in Nat /\ loaded.created \in Nat
        /\ loaded.until = loaded.created + VALID_FOR
        /\ loaded.created <= c.at + WINDOW
    BY <2>1, <2>2 DEF Certified, Document, Cell
  <2> QED
    BY <2>1, <2>2, <2>3, ProfileAssumption, LifecycleAssumption DEF IInv, ServerOK
<1> QED
  BY <1>1, Invariance, PTL

\* No server admits on evidence of a runtime that its own does not cover.
THEOREM Fitness == Spec => []PriorFits
<1>1. IInv => PriorFits
  <2> SUFFICES ASSUME IInv, Up, ~Transition, NEW c \in ActivePrior
               PROVE  Conservative(c.by, runtime)
    BY DEF PriorFits
  <2>1. c \in prior.cells /\ runtime = server.identity
    BY DEF ActivePrior, Transition, Moved
  <2>2. /\ Certified(loaded) /\ prior.cells = loaded.cells
        /\ Compatible(loaded.identity, server.identity)
    BY <2>1 DEF IInv, PriorOK, NoPrior
  <2> QED
    BY <2>1, <2>2 DEF Certified, Compatible, Conservative
<1> QED
  BY <1>1, Invariance, PTL

\* The policy reports the prior cells that the core uses.
THEOREM Reporting == Spec => []PriorReported
<1>1. IInv => PriorReported
  <2> SUFFICES ASSUME IInv PROVE PriorReported
    OBVIOUS
  <2>1. CASE loaded = NoDocument /\ prior = NoPrior /\ mirror = NoMirror
    BY <2>1, EmptyIsFinite
       DEF PriorReported, ReportedCells, ActivePrior, PriorActive, NoPrior, NoMirror
  <2>2. CASE /\ Certified(loaded)
             /\ prior = [cells |-> loaded.cells, deadline |-> prior.deadline]
             /\ mirror = [count |-> Cardinality(loaded.cells), expires |-> prior.deadline]
    <3>1. loaded # NoDocument \/ prior.cells = {}
      BY <2>2 DEF Certified, Document, NoDocument
    <3> QED
      BY <2>2, <3>1, EmptyIsFinite
         DEF PriorReported, ReportedCells, ActivePrior, PriorActive
  <2> QED
    BY <2>1, <2>2 DEF IInv, PriorOK
<1> QED
  BY <1>1, Invariance, PTL

\* A server uses the document whose digest it was given.
THEOREM Pinning == Spec => []PinnedIsLoaded
<1>1. IInv => PinnedIsLoaded
  BY DEF IInv, PriorOK, PinnedIsLoaded
<1> QED
  BY <1>1, Invariance, PTL

\* coverage() reports a complete surface exactly when the heaviest cell is
\* measured: all others then have jointly heavier evidence.
THEOREM CompleteCoverage ==
  ASSUME NEW keys \in SUBSET Keys
  PROVE  Missing(keys) = {} <=> <<MaxRunning, 3>> \in keys
<1>1. <<MaxRunning, 3>> \in Keys
  BY ProfileAssumption DEF Keys
<1>2. ASSUME Missing(keys) = {} PROVE <<MaxRunning, 3>> \in keys
  <2>1. PICK k \in keys : Heavier(k, <<MaxRunning, 3>>)
    BY <1>1, <1>2 DEF Missing
  <2>2. k = <<k[1], k[2]>> /\ k[1] \in 1 .. MaxRunning /\ k[2] \in 0 .. 3
    BY DEF Keys
  <2>3. k[1] = MaxRunning /\ k[2] = 3
    BY <2>1, <2>2, ProfileAssumption DEF Heavier
  <2> QED
    BY <2>2, <2>3
<1>3. ASSUME <<MaxRunning, 3>> \in keys PROVE Missing(keys) = {}
  BY <1>3, ProfileAssumption DEF Missing, Heavier, Keys
<1> QED
  BY <1>2, <1>3
-----------------------------------------------------------------------------
(* What is exported can be loaded.                                         *)

\* A document that a server, or its operator, has in this moment.
Kept(d) == d.created <= clock

\* While nobody touches the file, load_profile sees one file throughout; it
\* is load_profile that refuses a profile.
FileOK ==
  /\ server.status = "starting" /\ ~touched =>
       /\ loading.at \in {"open", "check", "read", "validate"} =>
            path.kind = "file" /\ loading.before = path.inode
       /\ loading.at \in {"check", "read", "validate"} => loading.opened = path.inode
  /\ server.status = "failed" /\ loading.at # "config" => loading.pinned # NoDocument

KeptOK ==
  /\ Kept(held)
  /\ loading.pinned # NoDocument => Kept(loading.pinned)

LoadsOK == KeptOK /\ FileOK /\ ExportsLoad

\* Every reason a loading server has to refuse is one of those listed.
LEMMA RefusalsJustified ==
  ASSUME IInv, LoadsOK, Load
  PROVE  FileOK' /\ ExportsLoad'
<1>1. /\ server \in Servers /\ server.status = "starting" /\ clock \in Nat
      /\ loading = [ at |-> loading.at, pinned |-> loading.pinned,
                     before |-> loading.before, opened |-> loading.opened,
                     data |-> loading.data, ttl |-> loading.ttl, wall |-> loading.wall ]
  BY DEF Load, Lstat, Open, CheckOpened, Read, Validate, Create, Starting, IInv, ServerOK,
         LoadingOK
<1>2. CASE Create
  BY <1>1, <1>2 DEF Create, Servers, FileOK, ExportsLoad
<1>0. ASSUME ~Create PROVE loading.pinned # NoDocument
  <2>1. loading.at \in {"lstat", "open", "check", "read", "validate"}
    BY <1>0 DEF Load, Lstat, Open, CheckOpened, Read, Validate, Starting
  <2>2. Certified(loading.pinned)
    BY <2>1 DEF IInv, LoadingOK
  <2> QED
    BY <2>2 DEF Certified, Document, NoDocument
<1>3. ASSUME UNCHANGED <<clock, fileVars>>, Refuse, ~Create,
             \/ touched \/ path.kind # "file"
             \/ contents[path.inode] # loading.pinned
             \/ Cardinality(loading.pinned.cells) > MaxCells
             \/ clock >= loading.pinned.until
             \/ ~Conservative(loading.pinned.identity, server.identity)
      PROVE  FileOK' /\ ExportsLoad'
  <2>1. server'.status = "failed" /\ server'.identity = server.identity /\ loading' = loading
    BY <1>1, <1>3 DEF Refuse, Servers
  <2> QED
    BY <1>0, <1>3, <2>1 DEF fileVars, FileOK, ExportsLoad
<1>4. ASSUME UNCHANGED <<clock, fileVars, server>>, FileOK'
      PROVE  FileOK' /\ ExportsLoad'
  BY <1>1, <1>4 DEF ExportsLoad
<1>5. CASE Lstat
  <2>1. CASE path.kind = "file"
    <3>1. /\ UNCHANGED <<clock, fileVars, server>>
          /\ loading' = [loading EXCEPT !.at = "open", !.before = path.inode]
      BY <1>5, <2>1 DEF Lstat, Proceed
    <3>2. FileOK'
      BY <1>1, <2>1, <3>1 DEF FileOK, fileVars
    <3> QED
      BY <1>4, <3>1, <3>2
  <2>2. CASE path.kind # "file"
    BY <1>3, <1>5, <2>2 DEF Lstat, Create, Starting
  <2> QED
    BY <2>1, <2>2
<1>6. CASE Open
  <2>1. CASE path.kind # "none"
    <3>1. /\ UNCHANGED <<clock, fileVars, server>> /\ loading.at = "open"
          /\ loading' = [loading EXCEPT !.at = "check", !.opened = path.inode]
      BY <1>6, <2>1 DEF Open, Proceed, Starting
    <3>2. FileOK'
      BY <1>1, <3>1 DEF FileOK, fileVars, LoadsOK
    <3> QED
      BY <1>4, <3>1, <3>2
  <2>2. CASE path.kind = "none"
    BY <1>3, <1>6, <2>2 DEF Open, Create, Starting
  <2> QED
    BY <2>1, <2>2
<1>7. CASE CheckOpened
  <2>1. CASE SameFile
    <3>1. /\ UNCHANGED <<clock, fileVars, server>>
          /\ loading' = [loading EXCEPT !.at = "read"]
      BY <1>7, <2>1 DEF CheckOpened, Proceed
    <3>2. FileOK'
      BY <1>1, <2>1, <3>1 DEF FileOK, fileVars, SameFile
    <3> QED
      BY <1>4, <3>1, <3>2
  <2>2. CASE ~SameFile
    <3>1. loading.at = "check" /\ Refuse /\ ~Create /\ UNCHANGED <<clock, fileVars>>
      BY <1>7, <2>2 DEF CheckOpened, Create, Starting
    <3>2. touched \/ path.kind # "file"
      BY <1>1, <2>2, <3>1 DEF LoadsOK, FileOK, SameFile
    <3> QED
      BY <1>3, <3>1, <3>2
  <2> QED
    BY <2>1, <2>2
<1>8. CASE Read
  <2> DEFINE data == contents[loading.opened]
  <2>1. CASE Authentic(data, loading.pinned)
    <3>1. /\ UNCHANGED <<clock, fileVars, server>> /\ loading.at = "read"
          /\ loading' = [loading EXCEPT !.at = "validate", !.data = data]
      BY <1>8, <2>1 DEF Read, Proceed, Starting
    <3>2. FileOK'
      BY <1>1, <3>1 DEF FileOK, fileVars, LoadsOK
    <3> QED
      BY <1>4, <3>1, <3>2
  <2>2. CASE ~Authentic(data, loading.pinned)
    <3>1. loading.at = "read" /\ Refuse /\ ~Create /\ UNCHANGED <<clock, fileVars>>
      BY <1>8, <2>2 DEF Read, Create, Starting
    <3>2. Certified(loading.pinned)
      BY <3>1 DEF IInv, LoadingOK
    <3>3. loading.pinned # Torn /\ loading.pinned # NoDocument
      BY <3>2 DEF Certified, Document, Torn, NoDocument
    <3>4. data # loading.pinned \/ ~(Cardinality(loading.pinned.cells) <= MaxCells)
      BY <2>2, <3>3 DEF Authentic
    <3>5. CASE data # loading.pinned
      <4>1. touched \/ contents[path.inode] # loading.pinned
        BY <1>1, <3>1, <3>5 DEF LoadsOK, FileOK
      <4> QED
        BY <1>3, <3>1, <4>1
    <3>6. CASE data = loading.pinned
      <4>1. IsFiniteSet(loading.pinned.cells)
        BY <3>2, <3>3 DEF Certified
      <4>2. Cardinality(loading.pinned.cells) \in Nat
        BY <4>1, FS_CardinalityType
      <4>3. Cardinality(loading.pinned.cells) > MaxCells
        BY <3>4, <3>6, <4>2, ProfileAssumption
      <4> QED
        BY <1>3, <3>1, <4>3
    <3> QED
      BY <3>5, <3>6
  <2> QED
    BY <2>1, <2>2
<1>9. CASE Validate
  <2>1. CASE Valid(loading.data, server.identity, clock)
    <3>1. UNCHANGED <<clock, fileVars, server>> /\ loading'.at = "create"
      BY <1>1, <1>9, <2>1 DEF Validate, Proceed
    <3>2. FileOK'
      BY <1>1, <3>1 DEF FileOK
    <3> QED
      BY <1>4, <3>1, <3>2
  <2>2. CASE ~Valid(loading.data, server.identity, clock)
    <3>1. loading.at = "validate" /\ Refuse /\ ~Create /\ UNCHANGED <<clock, fileVars>>
      BY <1>9, <2>2 DEF Validate, Create, Starting
    <3>2. loading.data = loading.pinned /\ Certified(loading.pinned)
      BY <3>1 DEF IInv, LoadingOK
    <3>3. loading.pinned # NoDocument
      BY <3>2 DEF Certified, Document, NoDocument
    <3>4. loading.pinned.created <= clock
      BY <3>3 DEF LoadsOK, KeptOK, Kept
    <3>5. /\ loading.pinned.created \in Nat /\ loading.pinned.until \in Nat
          /\ loading.pinned.created < loading.pinned.until
      BY <3>2, ProfileAssumption DEF Certified, Document
    <3>6. \/ clock >= loading.pinned.until
          \/ ~Compatible(loading.pinned.identity, server.identity)
      BY <1>1, <2>2, <3>2, <3>4, <3>5 DEF Valid
    <3>7. /\ server.identity \in Identity /\ loading.pinned.identity \in Identity
      BY <1>1, <3>2 DEF IInv, ServerOK, Certified, Document
    <3>8. \/ clock >= loading.pinned.until
          \/ ~Conservative(loading.pinned.identity, server.identity)
      BY <3>6, <3>7, ProfileAssumption DEF Compatible, Conservative, Identity
    <3> QED
      BY <1>3, <3>1, <3>8
  <2> QED
    BY <2>1, <2>2
<1> QED
  BY <1>2, <1>5, <1>6, <1>7, <1>8, <1>9 DEF Load

\* Time only makes documents older.
LEMMA KeptStays ==
  ASSUME NEW d, Kept(d), clock \in Nat, clock' \in Nat, clock <= clock', d.created \in Nat
  PROVE  d.created <= clock'
BY DEF Kept

\* What is kept of an export stays loadable.
LEMMA KeptStep == ASSUME IInv, LoadsOK, Next PROVE KeptOK'
<1>1. /\ clock \in Nat /\ clock' \in Nat /\ clock <= clock'
  <2>1. IInv'
    BY NextIInv
  <2>2. clock \in Nat /\ clock' \in Nat
    BY <2>1 DEF IInv, ServerOK
  <2>3. clock' = clock \/ clock' = clock + 1
    BY DEF Next, Place, Rewrite, StartOnline, StartWithProfile, Misconfigured, Load, Lstat, Open,
           CheckOpened, Read, Validate, Create, Poll, Admit, Drain, ReadProfile, Measure,
           ChangeRuntime, Stop, Tick
  <2> QED
    BY <2>2, <2>3
<1>2. Certified(held) /\ Kept(held)
  BY DEF IInv, DocumentsOK, LoadsOK, KeptOK
<1>3. Kept(held)'
  <2>1. CASE held' = held
    BY <1>1, <1>2, <2>1, KeptStays DEF Kept, Certified, Document
  <2>2. CASE held' # held
    <3>1. ReadProfile
      BY <2>2 DEF Next, Place, Rewrite, StartOnline, StartWithProfile, Misconfigured, Load,
             Lstat, Open, CheckOpened, Read, Validate, Create, Poll, Admit, Drain, Measure,
             ChangeRuntime, Stop, Tick
    <3>2. held'.created = clock /\ clock' = clock
      BY <2>2, <3>1 DEF ReadProfile, Receive, Envelope, Built
    <3> QED
      BY <1>1, <3>2 DEF Kept
  <2> QED
    BY <2>1, <2>2
<1>4. loading'.pinned # NoDocument => Kept(loading.pinned)'
  <2>1. \/ loading'.pinned = loading.pinned \/ loading'.pinned = NoDocument
        \/ loading'.pinned = held
    <3>1. CASE Load
      <4>1. loading = [ at |-> loading.at, pinned |-> loading.pinned,
                        before |-> loading.before, opened |-> loading.opened,
                        data |-> loading.data, ttl |-> loading.ttl, wall |-> loading.wall ]
        BY DEF IInv, LoadingOK
      <4> QED
        BY <3>1, <4>1 DEF Load, Lstat, Open, CheckOpened, Read, Validate, Create, Proceed, Refuse,
                          NotLoading
    <3>2. CASE StartOnline \/ StartWithProfile \/ Misconfigured \/ Stop
      <4>1. CASE StartOnline \/ Misconfigured \/ Stop
        BY <4>1 DEF StartOnline, Misconfigured, Stop, NotLoading
      <4>2. CASE StartWithProfile
        BY <4>2 DEF StartWithProfile, NotLoading
      <4> QED
        BY <3>2, <4>1, <4>2
    <3>3. CASE ~(Load \/ StartOnline \/ StartWithProfile \/ Misconfigured \/ Stop)
      <4>1. loading' = loading
        BY <3>3 DEF Next, Place, Rewrite, Poll, Admit, Drain, ReadProfile, Measure, ChangeRuntime,
                    Tick
      <4> QED
        BY <4>1
    <3> QED
      BY <3>1, <3>2, <3>3
  <2>2. ASSUME loading.pinned # NoDocument
        PROVE  Kept(loading.pinned) /\ loading.pinned.created \in Nat
    BY <2>2 DEF LoadsOK, KeptOK, IInv, LoadingOK, Certified, Document
  <2>3. held.created \in Nat
    BY <1>2 DEF Certified, Document
  <2> QED
    BY <1>1, <1>2, <2>1, <2>2, <2>3, KeptStays DEF Kept
<1> QED
  BY <1>3, <1>4 DEF KeptOK

\* Every step keeps every refusal justified.
LEMMA LoadsStep ==
  ASSUME IInv, LoadsOK, [Next]_vars
  PROVE  LoadsOK'
<1>1. CASE UNCHANGED vars
  BY <1>1 DEF vars, fileVars, coreVars, LoadsOK, KeptOK, Kept, FileOK, ExportsLoad
<1>2. CASE Next
  <2>1. KeptOK'
    BY <1>2, KeptStep
  <2>2. CASE Load
    BY <2>1, <2>2, RefusalsJustified DEF LoadsOK
  <2>3. ASSUME touched', server'.status = "starting" PROVE LoadsOK'
    BY <2>1, <2>3 DEF LoadsOK, FileOK, ExportsLoad
  <2>4. ASSUME server'.status \in {"up", "down"} PROVE LoadsOK'
    BY <2>1, <2>4 DEF LoadsOK, FileOK, ExportsLoad
  <2>5. server \in Servers /\ server' \in Servers
    BY <1>2, NextIInv DEF IInv, ServerOK
  <2>6. CASE \/ \E i \in Inodes : Place("file", i) \/ Place("link", i) \/ Rewrite(i)
             \/ Place("none", NoInode)
    <3>1. touched' = TRUE /\ server' = server /\ server.status = "starting"
      BY <2>6 DEF Place, Rewrite
    <3> QED
      BY <2>3, <3>1
  <2>7. CASE StartOnline \/ StartWithProfile \/ Misconfigured
    <3>1. FileOK' /\ ExportsLoad'
      BY <2>5, <2>7 DEF StartOnline, StartWithProfile, Misconfigured, Down, NotLoading, FileOK,
             ExportsLoad, Servers
    <3> QED
      BY <2>1, <3>1 DEF LoadsOK
  <2>8. CASE Poll \/ Admit \/ Drain \/ ReadProfile \/ \E k \in Measured : Measure(k)
    <3>1. server'.status = "up"
      BY <2>5, <2>8 DEF Poll, Admit, Drain, ReadProfile, Measure, Up, RefreshedServer, Servers
    <3> QED
      BY <2>4, <3>1
  <2>9. CASE Stop
    BY <2>4, <2>9 DEF Stop, Down
  <2>10. CASE (\E i \in Runtimes : ChangeRuntime(i)) \/ Tick
    <3>1. /\ UNCHANGED <<server, loading, fileVars>>
          /\ clock \in Nat /\ (clock' = clock \/ clock' = clock + 1)
      BY <2>10 DEF ChangeRuntime, Tick, IInv, ServerOK
    <3>2. FileOK'
      BY <3>1 DEF FileOK, fileVars, LoadsOK
    <3>3. ASSUME server.status = "failed", clock >= loading.pinned.until, loading.at # "config"
          PROVE  clock' >= loading.pinned.until
      <4>1. loading.pinned.until \in Nat
        BY <3>3 DEF LoadsOK, FileOK, IInv, LoadingOK, Certified, Document
      <4> QED
        BY <3>1, <3>3, <4>1
    <3>4. ExportsLoad'
      BY <3>1, <3>3 DEF ExportsLoad, fileVars, LoadsOK
    <3> QED
      BY <2>1, <3>2, <3>4 DEF LoadsOK
  <2> QED
    BY <1>2, <2>2, <2>6, <2>7, <2>8, <2>9, <2>10 DEF Next
<1> QED
  BY <1>1, <1>2

\* A server refuses to start over a certified or exported document only if
\* the configuration is wrong, the file is not the pinned one or was touched,
\* the document is larger than the reader accepts (the exporter does not look
\* at MAX_PROFILE_BYTES), the profile has expired, or the runtime is not
\* covered (load_profile, validate_profile).
THEOREM ExportsAreLoadable == Spec => []ExportsLoad
<1>1. Init => LoadsOK
  <2> SUFFICES ASSUME Init PROVE LoadsOK
    OBVIOUS
  <2>1. Kept(held)
    BY SeedsAreCertified DEF Init, Kept
  <2> QED
    BY <2>1 DEF Init, LoadsOK, KeptOK, FileOK, ExportsLoad, NotLoading, Down
<1>2. IInv /\ LoadsOK /\ [Next]_vars => LoadsOK'
  BY LoadsStep
<1>3. LoadsOK => ExportsLoad
  BY DEF LoadsOK
<1> QED
  BY <1>1, <1>2, <1>3, Invariance, PTL DEF Spec
=============================================================================
