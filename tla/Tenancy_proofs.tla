-------------------------- MODULE Tenancy_proofs ---------------------------
(***************************************************************************)
(* Proofs about Tenancy for any number of identities, providers, endpoints *)
(* and concurrent handlers, and any number of crashes and failures.        *)
(***************************************************************************)
EXTENDS Tenancy, TLAPS

-----------------------------------------------------------------------------
(* The inductive invariant.                                                  *)

DbRecord ==
    [identities : SUBSET Identity, inactive : SUBSET Identity,
     activities : SUBSET Path,
     owner : [Provider -> Identity \cup {Nobody}],
     visibility : [Provider -> Visibility],
     shares : SUBSET (Provider \X Identity),
     endpoints : [Endpoint -> Identity \cup {Nobody}],
     models : SUBSET (Endpoint \X Provider),
     routes : [Endpoint -> Provider \cup {Nobody}]]

JobRecord ==
    [at : {"off", "selected", "listed", "ready", "removing"},
     ids : SUBSET Identity, endpoints : SUBSET Endpoint, paths : SUBSET Path]

\* Grants exist only while the provider is shared with selected identities.
Grants(d) ==
    \A g \in d.shares : d.visibility[g[1]] = "selected" /\ d.owner[g[1]] # g[2]

\* What every transaction makes of the database, apart from the foreign keys
\* that its commit checks.
Tidy(d) == d \in DbRecord /\ d.inactive \subseteq d.identities /\ Grants(d)

DbInv == Tidy(db) /\ ForeignKeys(db)

Typed ==
    /\ server \in {"down", "starting", "up"}
    /\ files \subseteq Path
    /\ born \subseteq Ids
    /\ op \in [Handler -> HandlerState]
    /\ job \in JobRecord
    /\ faults \in 0..MaxFaults
    /\ stray \subseteq Path

\* Ids in use have been given out.
BornInv ==
    /\ db.identities \subseteq born
    /\ \A f \in files : f[1] \in born
    /\ job.ids \subseteq born
    /\ \A p \in Provider : db.owner[p] # Nobody => p \in born

\* So has the id of the identity a handler acts for.
WhoInv(o) == op[o].who # Nobody => op[o].who \in born

\* What a handler remembers of its checks when it comes to its commit.
HandlerInv(o) ==
    /\ op[o].at # "idle" => op[o].who \in Identity
    /\ op[o].at = "sharing" =>
          /\ op[o].provider \in Provider \cap born
          /\ db.owner[op[o].provider] \in {op[o].who, Nobody}
          /\ op[o].chosen \subseteq Identity \ {op[o].who}
          /\ op[o].visibility # "selected" => op[o].chosen = {}
    /\ op[o].at \in {"creating", "updating"} =>
          op[o].endpoint \in Endpoint /\ op[o].chosen \subseteq Provider
    /\ op[o].at = "inserting" =>
          /\ op[o].path \in Path /\ op[o].path[1] = op[o].who
          /\ op[o].who \in db.identities => op[o].path \in files

\* The cleanup deletes only identities that are there, and knows the files of
\* their activities but of those that came too late.
JobInv ==
    /\ \A f \in job.paths : f[1] \in job.ids
    /\ job.at \in {"selected", "listed", "ready"} => job.ids \subseteq db.identities
    /\ job.at = "ready" => \A f \in db.activities \ stray :
                              f[1] \in job.ids => f \in job.paths
    /\ job.at = "removing" => job.ids \cap db.identities = {}
    /\ job.at \in {"off", "selected", "listed"} => job.paths = {}

\* A handler is between the file f and its row.
Inserting(f) == \E o \in Handler : op[o].at = "inserting" /\ op[o].path = f

\* A file of an identity that is there has an activity row by which the cleanup
\* will find it; one of an identity that is gone is about to be removed.  Unless,
\* in both cases, a request is about to insert a row for it.
FileInv(f) ==
    /\ f[1] \in db.identities => f \in db.activities \/ Inserting(f)
    /\ f[1] \notin db.identities =>
          (job.at = "removing" /\ f \in job.paths) \/ Inserting(f)

FilesInv == db.activities \subseteq files /\ \A f \in files \ stray : FileInv(f)

Inv ==
    /\ Typed
    /\ DbInv
    /\ BornInv
    /\ \A o \in Handler : WhoInv(o) /\ HandlerInv(o)
    /\ JobInv
    /\ FilesInv

-----------------------------------------------------------------------------
(* Transactions.                                                             *)

LEMMA InitInv ==
  ASSUME TenancyAssumption, Init
  PROVE  Inv
<1>1. Empty \in DbRecord
  BY DEF Empty, DbRecord, Visibility
<1>2. Tidy(Empty) /\ ForeignKeys(Empty)
  BY <1>1 DEF Tidy, Grants, ForeignKeys, Empty
<1>3. Idle \in HandlerState
  BY DEF Idle, HandlerState, Visibility
<1>4. Typed
  BY <1>3 DEF Init, Typed, Off, JobRecord, TenancyAssumption
<1>5. DbInv /\ BornInv
  BY <1>2 DEF Init, DbInv, BornInv, Empty, Off
<1>6. \A o \in Handler : WhoInv(o) /\ HandlerInv(o)
  BY DEF Init, WhoInv, HandlerInv, Idle
<1>7. JobInv /\ FilesInv
  BY DEF Init, JobInv, FilesInv, Off, Empty
<1> QED
  BY <1>4, <1>5, <1>6, <1>7 DEF Inv

\* A transaction applies all of its effects or none.
LEMMA CommitDb ==
  ASSUME DbInv, NEW d, Tidy(d), Commit(d)
  PROVE  DbInv' /\ db' \in {d, db}
<1>1. (db' = d /\ ForeignKeys(d)) \/ db' = db
  BY DEF Commit
<1>2. CASE db' = d /\ ForeignKeys(d)
  BY <1>2 DEF DbInv, Tidy, ForeignKeys, Grants, DbRecord
<1>3. CASE db' = db
  BY <1>3 DEF DbInv, Tidy, ForeignKeys, Grants, DbRecord
<1> QED
  BY <1>1, <1>2, <1>3

\* The identities, their activity and their rows of d are those of c, and no
\* provider of d has an owner it did not have.
SameRows(c, d) ==
    /\ d.identities = c.identities
    /\ d.inactive = c.inactive
    /\ d.activities = c.activities
    /\ \A p \in Provider : d.owner[p] \in {c.owner[p], Nobody}

\* Deleting routes leaves no row that refers to a deleted one, and removes no
\* other kind of row.
LEMMA DropRoutesRows ==
  ASSUME NEW d, Tidy(d), NEW E
  PROVE  Tidy(DropRoutes(d, E)) /\ SameRows(d, DropRoutes(d, E))
  BY DEF Tidy, DropRoutes, SameRows, DbRecord, Grants

\* So does deleting endpoints, with what cascades from them.
LEMMA DropEndpointsRows ==
  ASSUME NEW d, Tidy(d), NEW E
  PROVE  Tidy(DropEndpoints(d, E)) /\ SameRows(d, DropEndpoints(d, E))
  BY DEF Tidy, DropEndpoints, SameRows, DbRecord, Grants

\* So does deleting providers.
LEMMA DropProvidersRows ==
  ASSUME NEW d, Tidy(d), NEW P
  PROVE  Tidy(DropProviders(d, P)) /\ SameRows(d, DropProviders(d, P))
<1> DEFINE e == DropProviders(d, P)
<1>1. d \in DbRecord
  BY DEF Tidy
<1>2. /\ e.owner = [p \in Provider |-> IF p \in P THEN Nobody ELSE d.owner[p]]
      /\ e.visibility =
           [p \in Provider |-> IF p \in P THEN "private" ELSE d.visibility[p]]
      /\ e.shares = {g \in d.shares : g[1] \notin P}
      /\ e.identities = d.identities /\ e.inactive = d.inactive
      /\ e.activities = d.activities
  BY <1>1 DEF DropProviders, DbRecord
<1>3. e \in DbRecord
  BY <1>1 DEF DropProviders, DbRecord, Visibility
<1>4. Grants(e)
  BY <1>1, <1>2 DEF Tidy, Grants, DbRecord
<1>5. SameRows(d, e)
  BY <1>1, <1>2 DEF SameRows, DbRecord
<1> QED
  BY <1>2, <1>3, <1>4, <1>5 DEF Tidy

\* Replacing the model mappings leaves every other row.
LEMMA ModelsRows ==
  ASSUME NEW d, Tidy(d), NEW M \in SUBSET (Endpoint \X Provider)
  PROVE  Tidy([d EXCEPT !.models = M]) /\ SameRows(d, [d EXCEPT !.models = M])
  BY DEF Tidy, SameRows, DbRecord, Grants

\* Two changes after each other keep the rows both keep.
LEMMA SameRowsTransitive ==
  ASSUME NEW b, NEW c, NEW d, SameRows(b, c), SameRows(c, d)
  PROVE  SameRows(b, d)
  BY DEF SameRows

-----------------------------------------------------------------------------
(* Steps of a handler that leave the identities and their activities alone.  *)

\* h is what such a step leaves of handler o.
Quiet(o, h) ==
    /\ op[o].at # "inserting"
    /\ op' = [op EXCEPT ![o] = h]
    /\ h.who \in {op[o].who, Nobody}
    /\ UNCHANGED <<server, files, job, faults, stray>>
    /\ born \subseteq born' /\ born' \subseteq Ids
    /\ db'.identities = db.identities /\ db'.inactive = db.inactive
    /\ db'.activities = db.activities
    /\ \A p \in Provider :
          db'.owner[p] \in {db.owner[p], Nobody} \/ p \in born' \ born

\* A step of one handler that touches neither identities nor files: the rest of
\* the invariant holds if the database and that handler are in order.
LEMMA QuietStep ==
  ASSUME Inv, NEW o \in Handler, NEW h \in HandlerState, Quiet(o, h), DbInv',
         HandlerInv(o)'
  PROVE  Inv'
<1>1. Typed'
  BY DEF Inv, Typed, Quiet
<1>2. BornInv'
  <2>1. /\ db'.identities \subseteq born' /\ job'.ids \subseteq born'
        /\ \A f \in files' : f[1] \in born'
    BY DEF Inv, BornInv, Quiet
  <2>2. ASSUME NEW p \in Provider, db'.owner[p] # Nobody PROVE p \in born'
    BY <2>2 DEF Inv, BornInv, Quiet
  <2> QED
    BY <2>1, <2>2 DEF BornInv
<1>3. ASSUME NEW x \in Handler PROVE WhoInv(x)' /\ HandlerInv(x)'
  <2>1. CASE x = o
    <3>1. op'[o] = h
      BY DEF Inv, Typed, Quiet
    <3>2. WhoInv(o)
      BY DEF Inv
    <3>3. WhoInv(o)'
      BY <3>1, <3>2 DEF WhoInv, Quiet
    <3> QED
      BY <2>1, <3>3
  <2>2. CASE x # o
    <3>1. op'[x] = op[x]
      BY <2>2 DEF Inv, Typed, Quiet
    <3>2. WhoInv(x) /\ HandlerInv(x)
      BY DEF Inv
    <3>3. WhoInv(x)'
      BY <3>1, <3>2 DEF WhoInv, Quiet
    <3>4. HandlerInv(x)'
      BY <3>1, <3>2 DEF HandlerInv, Quiet
    <3> QED
      BY <3>3, <3>4
  <2> QED
    BY <2>1, <2>2
<1>4. JobInv'
  BY DEF Inv, JobInv, Quiet
<1>5. FilesInv'
  <2>1. ASSUME NEW i, Inserting(i) PROVE Inserting(i)'
    <3>1. PICK x \in Handler : op[x].at = "inserting" /\ op[x].path = i
      BY <2>1 DEF Inserting
    <3>2. op'[x] = op[x]
      BY <3>1 DEF Inv, Typed, Quiet
    <3> QED
      BY <3>1, <3>2 DEF Inserting
  <2> QED
    BY <2>1 DEF Inv, FilesInv, FileInv, Quiet
<1> QED
  BY <1>1, <1>2, <1>3, <1>4, <1>5 DEF Inv

\* A handler that does nothing is in a state handlers can be in.
LEMMA IdleState == Idle \in HandlerState
  BY DEF Idle, HandlerState, Visibility

\* A handler that ends with a transaction.
LEMMA DoneStep ==
  ASSUME Inv, NEW o \in Handler, op[o].at # "inserting", Done(o), DbInv',
         UNCHANGED <<server, files, job, faults, stray>>,
         born \subseteq born', born' \subseteq Ids,
         db'.identities = db.identities, db'.inactive = db.inactive,
         db'.activities = db.activities,
         \A p \in Provider :
            db'.owner[p] \in {db.owner[p], Nobody} \/ p \in born' \ born
  PROVE  Inv'
<1>1. op'[o] = Idle
  BY DEF Inv, Typed, Done, Goes
<1>2. Quiet(o, Idle)
  BY DEF Quiet, Done, Goes, Idle
<1>3. HandlerInv(o)'
  BY <1>1 DEF HandlerInv, Idle
<1> QED
  BY <1>2, <1>3, IdleState, QuietStep

\* ... of which the database keeps the rows.
LEMMA DoneWithRows ==
  ASSUME Inv, NEW o \in Handler, op[o].at # "inserting", Done(o), DbInv',
         UNCHANGED <<server, files, born, job, faults, stray>>, SameRows(db, db')
  PROVE  Inv'
<1>1. born \subseteq born' /\ born' \subseteq Ids
  BY DEF Inv, Typed
<1> QED
  BY <1>1, DoneStep DEF SameRows

\* A handler that ends with a commit, or with one that fails.
LEMMA CommitWithRows ==
  ASSUME Inv, NEW o \in Handler, op[o].at # "inserting", Done(o),
         NEW d, Tidy(d), SameRows(db, d), Commit(d),
         UNCHANGED <<server, files, born, job, faults, stray>>
  PROVE  Inv'
<1>1. DbInv' /\ db' \in {d, db}
  BY CommitDb DEF Inv
<1>2. SameRows(db, db')
  BY <1>1 DEF SameRows
<1> QED
  BY <1>1, <1>2, DoneWithRows

-----------------------------------------------------------------------------
(* Managing handlers.                                                        *)

\* A new provider's id was never used: no grant or check refers to it.
LEMMA CreateProviderStep ==
  ASSUME TenancyAssumption, Inv, NEW o \in Handler, NEW p \in Provider,
         CreateProvider(o, p)
  PROVE  Inv'
<1> DEFINE d == [db EXCEPT !.owner[p] = op[o].who]
<1>1. db \in DbRecord /\ Tidy(db) /\ ForeignKeys(db) /\ op[o] \in HandlerState
  BY DEF Inv, DbInv, Tidy, Typed
<1>2. p \notin born /\ db.owner[p] = Nobody
  BY DEF CreateProvider, Inv, BornInv
<1>3. op[o].who \in Identity \cup {Nobody}
  BY <1>1 DEF HandlerState
<1>4. d \in DbRecord /\ d.inactive = db.inactive /\ d.identities = db.identities
      /\ d.activities = db.activities
      /\ d.shares = db.shares /\ d.visibility = db.visibility
      /\ d.owner = [db.owner EXCEPT ![p] = op[o].who]
  BY <1>1, <1>3 DEF DbRecord
<1>5. Grants(d)
  <2> SUFFICES ASSUME NEW g \in db.shares
               PROVE  db.visibility[g[1]] = "selected" /\ d.owner[g[1]] # g[2]
    BY <1>4 DEF Grants
  <2>1. /\ g[1] # p /\ db.visibility[g[1]] = "selected" /\ db.owner[g[1]] # g[2]
        /\ g[1] \in Provider
    BY <1>1, <1>2 DEF ForeignKeys, Tidy, Grants, DbRecord
  <2> QED
    BY <1>1, <1>4, <2>1 DEF DbRecord
<1>6. Tidy(d)
  BY <1>1, <1>4, <1>5 DEF Tidy
<1>7. /\ Commit(d) /\ Done(o) /\ op[o].at # "inserting"
      /\ UNCHANGED <<server, files, job, faults, stray>>
      /\ born' = born \cup {p}
  BY DEF CreateProvider, At
<1>8. DbInv' /\ db' \in {d, db}
  BY <1>6, <1>7, CommitDb DEF Inv
<1>9. born \subseteq born' /\ born' \subseteq Ids
  BY <1>7 DEF Inv, Typed, Ids
<1>10. /\ db'.identities = db.identities /\ db'.inactive = db.inactive
       /\ db'.activities = db.activities
  BY <1>4, <1>8
<1>11. \A x \in Provider :
         db'.owner[x] \in {db.owner[x], Nobody} \/ x \in born' \ born
  BY <1>1, <1>2, <1>4, <1>7, <1>8 DEF DbRecord
<1> HIDE DEF d
<1> QED
  BY <1>7, <1>8, <1>9, <1>10, <1>11, DoneStep

\* ShareCheck: the provider is read and must be the caller's own.
LEMMA ShareCheckStep ==
  ASSUME TenancyAssumption, Inv, NEW o \in Handler, NEW p \in Provider,
         NEW v \in Visibility, NEW chosen \in SUBSET Identity,
         ShareCheck(o, p, v, chosen)
  PROVE  Inv'
<1> DEFINE h == [op[o] EXCEPT !.at = "sharing", !.provider = p,
                              !.visibility = v, !.chosen = chosen]
<1>1. op[o] \in HandlerState /\ op[o].who \in Identity
  BY DEF Inv, Typed, HandlerInv, ShareCheck, At
<1>2. /\ h \in HandlerState /\ h.at = "sharing" /\ h.provider = p
      /\ h.visibility = v /\ h.chosen = chosen /\ h.who = op[o].who
  BY <1>1 DEF HandlerState
<1>3. op' = [op EXCEPT ![o] = h] /\ db' = db /\ born' = born
  BY DEF ShareCheck, Goes
<1>4. op'[o] = h
  BY <1>3 DEF Inv, Typed
<1>5. p \in born /\ db.owner[p] = op[o].who /\ db.owner[p] # Nobody
  BY <1>1 DEF ShareCheck, Inv, BornInv, TenancyAssumption
<1>6. chosen \subseteq Identity \ {op[o].who} /\ (v # "selected" => chosen = {})
  BY DEF ShareCheck
<1> HIDE DEF h
<1>7. HandlerInv(o)'
  BY <1>1, <1>2, <1>3, <1>4, <1>5, <1>6 DEF HandlerInv
<1>8. Quiet(o, h)
  BY <1>2, <1>3 DEF Quiet, ShareCheck, At, Inv, Typed
<1>9. DbInv'
  BY <1>3 DEF Inv, DbInv, Tidy, ForeignKeys, Grants, DbRecord
<1> QED
  BY <1>2, <1>7, <1>8, <1>9, QuietStep

\* update_provider_sharing replaces the grants by those it checked; the owner
\* can only have gone meanwhile.
LEMMA ShareCommitStep ==
  ASSUME TenancyAssumption, Inv, NEW o \in Handler, ShareCommit(o)
  PROVE  Inv'
<1> DEFINE h == op[o]
           d == Shared(db, h)
<1>1. db \in DbRecord /\ Tidy(db) /\ h \in HandlerState
  BY DEF Inv, DbInv, Tidy, Typed
<1>2. /\ h.at = "sharing" /\ h.provider \in Provider
      /\ h.chosen \subseteq Identity \ {h.who}
      /\ h.visibility # "selected" => h.chosen = {}
      /\ h.visibility \in Visibility
      /\ db.owner[h.provider] \in {h.who, Nobody}
  BY <1>1 DEF ShareCommit, At, Inv, HandlerInv, HandlerState
<1>3. /\ Done(o) /\ h.at # "inserting"
      /\ UNCHANGED <<server, files, born, job, faults, stray>>
  BY <1>2 DEF ShareCommit
<1>4. CASE db' = db
  <2>1. DbInv' /\ SameRows(db, db')
    BY <1>4 DEF Inv, DbInv, Tidy, ForeignKeys, Grants, DbRecord, SameRows
  <2> QED
    BY <1>3, <2>1, DoneWithRows
<1>5. CASE db.owner[h.provider] # Nobody /\ Commit(d)
  <2> DEFINE q == h.provider
             new == {q} \X h.chosen
  <2>1. /\ d.owner = db.owner /\ d.identities = db.identities
        /\ d.inactive = db.inactive /\ d.activities = db.activities
        /\ d.visibility = [db.visibility EXCEPT ![q] = h.visibility]
        /\ d.shares = {g \in db.shares : g[1] # q} \cup new
    BY <1>1, <1>2 DEF Shared, DbRecord
  <2>2. new \subseteq Provider \X Identity
    BY <1>2
  <2>3. d \in DbRecord
    BY <1>1, <1>2, <2>2 DEF Shared, DbRecord
  <2>4. \A g \in new : g[1] = q /\ g[2] \in h.chosen
    OBVIOUS
  <2> HIDE DEF d, new
  <2>5. Grants(d)
    <3> SUFFICES ASSUME NEW g \in d.shares
                 PROVE  d.visibility[g[1]] = "selected" /\ d.owner[g[1]] # g[2]
      BY DEF Grants
    <3>1. CASE g \in new
      <4>1. g[1] = q /\ g[2] \in h.chosen /\ h.visibility = "selected"
        BY <1>2, <2>4, <3>1
      <4>2. db.owner[q] = h.who /\ g[2] # h.who
        BY <1>2, <1>5, <4>1
      <4> QED
        BY <1>1, <1>2, <2>1, <4>1, <4>2 DEF DbRecord
    <3>2. CASE g \in db.shares /\ g[1] # q
      <4>1. g[1] \in Provider
        BY <1>1, <3>2 DEF DbRecord
      <4> QED
        BY <1>1, <2>1, <3>2, <4>1 DEF Tidy, Grants, DbRecord
    <3> QED
      BY <2>1, <3>1, <3>2
  <2>6. Tidy(d) /\ SameRows(db, d)
    BY <1>1, <2>1, <2>3, <2>5 DEF Tidy, SameRows
  <2> QED
    BY <1>3, <1>5, <2>6, CommitWithRows
<1> QED
  BY <1>4, <1>5 DEF ShareCommit

\* DeleteProviderRead: the provider is read, nothing is written.
LEMMA DeleteProviderReadStep ==
  ASSUME TenancyAssumption, Inv, NEW o \in Handler, NEW p \in Provider,
         DeleteProviderRead(o, p)
  PROVE  Inv'
<1> DEFINE h == [op[o] EXCEPT !.at = "deleting_provider", !.provider = p,
                             !.models = {m \in db.models : m[2] = p},
                             !.routes = {e \in Endpoint : db.routes[e] = p}]
<1>1. op[o] \in HandlerState /\ op[o].who \in Identity /\ db \in DbRecord
  BY DEF Inv, Typed, HandlerInv, DeleteProviderRead, At, DbInv, Tidy
<1>2. h \in HandlerState /\ h.at = "deleting_provider" /\ h.who = op[o].who
  BY <1>1 DEF HandlerState, DbRecord
<1>3. op' = [op EXCEPT ![o] = h] /\ db' = db /\ born' = born
  BY DEF DeleteProviderRead, Goes
<1>4. op'[o] = h
  BY <1>3 DEF Inv, Typed
<1> HIDE DEF h
<1>5. HandlerInv(o)'
  BY <1>1, <1>2, <1>4 DEF HandlerInv
<1>6. Quiet(o, h)
  BY <1>2, <1>3 DEF Quiet, DeleteProviderRead, At, Inv, Typed
<1>7. DbInv'
  BY <1>3 DEF Inv, DbInv, Tidy, ForeignKeys, Grants, DbRecord
<1> QED
  BY <1>2, <1>5, <1>6, <1>7, QuietStep

\* DeleteProviderCommit: mappings, grants and routes go with the provider.
LEMMA DeleteProviderCommitStep ==
  ASSUME Inv, NEW o \in Handler, DeleteProviderCommit(o)
  PROVE  Inv'
<1> DEFINE h == op[o]
           found == {e \in h.routes : db.routes[e] = h.provider}
           d1 == [db EXCEPT !.models = @ \ h.models]
           d2 == DropRoutes(d1, found)
           d3 == DropProviders(d2, {h.provider})
<1>1. db \in DbRecord /\ Tidy(db)
  BY DEF Inv, DbInv, Tidy
<1>2. d1 = [db EXCEPT !.models = db.models \ h.models]
  BY <1>1 DEF DbRecord
<1>3. Tidy(d1) /\ SameRows(db, d1)
  <2>1. db.models \ h.models \in SUBSET (Endpoint \X Provider)
    BY <1>1 DEF DbRecord
  <2> QED
    BY <1>1, <1>2, <2>1, ModelsRows
<1> HIDE DEF d1
<1>4. Tidy(d2) /\ SameRows(d1, d2)
  BY <1>3, DropRoutesRows
<1> HIDE DEF d2
<1>5. Tidy(d3) /\ SameRows(d2, d3)
  BY <1>4, DropProvidersRows
<1>6. SameRows(db, d3)
  <2> HIDE DEF d3
  <2> QED
    BY <1>3, <1>4, <1>5, SameRowsTransitive
<1>7. /\ Commit(d3) /\ Done(o) /\ op[o].at # "inserting"
      /\ UNCHANGED <<server, files, born, job, faults, stray>>
  BY DEF DeleteProviderCommit, At, WithoutProvider, d1, d2
<1> HIDE DEF d3
<1> QED
  BY <1>5, <1>6, <1>7, CommitWithRows

\* SaveCheck: the chosen providers are looked up before the transaction.
LEMMA SaveCheckStep ==
  ASSUME TenancyAssumption, Inv, NEW o \in Handler, NEW e \in Endpoint,
         NEW chosen \in SUBSET Provider, SaveCheck(o, e, chosen)
  PROVE  Inv'
<1> DEFINE at == IF e \in born THEN "updating" ELSE "creating"
           h == [op[o] EXCEPT !.at = at, !.endpoint = e, !.chosen = chosen,
                              !.models = ModelsOf({e})]
<1>1. op[o] \in HandlerState /\ op[o].who \in Identity /\ db \in DbRecord
  BY DEF Inv, Typed, HandlerInv, SaveCheck, At, DbInv, Tidy
<1>2. ModelsOf({e}) \subseteq Endpoint \X Provider
  BY <1>1 DEF ModelsOf, DbRecord
<1>3. /\ h \in HandlerState /\ h.at \in {"updating", "creating"}
      /\ h.endpoint = e /\ h.chosen = chosen /\ h.who = op[o].who
  BY <1>1, <1>2 DEF HandlerState
<1>4. op' = [op EXCEPT ![o] = h] /\ db' = db /\ born' = born \cup {e}
  BY DEF SaveCheck, Goes
<1>5. op'[o] = h
  BY <1>4 DEF Inv, Typed
<1> HIDE DEF h
<1>6. HandlerInv(o)'
  BY <1>1, <1>3, <1>5 DEF HandlerInv
<1>7. Quiet(o, h)
  BY <1>3, <1>4 DEF Quiet, SaveCheck, At, Inv, Typed, Ids
<1>8. DbInv'
  BY <1>4 DEF Inv, DbInv, Tidy, ForeignKeys, Grants, DbRecord
<1> QED
  BY <1>3, <1>6, <1>7, <1>8, QuietStep

\* CreateCommit: the endpoint and its mappings are one transaction.
LEMMA CreateCommitStep ==
  ASSUME Inv, NEW o \in Handler, CreateCommit(o)
  PROVE  Inv'
<1> DEFINE h == op[o]
           new == {h.endpoint} \X h.chosen
           d == [db EXCEPT !.endpoints[h.endpoint] = h.who, !.models = @ \cup new]
<1>1. db \in DbRecord /\ Tidy(db) /\ h.endpoint \in Endpoint
      /\ h.chosen \subseteq Provider /\ h.who \in Identity
  BY DEF Inv, DbInv, Tidy, HandlerInv, CreateCommit, At
<1>2. new \subseteq Endpoint \X Provider
  BY <1>1
<1> HIDE DEF new
<1>3. d \in DbRecord
  BY <1>1, <1>2 DEF DbRecord
<1>4. Tidy(d) /\ SameRows(db, d)
  BY <1>1, <1>3 DEF Tidy, SameRows, Grants, DbRecord
<1>5. /\ Commit(d) /\ Done(o) /\ op[o].at # "inserting"
      /\ UNCHANGED <<server, files, born, job, faults, stray>>
  BY DEF CreateCommit, At, new
<1> HIDE DEF d
<1> QED
  BY <1>4, <1>5, CommitWithRows

\* UpdateCommit: mappings are replaced and routes go, if the endpoint still exists.
LEMMA UpdateCommitStep ==
  ASSUME Inv, NEW o \in Handler, NEW locked, UpdateCommit(o, locked)
  PROVE  Inv'
<1> DEFINE e == op[o].endpoint
           new == {e} \X op[o].chosen
           kept == db.models \ (IF locked THEN ModelsOf({e}) ELSE op[o].models)
           d1 == [db EXCEPT !.models = kept \cup new]
           d2 == DropRoutes(d1, {e})
<1>1. /\ db \in DbRecord /\ Tidy(db) /\ e \in Endpoint
      /\ op[o].chosen \subseteq Provider
  BY DEF Inv, DbInv, Tidy, HandlerInv, UpdateCommit, At
<1>2. kept \cup new \in SUBSET (Endpoint \X Provider)
  BY <1>1 DEF DbRecord
<1>3. /\ Done(o) /\ op[o].at # "inserting"
      /\ UNCHANGED <<server, files, born, job, faults, stray>>
  BY DEF UpdateCommit, At
<1>4. db' = db \/ Commit(d2)
  BY DEF UpdateCommit
<1> HIDE DEF kept, new
<1>5. Tidy(d1) /\ SameRows(db, d1)
  BY <1>1, <1>2, ModelsRows
<1> HIDE DEF d1
<1>6. Tidy(d2) /\ SameRows(d1, d2)
  BY <1>5, DropRoutesRows
<1> HIDE DEF d2
<1>7. SameRows(db, d2)
  BY <1>5, <1>6, SameRowsTransitive
<1>8. CASE db' = db
  <2>1. DbInv' /\ SameRows(db, db')
    BY <1>8 DEF Inv, DbInv, Tidy, ForeignKeys, Grants, DbRecord, SameRows
  <2> QED
    BY <1>3, <2>1, DoneWithRows
<1>9. CASE Commit(d2)
  BY <1>3, <1>6, <1>7, <1>9, CommitWithRows
<1> QED
  BY <1>4, <1>8, <1>9

\* DeleteEndpointRead: the endpoint is read, nothing is written.
LEMMA DeleteEndpointReadStep ==
  ASSUME TenancyAssumption, Inv, NEW o \in Handler, NEW e \in Endpoint,
         DeleteEndpointRead(o, e)
  PROVE  Inv'
<1> DEFINE h == [op[o] EXCEPT !.at = "deleting_endpoint", !.endpoint = e,
                             !.models = ModelsOf({e}),
                             !.routes = {x \in {e} : db.routes[x] # Nobody}]
<1>1. op[o] \in HandlerState /\ op[o].who \in Identity /\ db \in DbRecord
  BY DEF Inv, Typed, HandlerInv, DeleteEndpointRead, At, DbInv, Tidy
<1>2. h \in HandlerState /\ h.at = "deleting_endpoint" /\ h.who = op[o].who
  BY <1>1 DEF HandlerState, DbRecord, ModelsOf
<1>3. op' = [op EXCEPT ![o] = h] /\ db' = db /\ born' = born
  BY DEF DeleteEndpointRead, Goes
<1>4. op'[o] = h
  BY <1>3 DEF Inv, Typed
<1> HIDE DEF h
<1>5. HandlerInv(o)'
  BY <1>1, <1>2, <1>4 DEF HandlerInv
<1>6. Quiet(o, h)
  BY <1>2, <1>3 DEF Quiet, DeleteEndpointRead, At, Inv, Typed
<1>7. DbInv'
  BY <1>3 DEF Inv, DbInv, Tidy, ForeignKeys, Grants, DbRecord
<1> QED
  BY <1>2, <1>5, <1>6, <1>7, QuietStep

\* DeleteEndpointCommit: mappings and routes go with the endpoint.
LEMMA DeleteEndpointCommitStep ==
  ASSUME Inv, NEW o \in Handler, DeleteEndpointCommit(o)
  PROVE  Inv'
<1> DEFINE h == op[o]
           d1 == [db EXCEPT !.models = @ \ h.models]
           d2 == DropRoutes(d1, h.routes)
           d3 == DropEndpoints(d2, {h.endpoint})
<1>1. db \in DbRecord /\ Tidy(db)
  BY DEF Inv, DbInv, Tidy
<1>2. d1 = [db EXCEPT !.models = db.models \ h.models]
  BY <1>1 DEF DbRecord
<1>3. Tidy(d1) /\ SameRows(db, d1)
  <2>1. db.models \ h.models \in SUBSET (Endpoint \X Provider)
    BY <1>1 DEF DbRecord
  <2> QED
    BY <1>1, <1>2, <2>1, ModelsRows
<1>4. /\ Commit(d3) /\ Done(o) /\ op[o].at # "inserting"
      /\ UNCHANGED <<server, files, born, job, faults, stray>>
  BY DEF DeleteEndpointCommit, At
<1> HIDE DEF d1
<1>5. Tidy(d2) /\ SameRows(d1, d2)
  BY <1>3, DropRoutesRows
<1> HIDE DEF d2
<1>6. Tidy(d3) /\ SameRows(d2, d3)
  BY <1>5, DropEndpointsRows
<1> HIDE DEF d3
<1>7. SameRows(db, d3)
  BY <1>3, <1>5, <1>6, SameRowsTransitive
<1> QED
  BY <1>4, <1>6, <1>7, CommitWithRows

-----------------------------------------------------------------------------
(* Protocol handlers.                                                        *)

LEMMA LoadProtocolModelsStep ==
  ASSUME TenancyAssumption, Inv, NEW o \in Handler, LoadProtocolModels(o)
  PROVE  Inv'
<1>1. op[o] \in HandlerState /\ op[o].who \in Identity /\ op[o].at # "inserting"
  BY DEF Inv, Typed, HandlerInv, LoadProtocolModels, At
<1>2. UNCHANGED <<server, db, files, born, job, faults, stray>>
  BY DEF LoadProtocolModels
<1>3. DbInv' /\ SameRows(db, db')
  BY <1>2 DEF Inv, DbInv, Tidy, ForeignKeys, Grants, DbRecord, SameRows
<1>4. CASE Done(o)
  BY <1>1, <1>2, <1>3, <1>4, DoneWithRows
<1>5. ASSUME NEW p \in Provider,
             Goes(o, [op[o] EXCEPT !.at = "answered", !.provider = p])
      PROVE  Inv'
  <2> DEFINE h == [op[o] EXCEPT !.at = "answered", !.provider = p]
  <2>1. h \in HandlerState /\ h.at = "answered" /\ h.who = op[o].who
    BY <1>1 DEF HandlerState
  <2>2. op' = [op EXCEPT ![o] = h]
    BY <1>5 DEF Goes
  <2>3. op'[o] = h
    BY <2>2 DEF Inv, Typed
  <2> HIDE DEF h
  <2>4. HandlerInv(o)'
    BY <1>1, <2>1, <2>3 DEF HandlerInv
  <2>5. Quiet(o, h)
    BY <1>1, <1>2, <2>1, <2>2 DEF Quiet, Inv, Typed
  <2> QED
    BY <1>3, <2>1, <2>4, <2>5, QuietStep
<1> QED
  BY <1>4, <1>5 DEF LoadProtocolModels

\* RememberRoute: the foreign keys refuse a route to what is gone by now.
LEMMA RememberRouteStep ==
  ASSUME Inv, NEW o \in Handler, RememberRoute(o)
  PROVE  Inv'
<1> DEFINE h == op[o]
           d == [db EXCEPT !.routes[h.endpoint] = h.provider]
<1>1. db \in DbRecord /\ Tidy(db) /\ h \in HandlerState
  BY DEF Inv, DbInv, Tidy, Typed
<1>2. h.provider \in Provider \cup {Nobody}
  BY <1>1 DEF HandlerState
<1>3. d \in DbRecord
  BY <1>1, <1>2 DEF DbRecord
<1>4. Tidy(d) /\ SameRows(db, d)
  BY <1>1, <1>3 DEF Tidy, SameRows, Grants, DbRecord
<1>5. /\ Commit(d) /\ Done(o) /\ op[o].at # "inserting"
      /\ UNCHANGED <<server, files, born, job, faults, stray>>
  BY DEF RememberRoute, At
<1> HIDE DEF d
<1> QED
  BY <1>4, <1>5, CommitWithRows

\* A request of i begins: i is active again.
LEMMA BeginStep ==
  ASSUME TenancyAssumption, Inv, NEW o \in Handler, NEW i \in db.identities,
         NEW h \in HandlerState, op' = [op EXCEPT ![o] = h], op[o].at = "idle",
         h.who = i, h.at \in {"managing", "routing"}, Touch(i),
         UNCHANGED <<server, files, born, job, faults, stray>>
  PROVE  Inv'
<1>1. db \in DbRecord /\ i \in Identity
  BY DEF Inv, DbInv, Tidy, DbRecord
<1>2. db' = [db EXCEPT !.inactive = db.inactive \ {i}]
  BY <1>1 DEF Touch, DbRecord
<1>3. /\ db'.identities = db.identities /\ db'.inactive = db.inactive \ {i}
      /\ db'.activities = db.activities /\ db'.owner = db.owner
      /\ db'.visibility = db.visibility /\ db'.shares = db.shares
      /\ db'.endpoints = db.endpoints /\ db'.models = db.models
      /\ db'.routes = db.routes /\ db' \in DbRecord
  BY <1>1, <1>2 DEF DbRecord
<1>4. DbInv'
  BY <1>1, <1>3 DEF Inv, DbInv, Tidy, ForeignKeys, Grants
<1>6. Typed'
  BY DEF Inv, Typed
<1>7. BornInv'
  BY <1>3 DEF Inv, BornInv
<1>8. ASSUME NEW x \in Handler PROVE WhoInv(x)' /\ HandlerInv(x)'
  <2>0. WhoInv(x) /\ HandlerInv(x)
    BY DEF Inv
  <2>1. CASE x = o
    <3>1. op'[x] = h
      BY <2>1 DEF Inv, Typed
    <3>2. WhoInv(x)'
      BY <1>3, <3>1 DEF WhoInv, Inv, BornInv
    <3>3. HandlerInv(x)'
      BY <1>1, <3>1 DEF HandlerInv
    <3> QED
      BY <3>2, <3>3
  <2>2. CASE x # o
    <3>1. op'[x] = op[x]
      BY <2>2 DEF Inv, Typed
    <3>2. WhoInv(x)'
      BY <1>3, <2>0, <3>1 DEF WhoInv
    <3>3. HandlerInv(x)'
      BY <1>3, <2>0, <3>1 DEF HandlerInv
    <3> QED
      BY <3>2, <3>3
  <2> QED
    BY <2>1, <2>2
<1>9. JobInv'
  BY <1>3 DEF Inv, JobInv
<1>10. FilesInv'
  <2>1. ASSUME NEW j, Inserting(j) PROVE Inserting(j)'
    <3>1. PICK x \in Handler : op[x].at = "inserting" /\ op[x].path = j
      BY <2>1 DEF Inserting
    <3>2. op'[x] = op[x]
      BY <3>1 DEF Inv, Typed
    <3> QED
      BY <3>1, <3>2 DEF Inserting
  <2> QED
    BY <1>3, <2>1 DEF Inv, FilesInv, FileInv
<1> QED
  BY <1>4, <1>6, <1>7, <1>8, <1>9, <1>10 DEF Inv

\* Authenticate: the identity is read, and seen from now on.
LEMMA AuthenticateStep ==
  ASSUME TenancyAssumption, Inv, NEW o \in Handler, NEW i \in Identity,
         Authenticate(o, i)
  PROVE  Inv'
<1> DEFINE h == [Idle EXCEPT !.at = "managing", !.who = i]
<1>1. h \in HandlerState /\ h.who = i /\ h.at = "managing"
  BY DEF Idle, HandlerState, Visibility
<1>2. /\ op' = [op EXCEPT ![o] = h] /\ op[o].at = "idle" /\ i \in db.identities
      /\ Touch(i) /\ UNCHANGED <<server, files, born, job, faults, stray>>
  BY DEF Authenticate, At, Goes
<1> HIDE DEF h
<1> QED
  BY <1>1, <1>2, BeginStep

\* ProtocolAccess: the endpoint and its owner are read.
LEMMA ProtocolAccessStep ==
  ASSUME TenancyAssumption, Inv, NEW o \in Handler, NEW e \in Endpoint,
         ProtocolAccess(o, e)
  PROVE  Inv'
<1> DEFINE i == db.endpoints[e]
           h == [Idle EXCEPT !.at = "routing", !.who = i, !.endpoint = e]
<1>1. i \in db.identities /\ i \in Identity
  BY DEF Inv, DbInv, ForeignKeys, Tidy, DbRecord, ProtocolAccess
<1>2. h \in HandlerState /\ h.who = i /\ h.at = "routing"
  BY <1>1 DEF Idle, HandlerState, Visibility
<1>3. /\ op' = [op EXCEPT ![o] = h] /\ op[o].at = "idle"
      /\ Touch(i) /\ UNCHANGED <<server, files, born, job, faults, stray>>
  BY DEF ProtocolAccess, At, Goes
<1> HIDE DEF h, i
<1> QED
  BY <1>1, <1>2, <1>3, BeginStep

\* The turn is in the file, and the handler is about to insert its row.
LEMMA RecordFileStep ==
  ASSUME TenancyAssumption, Inv, NEW o \in Handler, NEW t \in Thread,
         RecordFile(o, t)
  PROVE  Inv'
<1> DEFINE i == op[o].who
           f == <<i, t>>
           h == [op[o] EXCEPT !.at = "inserting", !.path = f]
<1>1. op[o] \in HandlerState /\ i \in Identity /\ i # Nobody /\ WhoInv(o)
  BY DEF Inv, Typed, HandlerInv, RecordFile, At, TenancyAssumption
<1>2. f \in Path /\ f[1] = i
  BY <1>1 DEF Path
<1>3. h \in HandlerState /\ h.who = i /\ h.at = "inserting" /\ h.path = f
  BY <1>1, <1>2 DEF HandlerState
<1>4. /\ op' = [op EXCEPT ![o] = h] /\ files' = files \cup {f}
      /\ UNCHANGED <<server, db, born, job, faults, stray>>
  BY DEF RecordFile, Goes
<1>5. op'[o] = h /\ \A x \in Handler : x # o => op'[x] = op[x]
  BY <1>4 DEF Inv, Typed
<1>6. i \in born
  BY <1>1 DEF WhoInv
<1> HIDE DEF h, f, i
<1>7. DbInv'
  BY <1>4 DEF Inv, DbInv, Tidy, ForeignKeys, Grants, DbRecord
<1>8. Typed'
  BY <1>2, <1>3, <1>4 DEF Inv, Typed
<1>9. BornInv'
  BY <1>2, <1>4, <1>6 DEF Inv, BornInv
<1>10. ASSUME NEW x \in Handler PROVE WhoInv(x)' /\ HandlerInv(x)'
  <2>0. WhoInv(x) /\ HandlerInv(x)
    BY DEF Inv
  <2>1. CASE x = o
    BY <1>1, <1>2, <1>3, <1>4, <1>5, <1>6, <2>1 DEF WhoInv, HandlerInv
  <2>2. CASE x # o
    BY <1>4, <1>5, <2>0, <2>2 DEF WhoInv, HandlerInv
  <2> QED
    BY <2>1, <2>2
<1>11. JobInv'
  BY <1>4 DEF Inv, JobInv
<1>12. FilesInv'
  <2>1. ASSUME NEW g, g = f PROVE Inserting(g)'
    BY <1>3, <1>5, <2>1 DEF Inserting
  <2>2. ASSUME NEW g, Inserting(g) PROVE Inserting(g)'
    <3>1. PICK x \in Handler : op[x].at = "inserting" /\ op[x].path = g
      BY <2>2 DEF Inserting
    <3>2. x # o
      BY <3>1 DEF RecordFile, At
    <3> QED
      BY <1>5, <3>1, <3>2 DEF Inserting
  <2>3. ASSUME NEW g \in files' \ stray' PROVE FileInv(g)'
    <3>1. CASE g = f
      BY <2>1, <3>1 DEF FileInv
    <3>2. CASE g # f
      BY <1>4, <2>2, <2>3, <3>2 DEF Inv, FilesInv, FileInv
    <3> QED
      BY <3>1, <3>2
  <2> QED
    BY <1>4, <2>3 DEF Inv, FilesInv
<1> QED
  BY <1>7, <1>8, <1>9, <1>10, <1>11, <1>12 DEF Inv

\* A handler between file and row ends or goes on, with the row inserted or with
\* the file astray.
LEMMA LeaveInserting ==
  ASSUME TenancyAssumption, Inv, NEW o \in Handler, NEW h \in HandlerState,
         op[o].at = "inserting", op' = [op EXCEPT ![o] = h],
         h.at \in {"remembering", "idle"}, h.who \in {op[o].who, Nobody},
         h.at # "idle" => h.who = op[o].who,
         UNCHANGED <<server, files, born, job, faults>>,
         DbInv', db'.identities = db.identities, db'.owner = db.owner,
         db'.activities \in {db.activities, db.activities \cup {op[o].path}},
         db'.activities \subseteq files,
         stray \subseteq stray', stray' \subseteq Path,
         op[o].path \in db'.activities \cup stray',
         job.at = "ready" => \A g \in db'.activities \ stray' :
                                g[1] \in job.ids => g \in job.paths
  PROVE  Inv'
<1> DEFINE f == op[o].path
<1>1. op'[o] = h /\ \A x \in Handler : x # o => op'[x] = op[x]
  BY DEF Inv, Typed
<1>2. /\ f \in Path /\ f[1] = op[o].who /\ op[o].who \in Identity /\ WhoInv(o)
      /\ \A g \in db'.activities : g[1] \in db.identities
  BY DEF Inv, HandlerInv, DbInv, ForeignKeys
<1>3. Typed'
  BY DEF Inv, Typed
<1>4. BornInv'
  BY DEF Inv, BornInv
<1>5. ASSUME NEW x \in Handler PROVE WhoInv(x)' /\ HandlerInv(x)'
  <2>0. WhoInv(x) /\ HandlerInv(x)
    BY DEF Inv
  <2>1. CASE x = o
    BY <1>1, <1>2, <2>1 DEF WhoInv, HandlerInv
  <2>2. CASE x # o
    BY <1>1, <2>0, <2>2 DEF WhoInv, HandlerInv
  <2> QED
    BY <2>1, <2>2
<1>6. JobInv'
  BY DEF Inv, JobInv
<1>7. FilesInv'
  <2>1. ASSUME NEW g, Inserting(g), g # f PROVE Inserting(g)'
    <3>1. PICK x \in Handler : op[x].at = "inserting" /\ op[x].path = g
      BY <2>1 DEF Inserting
    <3>2. x # o
      BY <2>1, <3>1
    <3> QED
      BY <1>1, <3>1, <3>2 DEF Inserting
  <2>2. ASSUME NEW g \in files \ stray' PROVE FileInv(g)'
    <3>1. CASE g = f
      <4>1. f \in db'.activities /\ f[1] \in db.identities
        BY <1>2, <2>2, <3>1
      <4> QED
        BY <3>1, <4>1 DEF FileInv
    <3>2. CASE g # f
      <4>1. FileInv(g)
        BY <2>2 DEF Inv, FilesInv
      <4> QED
        BY <2>1, <3>2, <4>1 DEF FileInv
    <3> QED
      BY <3>1, <3>2
  <2> QED
    BY <2>2 DEF FilesInv
<1> QED
  BY <1>3, <1>4, <1>5, <1>6, <1>7 DEF Inv

\* The row of the activity: its file is there, because a file goes only with its
\* identity; it is refused only when the identity is gone.
LEMMA RecordRowStep ==
  ASSUME TenancyAssumption, Inv, NEW o \in Handler, RecordRow(o)
  PROVE  Inv'
<1> DEFINE f == op[o].path
           d == [db EXCEPT !.activities = db.activities \cup {f}]
           late == job.at = "ready" /\ f[1] \in job.ids /\ f \notin job.paths
           h == [op[o] EXCEPT !.at = "remembering"]
<1>1. /\ op[o] \in HandlerState /\ op[o].at = "inserting" /\ f \in Path
      /\ op[o].who \in Identity /\ f[1] = op[o].who
      /\ (op[o].who \in db.identities => f \in files)
      /\ db \in DbRecord /\ Tidy(db) /\ ForeignKeys(db)
  BY DEF Inv, Typed, HandlerInv, RecordRow, At, DbInv, Tidy
<1>2. h \in HandlerState /\ h.who = op[o].who /\ h.at = "remembering"
  BY <1>1 DEF HandlerState
<1>3. /\ d.identities = db.identities /\ d.inactive = db.inactive
      /\ d.activities = db.activities \cup {f} /\ d.owner = db.owner
      /\ d.visibility = db.visibility /\ d.shares = db.shares
      /\ d.endpoints = db.endpoints /\ d.models = db.models
      /\ d.routes = db.routes /\ d \in DbRecord
  BY <1>1 DEF DbRecord
<1>4. Tidy(d)
  BY <1>1, <1>3 DEF Tidy, Grants
<1>5. d = [db EXCEPT !.activities = @ \cup {f}]
  BY <1>1 DEF DbRecord
<1>6. UNCHANGED <<server, files, born, job, faults>> /\ stray \subseteq Path
  BY DEF RecordRow, Inv, Typed
<1>7. \/ /\ ForeignKeys(d) /\ db' = d /\ op' = [op EXCEPT ![o] = h]
         /\ stray' = IF late THEN stray \cup {f} ELSE stray
      \/ /\ Done(o) /\ Strays({f}) /\ db' = db
  BY <1>5 DEF RecordRow, Goes
<1>8. db.activities \subseteq files
  BY DEF Inv, FilesInv
<1> HIDE DEF h, d
<1>9. CASE /\ ForeignKeys(d) /\ db' = d /\ op' = [op EXCEPT ![o] = h]
           /\ stray' = IF late THEN stray \cup {f} ELSE stray
  <2>1. DbInv'
    BY <1>4, <1>9, CommitDb DEF Inv, Commit
  <2>2. f \in files
    BY <1>1, <1>3, <1>9 DEF ForeignKeys
  <2>3. ASSUME job.at = "ready", NEW g \in db'.activities \ stray',
               g[1] \in job.ids
        PROVE  g \in job.paths
    <3>1. CASE g = f
      BY <1>9, <2>3, <3>1
    <3>2. CASE g # f
      BY <1>3, <1>9, <2>3, <3>2 DEF Inv, JobInv
    <3> QED
      BY <3>1, <3>2
  <2>4. /\ db'.identities = db.identities /\ db'.owner = db.owner
        /\ db'.activities = db.activities \cup {f}
        /\ db'.activities \subseteq files
    BY <1>3, <1>8, <1>9, <2>2
  <2>5. stray \subseteq stray' /\ stray' \subseteq Path
    BY <1>1, <1>6, <1>9
  <2> QED
    BY <1>1, <1>2, <1>6, <1>9, <2>1, <2>3, <2>4, <2>5, LeaveInserting
<1>10. CASE Done(o) /\ Strays({f}) /\ db' = db
  <2>1. DbInv'
    BY <1>10 DEF Inv, DbInv, Tidy, ForeignKeys, Grants, DbRecord
  <2>2. /\ stray' = stray \cup ({f} \ db.activities)
        /\ op' = [op EXCEPT ![o] = Idle]
    BY <1>10 DEF Strays, Done, Goes
  <2>3. /\ stray \subseteq stray' /\ stray' \subseteq Path
        /\ f \in db.activities \cup stray'
    BY <1>1, <1>6, <2>2
  <2>4. job.at = "ready" => \A g \in db'.activities \ stray' :
                                g[1] \in job.ids => g \in job.paths
    BY <1>10, <2>3 DEF Inv, JobInv
  <2>5. Idle \in HandlerState /\ Idle.at = "idle" /\ Idle.who = Nobody
    BY IdleState DEF Idle
  <2> QED
    BY <1>1, <1>6, <1>8, <1>10, <2>1, <2>2, <2>3, <2>4, <2>5, LeaveInserting
<1> QED
  BY <1>7, <1>9, <1>10

\* A dropped future leaves everything committed as it is; the file it has written
\* stays without a row.
LEMMA AbandonStep ==
  ASSUME TenancyAssumption, Inv, NEW o \in Handler, Abandon(o)
  PROVE  Inv'
<1> DEFINE f == op[o].path
<1>1. /\ Done(o) /\ Strays(Written({o})) /\ stray \subseteq Path
      /\ UNCHANGED <<server, db, files, born, job, faults>>
  BY DEF Abandon, Inv, Typed
<1>2. DbInv' /\ SameRows(db, db')
  BY <1>1 DEF Inv, DbInv, Tidy, ForeignKeys, Grants, DbRecord, SameRows
<1>3. CASE op[o].at # "inserting"
  <2>1. Written({o}) = {}
    BY <1>3 DEF Written
  <2>2. stray' = stray
    BY <1>1, <2>1 DEF Strays
  <2> QED
    BY <1>1, <1>2, <1>3, <2>2, DoneWithRows
<1>4. CASE op[o].at = "inserting"
  <2>1. Written({o}) = {f}
    BY <1>4 DEF Written
  <2>2. f \in Path /\ db.activities \subseteq files
    BY <1>4 DEF Inv, HandlerInv, FilesInv
  <2>3. /\ stray' = stray \cup ({f} \ db.activities)
        /\ op' = [op EXCEPT ![o] = Idle]
    BY <1>1, <2>1 DEF Strays, Done, Goes
  <2>4. /\ stray \subseteq stray' /\ stray' \subseteq Path
        /\ f \in db.activities \cup stray'
    BY <1>1, <2>2, <2>3
  <2>5. job.at = "ready" => \A g \in db'.activities \ stray' :
                                g[1] \in job.ids => g \in job.paths
    BY <1>1, <2>4 DEF Inv, JobInv
  <2>6. Idle \in HandlerState /\ Idle.at = "idle" /\ Idle.who = Nobody
    BY IdleState DEF Idle
  <2> QED
    BY <1>1, <1>2, <1>4, <2>2, <2>3, <2>4, <2>5, <2>6, LeaveInserting
<1> QED
  BY <1>3, <1>4

-----------------------------------------------------------------------------
(* Registration, the passing of time and the cleanup.                        *)

LEMMA RegisterStep ==
  ASSUME TenancyAssumption, Inv, NEW i \in Identity, Register(i)
  PROVE  Inv'
<1>1. /\ db' = [db EXCEPT !.identities = db.identities \cup {i}]
      /\ i \notin born /\ born' = born \cup {i}
      /\ UNCHANGED <<server, files, op, job, faults, stray>>
      /\ db \in DbRecord
  BY DEF Register, Inv, DbInv, Tidy, DbRecord
<1>2. /\ db'.identities = db.identities \cup {i} /\ db'.inactive = db.inactive
      /\ db'.activities = db.activities /\ db'.owner = db.owner
      /\ db'.visibility = db.visibility /\ db'.shares = db.shares
      /\ db'.endpoints = db.endpoints /\ db'.models = db.models
      /\ db'.routes = db.routes /\ db' \in DbRecord
  BY <1>1 DEF DbRecord
<1>3. DbInv'
  BY <1>2 DEF Inv, DbInv, Tidy, Grants, ForeignKeys
<1>4. Typed' /\ BornInv'
  BY <1>1, <1>2 DEF Inv, Typed, BornInv, Ids
<1>5. ASSUME NEW o \in Handler PROVE WhoInv(o)' /\ HandlerInv(o)'
  <2>1. WhoInv(o) /\ HandlerInv(o) /\ i # Nobody
    BY DEF Inv, TenancyAssumption
  <2>2. op[o].who # i
    BY <1>1, <2>1 DEF WhoInv
  <2> QED
    BY <1>1, <1>2, <2>1, <2>2 DEF WhoInv, HandlerInv
<1>6. JobInv'
  BY <1>1, <1>2 DEF Inv, JobInv, BornInv
<1>7. FilesInv'
  <2>1. \A f \in files : f[1] # i
    BY <1>1 DEF Inv, BornInv
  <2>2. \A j : Inserting(j) => Inserting(j)'
    BY <1>1 DEF Inserting
  <2> QED
    BY <1>1, <1>2, <2>1, <2>2 DEF Inv, FilesInv, FileInv
<1> QED
  BY <1>3, <1>4, <1>5, <1>6, <1>7 DEF Inv

\* GoInactive: time passes for an identity, its rows stay.
LEMMA GoInactiveStep ==
  ASSUME TenancyAssumption, Inv, NEW i \in Identity, GoInactive(i)
  PROVE  Inv'
<1>1. /\ db' = [db EXCEPT !.inactive = db.inactive \cup {i}]
      /\ i \in db.identities /\ \A o \in Handler : op[o].who # i
      /\ UNCHANGED <<server, files, born, op, job, faults, stray>>
      /\ db \in DbRecord
  BY DEF GoInactive, Inv, DbInv, Tidy, DbRecord
<1>2. /\ db'.identities = db.identities /\ db'.inactive = db.inactive \cup {i}
      /\ db'.activities = db.activities /\ db'.owner = db.owner
      /\ db'.visibility = db.visibility /\ db'.shares = db.shares
      /\ db'.endpoints = db.endpoints /\ db'.models = db.models
      /\ db'.routes = db.routes /\ db' \in DbRecord
  BY <1>1 DEF DbRecord
<1>3. DbInv'
  BY <1>1, <1>2 DEF Inv, DbInv, Tidy, Grants, ForeignKeys
<1>4. Typed' /\ BornInv'
  BY <1>1, <1>2 DEF Inv, Typed, BornInv
<1>5. \A o \in Handler : WhoInv(o)' /\ HandlerInv(o)'
  BY <1>1, <1>2 DEF Inv, WhoInv, HandlerInv
<1>6. JobInv'
  BY <1>1, <1>2 DEF Inv, JobInv
<1>7. FilesInv'
  <2>1. \A j : Inserting(j) => Inserting(j)'
    BY <1>1 DEF Inserting
  <2> QED
    BY <1>1, <1>2, <2>1 DEF Inv, FilesInv, FileInv
<1> QED
  BY <1>3, <1>4, <1>5, <1>6, <1>7 DEF Inv

\* A step of the cleanup or of the process that leaves the rows, the files and
\* the handlers alone; files it no longer counts as astray have a row.
LEMMA JobStep ==
  ASSUME TenancyAssumption, Inv, UNCHANGED <<db, files, born, op>>,
         stray' \subseteq stray, stray \ stray' \subseteq db.activities,
         server' \in {"down", "starting", "up"}, faults' \in 0..MaxFaults,
         job' \in JobRecord, job'.ids \subseteq job.ids \cup db.inactive,
         job.at = "removing" => job' = job, JobInv'
  PROVE  Inv'
<1>1. DbInv'
  BY DEF Inv, DbInv, Tidy, ForeignKeys, Grants, DbRecord
<1>2. Typed' /\ BornInv'
  BY DEF Inv, Typed, BornInv, DbInv, Tidy
<1>3. \A o \in Handler : WhoInv(o)' /\ HandlerInv(o)'
  BY DEF Inv, WhoInv, HandlerInv
<1>4. FilesInv'
  <2>1. \A j : Inserting(j) => Inserting(j)'
    BY DEF Inserting
  <2>2. ASSUME NEW f \in files \ stray' PROVE FileInv(f)'
    <3>1. CASE f \in stray
      <4>1. f \in db.activities /\ f[1] \in db.identities
        BY <2>2, <3>1 DEF Inv, DbInv, ForeignKeys
      <4> QED
        BY <4>1 DEF FileInv
    <3>2. CASE f \notin stray
      <4>1. FileInv(f)
        BY <2>2, <3>2 DEF Inv, FilesInv
      <4> QED
        BY <2>1, <4>1 DEF FileInv
    <3> QED
      BY <3>1, <3>2
  <2> QED
    BY <2>2 DEF Inv, FilesInv
<1> QED
  BY <1>1, <1>2, <1>3, <1>4 DEF Inv

\* A cleanup that does not run holds no identity and no path.
LEMMA OffJob == Off \in JobRecord /\ Off.ids = {} /\ Off.paths = {} /\ Off.at = "off"
  BY DEF Off, JobRecord

\* SelectInactive: the cleanup notes the identities it is going to delete.
LEMMA SelectInactiveStep ==
  ASSUME TenancyAssumption, Inv, SelectInactive
  PROVE  Inv'
<1>1. db \in DbRecord /\ db.inactive \subseteq db.identities
  BY DEF Inv, DbInv, Tidy
<1>2. /\ job' \in JobRecord /\ job'.ids = db.inactive /\ job'.at = "selected"
      /\ job'.paths = {} /\ job.at = "off"
  BY <1>1 DEF SelectInactive, Running, Off, JobRecord, DbRecord
<1>3. UNCHANGED <<db, files, born, op, stray, server, faults>>
  BY DEF SelectInactive
<1>4. JobInv'
  BY <1>1, <1>2, <1>3 DEF JobInv
<1> QED
  BY <1>2, <1>3, <1>4, JobStep DEF Inv, Typed

\* SelectEndpoints: the cleanup reads the endpoints they own.
LEMMA SelectEndpointsStep ==
  ASSUME TenancyAssumption, Inv, SelectEndpoints
  PROVE  Inv'
<1>1. job \in JobRecord /\ job.at = "selected"
  BY DEF Inv, Typed, SelectEndpoints, Running
<1>2. /\ job' \in JobRecord /\ job'.ids = job.ids /\ job'.at = "listed"
      /\ job'.paths = job.paths
  BY <1>1 DEF SelectEndpoints, JobRecord, EndpointsOf
<1>3. UNCHANGED <<db, files, born, op, stray, server, faults>>
  BY DEF SelectEndpoints
<1>4. JobInv'
  BY <1>1, <1>2, <1>3 DEF Inv, JobInv
<1> QED
  BY <1>1, <1>2, <1>3, <1>4, JobStep DEF Inv, Typed

\* SelectPaths: the cleanup notes the files of the activities it is going to
\* delete, those included that were astray when no row named them.
LEMMA SelectPathsStep ==
  ASSUME TenancyAssumption, Inv, SelectPaths
  PROVE  Inv'
<1>1. job \in JobRecord /\ job.at = "listed" /\ db \in DbRecord
  BY DEF Inv, Typed, SelectPaths, Running, DbInv, Tidy
<1>2. /\ job' \in JobRecord /\ job'.ids = job.ids /\ job'.at = "ready"
      /\ job'.paths = {f \in db.activities : f[1] \in job.ids}
  BY <1>1 DEF SelectPaths, JobRecord, DbRecord
<1>3. /\ UNCHANGED <<db, files, born, op, server, faults>>
      /\ stray' = stray \ job'.paths
  BY DEF SelectPaths
<1>4. JobInv'
  BY <1>1, <1>2, <1>3 DEF Inv, JobInv
<1> QED
  BY <1>1, <1>2, <1>3, <1>4, JobStep DEF Inv, Typed

\* A cleanup that fails before its commit leaves all rows and files.
LEMMA CleanupFailedStep ==
  ASSUME TenancyAssumption, Inv, CleanupFailed, job.at # "removing",
         UNCHANGED <<db, files, born, op, stray>>, faults' \in 0..MaxFaults
  PROVE  Inv'
<1>1. /\ job' \in JobRecord /\ job'.ids = {} /\ job'.paths = {} /\ job'.at = "off"
      /\ server' \in {"down", "starting", "up"}
  BY OffJob DEF CleanupFailed, Inv, Typed
<1>2. JobInv'
  BY <1>1 DEF JobInv
<1> QED
  BY <1>1, <1>2, JobStep

\* What the cleanup's transaction makes of the rows.
LEMMA CleanedRows ==
  ASSUME TenancyAssumption, Inv
  PROVE  /\ Tidy(Cleaned)
         /\ Cleaned.identities = db.identities \ job.ids
         /\ Cleaned.inactive = db.inactive \ job.ids
         /\ Cleaned.activities = {f \in db.activities : f[1] \notin job.ids}
         /\ \A p \in Provider : Cleaned.owner[p] \in {db.owner[p], Nobody}
<1> DEFINE d0 == [db EXCEPT !.activities = {f \in db.activities : f[1] \notin job.ids},
                            !.models = db.models \ ModelsOf(job.endpoints)]
           d1 == DropRoutes(d0, job.endpoints)
           d2 == DropEndpoints(d1, EndpointsOf(job.ids))
           d3 == DropProviders(d2, ProvidersOf(job.ids))
           d4 == DropIdentities(d3, job.ids)
<1>1. db \in DbRecord /\ Tidy(db)
  BY DEF Inv, DbInv, Tidy
<1>2. Cleaned = d4
  BY <1>1 DEF Cleaned, DbRecord
<1>3. /\ Tidy(d0) /\ d0.identities = db.identities /\ d0.inactive = db.inactive
      /\ d0.activities = {f \in db.activities : f[1] \notin job.ids}
      /\ d0.owner = db.owner
  BY <1>1 DEF Tidy, Grants, DbRecord
<1> HIDE DEF d0
<1>4. Tidy(d1) /\ SameRows(d0, d1)
  BY <1>3, DropRoutesRows
<1> HIDE DEF d1
<1>5. Tidy(d2) /\ SameRows(d1, d2)
  BY <1>4, DropEndpointsRows
<1> HIDE DEF d2
<1>6. Tidy(d3) /\ SameRows(d2, d3)
  BY <1>5, DropProvidersRows
<1> HIDE DEF d3
<1>7. SameRows(d0, d3)
  BY <1>4, <1>5, <1>6, SameRowsTransitive
<1>8. /\ d4 \in DbRecord /\ d4.identities = d3.identities \ job.ids
      /\ d4.inactive = d3.inactive \ job.ids /\ d4.activities = d3.activities
      /\ d4.owner = d3.owner /\ d4.visibility = d3.visibility
      /\ d4.shares \subseteq d3.shares
  BY <1>6 DEF DropIdentities, Tidy, DbRecord
<1> HIDE DEF d4
<1>9. Tidy(d4)
  BY <1>6, <1>8 DEF Tidy, Grants
<1> QED
  BY <1>2, <1>3, <1>7, <1>8, <1>9 DEF SameRows

\* CommitCleanup: all rows of the selected identities go in one transaction.
LEMMA CommitCleanupStep ==
  ASSUME TenancyAssumption, Inv, CommitCleanup
  PROVE  Inv'
<1> DEFINE d == Cleaned
<1>1. /\ job \in JobRecord /\ job.at = "ready" /\ db \in DbRecord
      /\ UNCHANGED <<files, born, op, faults, stray>> /\ Commit(d)
  BY DEF Inv, Typed, CommitCleanup, Running, DbInv, Tidy
<1>2. CASE ~ForeignKeys(d)
  BY <1>1, <1>2, CleanupFailedStep DEF CommitCleanup, Commit, Inv, Typed
<1>3. CASE ForeignKeys(d)
  <2>1. /\ db' = d /\ job' = [job EXCEPT !.at = "removing"] /\ server' = server
    BY <1>1, <1>3 DEF CommitCleanup, Commit
  <2>2. /\ job' \in JobRecord /\ job'.ids = job.ids /\ job'.at = "removing"
        /\ job'.paths = job.paths
    BY <1>1, <2>1 DEF JobRecord
  <2>3. /\ db'.identities = db.identities \ job.ids
        /\ db'.inactive = db.inactive \ job.ids
        /\ db'.activities = {f \in db.activities : f[1] \notin job.ids}
        /\ \A p \in Provider : db'.owner[p] \in {db.owner[p], Nobody}
    BY <2>1, CleanedRows
  <2>4. DbInv'
    BY <1>1, CleanedRows, CommitDb DEF Inv
  <2>5. Typed' /\ BornInv'
    BY <1>1, <2>1, <2>2, <2>3 DEF Inv, Typed, BornInv
  <2>6. ASSUME NEW o \in Handler PROVE WhoInv(o)' /\ HandlerInv(o)'
    <3>0. WhoInv(o) /\ HandlerInv(o)
      BY DEF Inv
    <3>1. WhoInv(o)'
      BY <1>1, <2>2, <2>3, <3>0 DEF WhoInv
    <3>2. HandlerInv(o)'
      BY <1>1, <2>3, <3>0 DEF HandlerInv
    <3> QED
      BY <3>1, <3>2
  <2>7. JobInv'
    BY <2>2, <2>3 DEF Inv, JobInv
  <2>8. FilesInv'
    <3>1. \A j : Inserting(j) => Inserting(j)'
      BY <1>1 DEF Inserting
    <3>2. ASSUME NEW f \in files \ stray PROVE FileInv(f)'
      <4>0. FileInv(f)
        BY <3>2 DEF Inv, FilesInv
      <4>1. CASE f[1] \in job.ids
        <5>1. f[1] \in db.identities /\ f[1] \notin db'.identities
          BY <1>1, <2>3, <4>1 DEF Inv, JobInv
        <5>2. f \in db.activities => f \in job.paths
          BY <1>1, <3>2, <4>1 DEF Inv, JobInv
        <5> QED
          BY <2>2, <3>1, <4>0, <5>1, <5>2 DEF FileInv
      <4>2. CASE f[1] \notin job.ids
        <5>1. f \in db'.activities <=> f \in db.activities
          BY <2>3, <4>2
        <5>2. f[1] \in db'.identities <=> f[1] \in db.identities
          BY <2>3, <4>2
        <5> QED
          BY <1>1, <3>1, <4>0, <5>1, <5>2 DEF FileInv
      <4> QED
        BY <4>1, <4>2
    <3> QED
      BY <1>1, <2>3, <3>2 DEF Inv, FilesInv
  <2> QED
    BY <2>4, <2>5, <2>6, <2>7, <2>8 DEF Inv
<1> QED
  BY <1>2, <1>3

\* RemoveFile: a file the cleanup removes belongs to an identity that is gone, so
\* no row names it and none will.
LEMMA RemoveFileStep ==
  ASSUME TenancyAssumption, Inv, NEW f, RemoveFile(f)
  PROVE  Inv'
<1>1. /\ job.at = "removing" /\ f \in job.paths /\ f \in Path
      /\ job \in JobRecord /\ stray \subseteq Path
      /\ UNCHANGED <<server, db, born, op, faults>>
  BY DEF RemoveFile, Running, Inv, Typed, JobRecord
<1>2. /\ job' \in JobRecord /\ job'.at = "removing" /\ job'.ids = job.ids
      /\ job'.paths = job.paths \ {f}
  BY <1>1 DEF RemoveFile, JobRecord
<1>3. f[1] \notin db.identities /\ f \notin db.activities
  BY <1>1 DEF Inv, JobInv, DbInv, ForeignKeys
<1>4. \/ files' = files \ {f} /\ stray' = stray
      \/ files' = files /\ stray' = stray \cup {f}
  BY <1>3 DEF RemoveFile, Strays
<1>5. DbInv'
  BY <1>1 DEF Inv, DbInv, Tidy, ForeignKeys, Grants, DbRecord
<1>6. Typed' /\ BornInv'
  BY <1>1, <1>2, <1>4 DEF Inv, Typed, BornInv
<1>7. ASSUME NEW o \in Handler PROVE WhoInv(o)' /\ HandlerInv(o)'
  <2>1. WhoInv(o) /\ HandlerInv(o)
    BY DEF Inv
  <2>2. op[o].at = "inserting" /\ op[o].who \in db.identities => op[o].path # f
    BY <1>3, <2>1 DEF HandlerInv
  <2> QED
    BY <1>1, <1>4, <2>1, <2>2 DEF WhoInv, HandlerInv
<1>8. JobInv'
  BY <1>1, <1>2 DEF Inv, JobInv
<1>9. FilesInv'
  <2>1. \A j : Inserting(j) => Inserting(j)'
    BY <1>1 DEF Inserting
  <2>2. ASSUME NEW g \in files' \ stray' PROVE FileInv(g)'
    <3>1. g # f /\ FileInv(g)
      BY <1>4, <2>2 DEF Inv, FilesInv
    <3> QED
      BY <1>1, <1>2, <2>1, <3>1 DEF FileInv
  <2>3. db.activities \subseteq files'
    BY <1>3, <1>4 DEF Inv, FilesInv
  <2> QED
    BY <1>1, <2>2, <2>3 DEF FilesInv
<1> QED
  BY <1>5, <1>6, <1>7, <1>8, <1>9 DEF Inv

\* CleanupDone: no path is left.
LEMMA CleanupDoneStep ==
  ASSUME TenancyAssumption, Inv, CleanupDone
  PROVE  Inv'
<1>1. /\ job' = Off /\ server' = "up" /\ job.at = "removing" /\ job.paths = {}
      /\ UNCHANGED <<db, files, born, op, faults, stray>>
  BY DEF CleanupDone, Running
<1>2. /\ job' \in JobRecord /\ job'.ids = {} /\ job'.paths = {} /\ job'.at = "off"
  BY <1>1, OffJob
<1>3. DbInv'
  BY <1>1 DEF Inv, DbInv, Tidy, ForeignKeys, Grants, DbRecord
<1>4. Typed' /\ BornInv'
  BY <1>1, <1>2 DEF Inv, Typed, BornInv
<1>5. \A o \in Handler : WhoInv(o)' /\ HandlerInv(o)'
  BY <1>1, <1>2 DEF Inv, WhoInv, HandlerInv
<1>6. JobInv'
  BY <1>2 DEF JobInv
<1>7. FilesInv'
  <2>1. \A j : Inserting(j) => Inserting(j)'
    BY <1>1 DEF Inserting
  <2> QED
    BY <1>1, <2>1 DEF Inv, FilesInv, FileInv
<1> QED
  BY <1>3, <1>4, <1>5, <1>6, <1>7 DEF Inv

\* A crash loses the handlers and the cleanup; the files whose rows they would
\* have inserted, or which they would have removed, are astray.
LEMMA CrashStep ==
  ASSUME TenancyAssumption, Inv, Crash
  PROVE  Inv'
<1> DEFINE left == job.paths \cup Written(Handler)
<1>1. /\ op' = [o \in Handler |-> Idle] /\ job' = Off /\ server' = "down"
      /\ UNCHANGED <<db, files, born>> /\ faults' = faults + 1 /\ faults < MaxFaults
      /\ stray' = stray \cup (left \ db.activities)
  BY DEF Crash, Strays
<1>2. /\ job' \in JobRecord /\ job'.ids = {} /\ job'.paths = {} /\ job'.at = "off"
  BY <1>1, OffJob
<1>3. left \subseteq Path
  BY DEF Inv, HandlerInv, Written, Typed, JobRecord
<1>4. \A f : Inserting(f) => f \in left
  BY DEF Inserting, Written
<1> HIDE DEF left
<1>5. DbInv'
  BY <1>1 DEF Inv, DbInv, Tidy, ForeignKeys, Grants, DbRecord
<1>6. Typed'
  BY <1>1, <1>2, <1>3, IdleState DEF Inv, Typed, TenancyAssumption
<1>7. BornInv'
  BY <1>1, <1>2 DEF Inv, BornInv
<1>8. \A o \in Handler : WhoInv(o)' /\ HandlerInv(o)'
  BY <1>1 DEF WhoInv, HandlerInv, Idle
<1>9. JobInv'
  BY <1>2 DEF JobInv
<1>10. FilesInv'
  <2>1. ASSUME NEW f \in files \ stray'
        PROVE  f[1] \in db.identities /\ f \in db.activities
    <3>1. FileInv(f) /\ (f \in left => f \in db.activities)
      BY <1>1, <2>1 DEF Inv, FilesInv
    <3>2. f \in db.activities
      BY <1>4, <3>1 DEF FileInv, left
    <3> QED
      BY <3>2 DEF Inv, DbInv, ForeignKeys
  <2> QED
    BY <1>1, <2>1 DEF Inv, FilesInv, FileInv
<1> QED
  BY <1>5, <1>6, <1>7, <1>8, <1>9, <1>10 DEF Inv

-----------------------------------------------------------------------------
(* The theorems.                                                             *)

\* Every step of a handler, of the cleanup and of the process keeps Inv.
LEMMA InvStep ==
  ASSUME TenancyAssumption, Inv, [Next]_vars
  PROVE  Inv'
<1>1. ASSUME NEW o \in Handler, Manage(o) PROVE Inv'
  BY <1>1, AuthenticateStep, CreateProviderStep, DeleteProviderReadStep,
     ShareCheckStep, ShareCommitStep, DeleteProviderCommitStep, SaveCheckStep,
     CreateCommitStep, UpdateCommitStep, DeleteEndpointReadStep,
     DeleteEndpointCommitStep DEF Manage
<1>2. ASSUME NEW o \in Handler, Serve(o) PROVE Inv'
  BY <1>2, ProtocolAccessStep, LoadProtocolModelsStep, RecordFileStep,
     RecordRowStep, RememberRouteStep DEF Serve
<1>3. ASSUME UNCHANGED <<db, files, born, op, job, faults, stray>>,
             server' \in {"down", "starting", "up"}
      PROVE  Inv'
  <2>1. JobInv'
    BY <1>3 DEF Inv, JobInv
  <2> QED
    BY <1>3, <2>1, JobStep DEF Inv, Typed
<1>4. CASE Cleanup
  <2>1. CASE NothingToDelete
    BY <1>3, <2>1 DEF NothingToDelete
  <2> QED
    BY <1>4, <2>1, SelectInactiveStep, SelectEndpointsStep, SelectPathsStep,
       CommitCleanupStep, RemoveFileStep, CleanupDoneStep DEF Cleanup
<1>5. CASE CleanupFault
  <2>1. faults' \in 0..MaxFaults
    BY <1>5 DEF CleanupFault, Inv, Typed, TenancyAssumption
  <2> QED
    BY <1>5, <2>1, CleanupFailedStep DEF CleanupFault
<1>6. CASE Start
  BY <1>3, <1>6 DEF Start
<1>7. ASSUME NEW o \in Handler, Abandon(o) PROVE Inv'
  BY <1>7, AbandonStep
<1>8. CASE UNCHANGED vars
  BY <1>3, <1>8 DEF vars, Inv, Typed
<1> QED
  BY <1>1, <1>2, <1>4, <1>5, <1>6, <1>7, <1>8, RegisterStep, GoInactiveStep, CrashStep
     DEF Next, Handler

\* The invariant is inductive.
THEOREM TenancyInvariant == Spec => []Inv
<1>1. Init => Inv
  BY InitInv, TenancyAssumption
<1>2. Inv /\ [Next]_vars => Inv'
  BY InvStep, TenancyAssumption
<1> QED
  BY <1>1, <1>2, PTL DEF Spec

\* Every row, every handler and the cleanup keep their types.
THEOREM TypeCorrect == Spec => []TypeOK
<1>1. Inv => TypeOK
  BY DEF Inv, Typed, DbInv, Tidy, DbRecord, JobRecord, TypeOK
<1> QED
  BY <1>1, TenancyInvariant, PTL

\* However the statements of deletes, saves, grants, late upserts and the
\* cleanup of inactive identities interleave, no route, mapping or grant is left
\* for a row that is gone, and no grant outlives the visibility it belongs to.
THEOREM NothingIsOrphaned == Spec => []NoOrphans
<1>1. Inv => NoOrphans
  <2> SUFFICES ASSUME Inv PROVE NoOrphans
    OBVIOUS
  <2>1. db \in DbRecord /\ ForeignKeys(db) /\ Grants(db)
    BY DEF Inv, DbInv, Tidy
  <2>2. \A e \in Endpoint : db.routes[e] # Nobody =>
           db.endpoints[e] # Nobody /\ db.owner[db.routes[e]] # Nobody
    BY <2>1 DEF ForeignKeys
  <2>3. ASSUME NEW m \in db.models
        PROVE  db.endpoints[m[1]] \in db.identities /\ db.owner[m[2]] \in db.identities
    <3>1. m[1] \in Endpoint /\ m[2] \in Provider
      BY <2>1 DEF DbRecord
    <3> QED
      BY <2>1, <3>1 DEF ForeignKeys
  <2>4. ASSUME NEW g \in db.shares
        PROVE  /\ {db.owner[g[1]], g[2]} \subseteq db.identities
               /\ db.visibility[g[1]] = "selected" /\ db.owner[g[1]] # g[2]
    <3>1. g[1] \in Provider
      BY <2>1 DEF DbRecord
    <3> QED
      BY <2>1, <3>1 DEF ForeignKeys, Grants
  <2> QED
    BY <2>2, <2>3, <2>4 DEF NoOrphans
<1> QED
  BY <1>1, TenancyInvariant, PTL

\* delete_inactive and remove_rollout_files leave no file of an identity they
\* deleted but the strays: files whose rows were not inserted in time or at all,
\* files that could not be removed, and those a crash came before.  And they never
\* remove a file that a row names or is about to name.
THEOREM FilesAreRemoved == Spec => []FilesGoWithIdentity
<1>1. Inv => FilesGoWithIdentity
  <2> SUFFICES ASSUME Inv PROVE FilesGoWithIdentity
    OBVIOUS
  <2>1. \A f : Inserting(f) => f \in Written(Handler)
    BY DEF Inserting, Written
  <2> QED
    BY <2>1 DEF Inv, FilesInv, FileInv, FilesGoWithIdentity
<1> QED
  BY <1>1, TenancyInvariant, PTL

=============================================================================
