------------------------ MODULE ProjectPolicyProofs ------------------------
(***************************************************************************)
(* Proofs about ProjectPolicy, for any project files, threads and domains, *)
(* and any number of edits, commands and requests: what is in the          *)
(* allowlist, what a container shows, what in_sync says and what of an     *)
(* auditor runs.                                                           *)
(***************************************************************************)
EXTENDS ProjectPolicy, TLAPS

-----------------------------------------------------------------------------
(* The allowlist *)

\* Handles of the temporary file; who has one, and who is the only one.
Handles == [on : {"tmp", "live", "gone"}, done : BOOLEAN]
Open(w) == fd[w] # None
Alone(w) == Open(w) /\ \A v \in Writers \ {w} : ~Open(v)

\* A writer whose temporary file was moved away under it.
Orphan(w) == Open(w) /\ fd[w].on # "tmp"

\* The files and the writers' handles have their types, and who has one is writing.
AclTypes ==
  /\ fd \in [Writers -> Handles \union {None}]
  /\ file = [live |-> file.live, tmp |-> file.tmp]
  /\ acl = [want |-> acl.want, failed |-> acl.failed] /\ acl.failed \in BOOLEAN
  /\ thread = [t \in Threads |-> thread[t]]
  /\ \A w \in Writers : Open(w) => Writing(w)

\* A temporary file is open somewhere.
TmpIsOpen == file.tmp # None => \E w \in Writers : Open(w) /\ fd[w].on = "tmp"

\* Nobody writes, and the last write is in place; or one does, in a file of its own.
InOrder ==
  /\ (\A w \in Writers : ~Open(w)) /\ acl.want # None => file.live = Whole(acl.want)
  /\ \A w \in Writers : Alone(w) =>
       file.tmp = IF fd[w].done THEN Whole(Wants(w)) ELSE Truncated

\* AclExact says nothing while someone writes.  An orphan never goes without a failure:
\* when it replaces the file, that of another, it makes an orphan of that one.
AclInv ==
  /\ AclTypes /\ TmpIsOpen
  /\ acl.failed \/ (\E w \in Writers : Orphan(w)) \/ InOrder

\* Nothing is open at first.
LEMMA InitAcl == Init => AclInv
<1> SUFFICES ASSUME Init PROVE AclInv
  OBVIOUS
<1>1. AclTypes
  BY DEF Init, AclTypes, Open
<1>2. TmpIsOpen /\ InOrder
  BY DEF Init, TmpIsOpen, InOrder, Alone, Open
<1>3. QED
  BY <1>1, <1>2 DEF AclInv

\* A step that leaves the files alone, and the request of whoever is writing.
Aside ==
  /\ UNCHANGED proxy /\ thread' = [t \in Threads |-> thread'[t]]
  /\ \A w \in Writers : Writing(w) => Writing(w)' /\ Wants(w)' = Wants(w)

\* Such a step keeps the allowlist's invariant.
LEMMA AsideAcl == AclInv /\ Aside => AclInv'
<1> SUFFICES ASSUME AclInv, Aside PROVE AclInv'
  OBVIOUS
<1>1. file' = file /\ fd' = fd /\ acl' = acl
  BY DEF Aside, proxy
<1>2. AclTypes'
  BY <1>1 DEF Aside, AclInv, AclTypes, Open
<1>3. TmpIsOpen'
  BY <1>1 DEF AclInv, TmpIsOpen, Open
<1>4. InOrder => InOrder'
  <2> SUFFICES ASSUME InOrder PROVE InOrder'
    OBVIOUS
  <2>1. ASSUME NEW w \in Writers, Alone(w)'
        PROVE  file'.tmp = IF fd'[w].done THEN Whole(Wants(w)') ELSE Truncated
    <3>1. Alone(w) /\ Writing(w)
      BY <1>1, <2>1 DEF Alone, Open, AclInv, AclTypes
    <3>2. Wants(w)' = Wants(w)
      BY <3>1 DEF Aside
    <3>3. QED
      BY <1>1, <3>1, <3>2 DEF InOrder
  <2>2. QED
    BY <1>1, <2>1 DEF InOrder, Open
<1>5. (\E w \in Writers : Orphan(w)) => (\E w \in Writers : Orphan(w))'
  BY <1>1 DEF Orphan, Open
<1>6. QED
  BY <1>1, <1>2, <1>3, <1>4, <1>5 DEF AclInv

\* The commands, and the requests before they write.
LEMMA CommandsAside ==
  ASSUME AclTypes,
         \/ Edit \/ CreateRead \/ CreateRow \/ CreateOverlay \/ Resume \/ ResumeRefused \/ Up
         \/ Stop \/ Destroy \/ ReloadRead \/ ReloadConfig \/ ReloadGrants \/ ReloadPin
         \/ ReloadOverlay \/ Kill \/ UNCHANGED vars
  PROVE  Aside
<1>1. UNCHANGED <<proxy, thread>>
  BY Zenon DEF Edit, CreateRead, CreateRow, CreateOverlay, Resume, ResumeRefused, Up, Stop, Destroy,
         ReloadRead, ReloadConfig, ReloadGrants, ReloadPin, ReloadOverlay, Kill, vars
<1>2. cli' = cli \/ cli.at \notin {"create acl", "reload acl"}
  <2>1. CASE CreateRead \/ Stop \/ Destroy \/ ReloadRead
    <3>1. cli = Idle
      BY <2>1, Zenon DEF CreateRead, Stop, Destroy, ReloadRead, Command
    <3>2. QED
      BY <3>1 DEF Idle
  <2>2. CASE Edit \/ UNCHANGED vars
    BY <2>2, Zenon DEF Edit, vars
  <2>3. CASE CreateRow \/ CreateOverlay \/ Resume \/ ResumeRefused \/ Up
    BY <2>3, Zenon DEF CreateRow, CreateOverlay, Resume, ResumeRefused, Up
  <2>4. CASE ReloadConfig \/ ReloadGrants \/ ReloadPin \/ ReloadOverlay \/ Kill
    BY <2>4, Zenon DEF ReloadConfig, ReloadGrants, ReloadPin, ReloadOverlay, Kill
  <2>5. QED
    BY <2>1, <2>2, <2>3, <2>4, Zenon
<1>3. QED
  BY <1>1, <1>2, Zenon DEF Aside, AclTypes, Writing, Wants

\* A request to change the allowlist is such a step.
LEMMA RequestsAside ==
  ASSUME AclTypes, NEW t \in Threads, UpdateProxyAllowlist(t) \/ AuditorAction(t)
  PROVE  Aside
<1>1. UNCHANGED <<proxy, cli>>
  BY DEF UpdateProxyAllowlist, AuditorAction, Freeze, Unfreeze, StopDock, Ask
<1>2. \/ UNCHANGED thread
      \/ thread[t] = Idle /\ \E r : thread' = [thread EXCEPT ![t] = r]
  BY DEF UpdateProxyAllowlist, AuditorAction, Freeze, Unfreeze, StopDock, Ask
<1>3. thread' = [u \in Threads |-> thread'[u]]
  BY <1>2 DEF AclTypes
<1>4. \A u \in Threads : thread[u] # Idle => thread'[u] = thread[u]
  BY <1>2 DEF AclTypes
<1>5. QED
  BY <1>1, <1>3, <1>4, Zenon DEF Aside, Writing, Wants, Writers

\* open(tmp, "w")
LEMMA OpenAcl == ASSUME AclInv, NEW w \in Writers, OpenTmp(w) PROVE AclInv'
<1> DEFINE h == [on |-> "tmp", done |-> FALSE]
<1>1. /\ fd \in [Writers -> Handles \union {None}] /\ h \in Handles /\ h # None
      /\ fd' = [fd EXCEPT ![w] = h] /\ ~Open(w) /\ Writing(w)
      /\ UNCHANGED <<cli, thread>>
  <2>1. h \in Handles /\ None \notin Handles
    BY ProjectAssumption DEF Handles
  <2>2. QED
    BY <2>1, Zenon DEF OpenTmp, AclInv, AclTypes, Open
<1>2. file' = [live |-> file.live, tmp |-> Truncated]
  BY DEF OpenTmp, AclInv, AclTypes
<1>3. acl' = [want |-> acl.want, failed |-> acl.failed /\ \E v \in Writers : Open(v)]
  BY DEF OpenTmp, AclInv, AclTypes, Open
<1>4. \A v \in Writers : Writing(v)' = Writing(v) /\ Wants(v)' = Wants(v)
  BY <1>1, Zenon DEF Writing, Wants
<1>5. AclTypes'
  <2>1. \A v \in Writers : Open(v)' => Writing(v)'
    BY <1>1, <1>4 DEF AclInv, AclTypes, Open
  <2>2. acl'.failed \in BOOLEAN /\ acl' = [want |-> acl'.want, failed |-> acl'.failed]
    BY <1>3
  <2>3. QED
    BY <1>1, <1>2, <2>1, <2>2 DEF AclInv, AclTypes
<1>6. TmpIsOpen'
  BY <1>1 DEF TmpIsOpen, Open
<1>7. CASE \A v \in Writers : ~Open(v)
  <2>1. \A v \in Writers : Open(v)' => v = w
    BY <1>1, <1>7 DEF Open
  <2>2. Open(w)' /\ ~fd'[w].done
    BY <1>1 DEF Open
  <2>3. InOrder'
    BY <1>2, <2>1, <2>2 DEF InOrder, Alone
  <2>4. QED
    BY <1>5, <1>6, <2>3 DEF AclInv
<1>8. CASE \E v \in Writers : Open(v)
  <2>1. acl'.failed = acl.failed
    BY <1>3, <1>8 DEF AclInv, AclTypes
  <2>2. (\E v \in Writers : Orphan(v)) => (\E v \in Writers : Orphan(v))'
    BY <1>1 DEF Orphan, Open
  <2>3. InOrder'
    <3>1. PICK v \in Writers : Open(v) /\ v # w
      BY <1>1, <1>8
    <3>2. Open(v)' /\ Open(w)'
      BY <1>1, <3>1 DEF Open
    <3>3. QED
      BY <3>1, <3>2 DEF InOrder, Alone
  <2>4. QED
    BY <1>5, <1>6, <2>1, <2>2, <2>3 DEF AclInv
<1>9. QED
  BY <1>7, <1>8

\* The document is written.
LEMMA WriteAcl == ASSUME AclInv, NEW w \in Writers, WriteTmp(w) PROVE AclInv'
<1> DEFINE h == [on |-> fd[w].on, done |-> TRUE]
<1>1. /\ fd \in [Writers -> Handles \union {None}] /\ fd[w] \in Handles
      /\ h \in Handles /\ h # None
  <2>1. fd[w] \in Handles /\ None \notin Handles
    BY ProjectAssumption DEF WriteTmp, AclInv, AclTypes, Handles
  <2>2. h \in Handles
    BY <2>1 DEF Handles
  <2>3. QED
    BY <2>1, <2>2, Zenon DEF AclInv, AclTypes
<1>2. fd' = [fd EXCEPT ![w] = h] /\ Open(w) /\ ~fd[w].done /\ UNCHANGED <<acl, cli, thread>>
  <2>1. [fd[w] EXCEPT !.done = TRUE] = h
    BY <1>1, Zenon DEF Handles
  <2>2. fd' = [fd EXCEPT ![w] = [fd[w] EXCEPT !.done = TRUE]]
    BY DEF WriteTmp
  <2>3. QED
    BY <2>1, <2>2, Zenon DEF WriteTmp, Open
<1>3. /\ file' = [live |-> file'.live, tmp |-> file'.tmp]
      /\ fd[w].on # "tmp" => file'.tmp = file.tmp
      /\ fd[w].on = "tmp" /\ file.tmp = Truncated => file'.tmp = Whole(Wants(w))
  <2>1. fd[w].on \in {"tmp", "live", "gone"} /\ file = [live |-> file.live, tmp |-> file.tmp]
    BY <1>1 DEF Handles, AclInv, AclTypes
  <2>2. CASE fd[w].on = "gone"
    BY <2>1, <2>2 DEF WriteTmp
  <2>3. CASE fd[w].on # "gone"
    <3>1. PICK c : /\ c \in {Whole(Wants(w)), Torn}
                   /\ c = Torn => file[fd[w].on] \notin {Truncated, Whole(Wants(w))}
                   /\ file' = [file EXCEPT ![fd[w].on] = c]
      BY <2>3 DEF WriteTmp
    <3>2. CASE fd[w].on = "live"
      BY <2>1, <3>1, <3>2, Zenon
    <3>3. CASE fd[w].on = "tmp"
      BY <2>1, <3>1, <3>3, Zenon
    <3>4. QED
      BY <2>1, <2>3, <3>2, <3>3
  <2>4. QED
    BY <2>2, <2>3
<1>4. \A v \in Writers : /\ Writing(v)' = Writing(v) /\ Wants(v)' = Wants(v)
                         /\ Open(v)' = Open(v) /\ (Open(v) => fd'[v].on = fd[v].on)
  BY <1>1, <1>2 DEF Writing, Wants, Open
<1>5. AclTypes'
  BY <1>1, <1>2, <1>3, <1>4 DEF AclInv, AclTypes
<1>6. TmpIsOpen'
  <2>1. file.tmp # None => \E v \in Writers : Open(v) /\ fd[v].on = "tmp"
    BY DEF AclInv, TmpIsOpen
  <2>2. CASE fd[w].on = "tmp"
    BY <1>2, <1>4, <2>2 DEF TmpIsOpen
  <2>3. CASE fd[w].on # "tmp"
    BY <1>3, <1>4, <2>1, <2>3 DEF TmpIsOpen
  <2>4. QED
    BY <2>2, <2>3
<1>7. (\E v \in Writers : Orphan(v)) => (\E v \in Writers : Orphan(v))'
  BY <1>4 DEF Orphan
<1>8. ~Orphan(w) /\ InOrder => InOrder'
  <2> SUFFICES ASSUME ~Orphan(w), InOrder PROVE InOrder'
    OBVIOUS
  <2>1. Open(w)' /\ fd'[w].done /\ fd[w].on = "tmp"
    BY <1>1, <1>2, <1>4 DEF Orphan
  <2>2. \A v \in Writers : Alone(v)' => v = w
    BY <2>1 DEF Alone
  <2>3. Alone(w)' => file.tmp = Truncated
    BY <1>2, <1>4 DEF Alone, InOrder
  <2>4. QED
    BY <1>3, <1>4, <2>1, <2>2, <2>3 DEF InOrder
<1>9. QED
  BY <1>2, <1>5, <1>6, <1>7, <1>8 DEF AclInv

\* tmp.replace(target)
LEMMA ReplaceAcl == ASSUME AclInv, NEW w \in Writers, Replace(w) PROVE AclInv'
<1>1. fd \in [Writers -> Handles \union {None}] /\ Open(w) /\ fd[w].done
  BY DEF Replace, AclInv, AclTypes, Open
<1>2. /\ thread' = [t \in Threads |-> thread'[t]]
      /\ \A v \in Writers \ {w} : Writing(v) => Writing(v)'
  <2>1. \/ UNCHANGED thread /\ w = "cli"
        \/ UNCHANGED cli /\ w # "cli" /\ thread' = [thread EXCEPT ![w] = Idle]
    BY Zenon DEF Replace, Ended
  <2>2. thread' = [t \in Threads |-> thread'[t]] /\ \A t \in Threads \ {w} : thread'[t] = thread[t]
    BY <2>1 DEF AclInv, AclTypes, Writers
  <2>3. QED
    BY <2>1, <2>2, Zenon DEF Writing, Writers
<1>3. CASE file.tmp # None
  <2>1. /\ file' = [live |-> file.tmp, tmp |-> None]
        /\ fd' = [[v \in Writers |-> Moved(fd[v])] EXCEPT ![w] = None]
        /\ acl' = [want |-> Wants(w), failed |-> acl.failed]
    BY <1>3 DEF Replace, AclInv, AclTypes
  <2>2. \A v \in Writers \ {w} : /\ fd[v] = None => fd'[v] = None
                                 /\ fd[v] # None => fd'[v] \in Handles /\ fd'[v].on # "tmp"
    BY <1>1, <2>1 DEF Moved, Handles
  <2>3. fd' \in [Writers -> Handles \union {None}] /\ ~Open(w)'
    BY <2>1, <2>2 DEF Open
  <2>4. \A v \in Writers \ {w} : Open(v) = Open(v)' /\ (Open(v)' => Orphan(v)')
    <3>1. None \notin Handles
      BY ProjectAssumption DEF Handles
    <3>2. QED
      BY <2>2, <3>1 DEF Open, Orphan
  <2>5. AclTypes'
    BY <1>2, <2>1, <2>3, <2>4 DEF AclInv, AclTypes
  <2>6. TmpIsOpen'
    BY <2>1 DEF TmpIsOpen
  <2>7. CASE Alone(w)
    <3>1. PICK v \in Writers : Open(v) /\ fd[v].on = "tmp"
      BY <1>3 DEF AclInv, TmpIsOpen
    <3>2. v = w /\ \A u \in Writers : ~Orphan(u)
      BY <2>7, <3>1 DEF Alone, Orphan
    <3>3. acl.failed \/ file.tmp = Whole(Wants(w))
      BY <1>1, <2>7, <3>2 DEF AclInv, InOrder
    <3>4. \A u \in Writers : ~Open(u)'
      BY <2>3, <2>4, <2>7 DEF Alone
    <3>5. acl'.failed \/ InOrder'
      BY <2>1, <3>3, <3>4 DEF InOrder, Alone
    <3>6. QED
      BY <2>5, <2>6, <3>5 DEF AclInv
  <2>8. CASE ~Alone(w)
    BY <1>1, <2>4, <2>5, <2>6, <2>8 DEF AclInv, Alone
  <2>9. QED
    BY <2>7, <2>8
<1>4. CASE file.tmp = None
  <2>1. /\ file' = file /\ fd' = [fd EXCEPT ![w] = None]
        /\ acl' = [want |-> acl.want, failed |-> TRUE]
    BY <1>4 DEF Replace, AclInv, AclTypes
  <2>2. AclTypes'
    BY <1>1, <1>2, <2>1 DEF AclInv, AclTypes, Open
  <2>3. QED
    BY <1>4, <2>1, <2>2 DEF AclInv, TmpIsOpen
<1>5. QED
  BY <1>3, <1>4

\* Every step preserves the invariant of the allowlist.
LEMMA NextAcl == AclInv /\ [Next]_vars => AclInv'
<1> SUFFICES ASSUME AclInv, [Next]_vars PROVE AclInv'
  OBVIOUS
<1>1. AclTypes
  BY DEF AclInv
<1>2. CASE \E w \in Writers : OpenTmp(w) \/ WriteTmp(w) \/ Replace(w)
  BY <1>2, OpenAcl, WriteAcl, ReplaceAcl
<1>3. CASE \E t \in Threads : UpdateProxyAllowlist(t) \/ AuditorAction(t)
  BY <1>1, <1>3, RequestsAside, AsideAcl
<1>4. QED
  BY <1>1, <1>2, <1>3, CommandsAside, AsideAcl DEF Next

\* A write of the allowlist that reports success is in force once all writers are done,
\* for any number of them and however they overlap, unless one of them has reported a
\* failure: write_smokescreen_acl gives all of them the same temporary name.
THEOREM WritesInForce == Spec => []AclExact
<1>1. AclInv => AclExact
  BY DEF AclInv, InOrder, Orphan, Open, AclExact
<1>2. QED
  BY <1>1, InitAcl, NextAcl, PTL DEF Spec
-----------------------------------------------------------------------------
(* What a container is started with *)

\* The fields that reach the container's environment.
EnvFields ==
  Firewall \union {"tailscale_hostname", "tailscale_serve_port", "remote_control_name",
                   "storage_mounts", "extra_env"}

\* A container or overlay c shows the row r, but for the auth key and the proxy's directory.
Shows(c, r) ==
  LET shown == GenerateOverlay(OverlayFromRow(r))
  IN /\ {e \in c.env : e[1] # "authkey"} = shown.env
     /\ c.mounts \ {<<"proxy", "on">>} = shown.mounts
     /\ <<c.ports, c.args, c.workdir>> = <<shown.ports, shown.args, shown.workdir>>

\* The settings of c are the fields of r, and so is its directory.
Carries(c, r) ==
  /\ \A f \in OverlayFields : c.settings[f] = r.config[f]
  /\ c.workdir = r.subdir

\* An entry is a field with one of its values.
LEMMA EntryOf ==
  ASSUME NEW c, NEW fields, NEW e
  PROVE  e \in Entries(c, fields) <=> \E f \in fields : \E v \in c.settings[f] : e = <<f, v>>
BY DEF Entries

\* What carries a row's settings has the row's entries.
LEMMA SameEntries ==
  ASSUME NEW c, NEW r, Carries(c, r), NEW fields \in SUBSET OverlayFields
  PROVE  Entries(c, fields) = Entries(OverlayFromRow(r), fields)
<1>1. \A f \in fields : c.settings[f] = OverlayFromRow(r).settings[f]
  BY DEF Carries, OverlayFromRow
<1>2. QED
  BY <1>1 DEF Entries

\* Every field of the overlay is stored at create.
LEMMA FieldKinds ==
  /\ EnvFields \subseteq OverlayFields
  /\ {"claude_profile", "extra_mounts"} \subseteq OverlayFields
  /\ {"tailscale_hostname", "resources_hard"} \subseteq OverlayFields
  /\ {"egress_proxy", "role", "forward_ports", "storage_mounts"} \subseteq OverlayFields
  /\ OverlayFields \subseteq StoredAtCreate /\ StoredAtCreate \subseteq Fields
  /\ Reloaded \subseteq Fields
BY DEF EnvFields, Firewall, Scalars, OverlayFields, StoredAtCreate, Reloaded, Fields

\* What carries the row's settings shows the row.
LEMMA CarriedShows ==
  ASSUME NEW c, NEW r, Carries(c, r)
  PROVE  Shows(GenerateOverlay(c), r)
<1> DEFINE d == OverlayFromRow(r)
<1> DEFINE flags == {<<"http_proxy", "on">>, <<"registry", "on">>}
<1>1. /\ \A f \in OverlayFields : c.settings[f] = d.settings[f]
      /\ c.workdir = d.workdir /\ d.authkey = {} /\ d.proxyDir = FALSE
  BY DEF Carries, OverlayFromRow
<1>2. /\ Enabled(c.settings) = Enabled(d.settings) /\ Auditing(c) = Auditing(d)
      /\ c.settings["forward_ports"] = d.settings["forward_ports"]
      /\ c.settings["storage_mounts"] = d.settings["storage_mounts"]
  BY <1>1, FieldKinds DEF Enabled, Auditing
<1>3. Entries(c, EnvFields) = Entries(d, EnvFields)
  BY SameEntries, FieldKinds
<1>4. {e \in ContainerEnv(c) : e[1] # "authkey"} = ContainerEnv(d)
  <2>1. \A e \in Entries(d, EnvFields) : e[1] # "authkey"
    BY EntryOf DEF EnvFields, Firewall
  <2> DEFINE rest == ({"subdir"} \X d.workdir)
                     \union When(Enabled(d.settings), "http_proxy") \union When(Auditing(d), "registry")
  <2>2. \A e \in rest : e[1] # "authkey"
    BY DEF When
  <2>3. ContainerEnv(c) = Entries(d, EnvFields) \union ({"authkey"} \X c.authkey) \union rest
    BY <1>1, <1>2, <1>3 DEF ContainerEnv, EnvFields
  <2>4. ContainerEnv(d) = Entries(d, EnvFields) \union rest
    BY <1>1 DEF ContainerEnv, EnvFields
  <2>5. \A e \in {"authkey"} \X c.authkey : e[1] = "authkey"
    OBVIOUS
  <2> HIDE DEF rest
  <2>6. QED
    BY <2>1, <2>2, <2>3, <2>4, <2>5
<1>5. Mounts(c) \ {<<"proxy", "on">>} = Mounts(d)
  <2>1. Entries(c, {"claude_profile", "extra_mounts"}) = Entries(d, {"claude_profile", "extra_mounts"})
    BY SameEntries, FieldKinds
  <2>2. <<"proxy", "on">> \notin Entries(d, {"claude_profile", "extra_mounts"})
    BY EntryOf
  <2>3. QED
    BY <1>1, <1>2, <2>1, <2>2 DEF Mounts, When
<1>6. Entries(c, {"tailscale_hostname", "resources_hard"})
        = Entries(d, {"tailscale_hostname", "resources_hard"})
  BY SameEntries, FieldKinds
<1>7. QED
  BY <1>1, <1>2, <1>4, <1>5, <1>6 DEF Shows, GenerateOverlay

\* regenerate_overlay_from_drydock
LEMMA RegeneratedShows == ASSUME NEW r PROVE Shows(GenerateOverlay(OverlayFromRow(r)), r)
BY CarriedShows DEF Carries, OverlayFromRow

\* _overlay_from_spec, for a row with the fields of the spec.
Stored(r, spec) ==
  /\ \A f \in OverlayFields : r.config[f] = spec[f]
  /\ r.subdir = spec["workspace_subdir"] /\ spec["extra_mounts"] = {}

\* The overlay a create writes shows the row it stored.
LEMMA CreatedShows ==
  ASSUME NEW r, NEW spec, Stored(r, spec)
  PROVE  Shows(GenerateOverlay(OverlayFromSpec(spec)), r)
<1>1. Carries(OverlayFromSpec(spec), r)
  BY DEF Carries, Stored, OverlayFromSpec
<1>2. QED
  BY <1>1, CarriedShows
-----------------------------------------------------------------------------
(* The commands *)

\* The steps of a create, and of a reload before and after the hash is pinned.
Creating == {"create", "create acl", "create overlay"}
Rereading == {"reload config", "reload grants", "reload pin"}
Reloading == Rereading \union {"reload acl", "reload overlay"}

\* A row has its columns.
IsRow(r) ==
  /\ r = [state |-> r.state, config |-> r.config, grants |-> r.grants, reach |-> r.reach,
          subdir |-> r.subdir, overlayPath |-> r.overlayPath, sha |-> r.sha]
  /\ r.state # "none"

\* The row, the command and the history have their types; who works on a desk has a row.
Shapes ==
  /\ row = NoRow \/ IsRow(row)
  /\ \/ cli.at \in {"idle", "up"}
     \/ cli = [at |-> cli.at, spec |-> cli.spec] /\ cli.at \in Creating \union Reloading
  /\ cli.at \in {"create acl", "create overlay", "up"} \union Reloading => row # NoRow
  /\ current \in [overlay : BOOLEAN, container : BOOLEAN] /\ clean \in BOOLEAN

\* A create sends no mounts, and its row has the fields of its spec until the overlay is
\* written; an overlay or container that is called current shows the row.
Shown ==
  /\ cli.at = "create" => cli.spec["extra_mounts"] = {}
  /\ cli.at \in {"create acl", "create overlay"} => Stored(row, cli.spec)
  /\ current.overlay => row # NoRow /\ Shows(overlay, row)
  /\ current.container /\ row.state = "running" => Shows(container, row)

\* The part of the invariant that the containers need.
ShownInv == Shapes /\ Shown

\* Two rows that differ in their state, path, grants or hash are shown alike.
LEMMA SameShown ==
  ASSUME NEW r, NEW s, NEW c, r.config = s.config, r.subdir = s.subdir
  PROVE  Shows(c, r) = Shows(c, s)
BY DEF Shows, OverlayFromRow

\* Two rows that differ in their state, path, grants or hash were stored alike.
LEMMA SameStored ==
  ASSUME NEW r, NEW s, NEW spec, r.config = s.config, r.subdir = s.subdir
  PROVE  Stored(r, spec) = Stored(s, spec)
BY DEF Stored

\* A row is no missing row.
LEMMA NoRowState == NoRow.state = "none" /\ \A r : IsRow(r) => r # NoRow
BY DEF NoRow, IsRow

\* At first there is no desk.
LEMMA InitShown == Init => ShownInv
<1> SUFFICES ASSUME Init PROVE ShownInv
  OBVIOUS
<1>1. cli.at = "idle" /\ row = NoRow /\ ~current.overlay /\ ~current.container
      /\ current \in [overlay : BOOLEAN, container : BOOLEAN] /\ clean \in BOOLEAN
  BY DEF Init, Idle
<1>2. Shapes
  BY <1>1 DEF Shapes, Reloading, Rereading
<1>3. QED
  BY <1>1, <1>2 DEF ShownInv, Shown
-----------------------------------------------------------------------------
(* The pinned hash *)

\* The fields that create and reload write have the values of the configuration cfg.
ConfigApplied(r, cfg) ==
  /\ \A f \in (Reloaded \intersect StoredAtCreate) \ {"extra_mounts"} :
       r.config[f] = cfg[f] \/ (f \in Scalars /\ cfg[f] = {})
  /\ r.config["extra_mounts"] \in {{}, cfg["extra_mounts"]}
\* So do the fields the grants are read from.
GrantsApplied(r, cfg) == \A f \in Grants : r.grants[f] = cfg[f] \/ cfg[f] = {}

\* Unless an edit or a kill cut in, a command works with the file as it is, and outside a
\* reload the row has what the pinned file says.
Synced ==
  /\ clean /\ cli.at = "create" /\ row = NoRow => cli.spec = ValidatedSpec(Sent(yaml))
  /\ clean /\ cli.at \in Rereading => yaml # None /\ cli.spec = Load(yaml)
  /\ cli.at \in {"reload grants", "reload pin"} => ConfigApplied(row, cli.spec)
  /\ cli.at = "reload pin" => GrantsApplied(row, cli.spec)
  /\ clean /\ row # NoRow /\ row.sha # None /\ cli.at \notin Rereading =>
       ConfigApplied(row, Load(row.sha)) /\ GrantsApplied(row, Load(row.sha))

\* The inductive invariant of the commands.
CommandInv == Shapes /\ Shown /\ Synced

\* At first no command runs.
LEMMA InitCommand == Init => CommandInv
<1>1. Init => Synced
  BY DEF Init, Synced, Rereading, Idle
<1>2. QED
  BY <1>1, InitShown DEF ShownInv, CommandInv

\* A row whose fields stay has applied what it had.
LEMMA SameApplied ==
  ASSUME NEW r, NEW s, NEW cfg, r.config = s.config, r.grants = s.grants
  PROVE  ConfigApplied(r, cfg) = ConfigApplied(s, cfg) /\ GrantsApplied(r, cfg) = GrantsApplied(s, cfg)
BY DEF ConfigApplied, GrantsApplied

\* Steps that are none of the commands' business.
LEMMA ElsewhereCommand ==
  ASSUME CommandInv, UNCHANGED <<yaml, row, overlay, container, cli, clean, current>>
  PROVE  CommandInv'
<1>1. Shapes'
  BY Zenon DEF CommandInv, Shapes
<1>2. Shown'
  BY Zenon DEF CommandInv, Shown
<1>3. Synced'
  BY Zenon DEF CommandInv, Synced
<1>4. QED
  BY <1>1, <1>2, <1>3 DEF CommandInv

\* An edit: a command that has read the file goes on with what it read.
LEMMA EditCommand == ASSUME CommandInv, Edit PROVE CommandInv'
<1>1. UNCHANGED <<row, overlay, container, cli, current>> /\ clean' = (clean /\ ~Reading)
  BY DEF Edit, desk
<1>2. Shapes'
  BY <1>1, Zenon DEF CommandInv, Shapes
<1>3. Shown'
  BY <1>1, Zenon DEF CommandInv, Shown
<1>4. Synced'
  <2>1. clean' => clean /\ ~(cli.at = "create" /\ row = NoRow) /\ cli.at \notin Rereading
    BY <1>1, Zenon DEF CommandInv, Shapes, Reading, Rereading
  <2>2. QED
    BY <1>1, <2>1, Zenon DEF CommandInv, Synced
<1>5. QED
  BY <1>2, <1>3, <1>4 DEF CommandInv

\* A command begins by reading the file.
LEMMA ReadCommand == ASSUME CommandInv, CreateRead \/ ReloadRead PROVE CommandInv'
<1>1. UNCHANGED <<yaml, row, overlay, container, current>> /\ cli = Idle /\ cli.at = "idle"
  <2>1. UNCHANGED <<yaml, row, overlay, container, current>> /\ cli = Idle
    BY Zenon DEF CreateRead, ReloadRead, Command, desk
  <2>2. QED
    BY <2>1 DEF Idle
<1>2. CASE CreateRead
  <2>1. cli' = [at |-> "create", spec |-> ValidatedSpec(Sent(yaml))] /\ clean' = (clean \/ row = NoRow)
    BY <1>2 DEF CreateRead, Command
  <2>2. ValidatedSpec(Sent(yaml))["extra_mounts"] = {}
    BY DEF ValidatedSpec, Sent, Fields
  <2>3. Shapes'
    BY <1>1, <2>1 DEF CommandInv, Shapes, Creating, Reloading, Rereading
  <2>4. Shown'
    BY <1>1, <2>1, <2>2 DEF CommandInv, Shown
  <2>5. Synced'
    BY <1>1, <2>1, Zenon DEF CommandInv, Synced, Rereading
  <2>6. QED
    BY <2>3, <2>4, <2>5 DEF CommandInv
<1>3. CASE ReloadRead
  <2>1. /\ cli' = [at |-> "reload config", spec |-> Load(yaml)] /\ clean' = TRUE
        /\ row # NoRow /\ yaml # None
    BY <1>3, Zenon DEF ReloadRead, Command
  <2>2. Shapes'
    BY <1>1, <2>1, Zenon DEF CommandInv, Shapes, Creating, Reloading, Rereading
  <2>3. Shown'
    BY <1>1, <2>1, Zenon DEF CommandInv, Shown
  <2>4. Synced'
    BY <1>1, <2>1, Zenon DEF CommandInv, Synced, Rereading
  <2>5. QED
    BY <2>2, <2>3, <2>4 DEF CommandInv
<1>4. QED
  BY <1>2, <1>3

\* A step that writes the row's state and overlay path, and at most ends the reading of
\* nothing, keeps the hash true.
LEMMA StateSynced ==
  ASSUME CommandInv, row # NoRow, row' # NoRow, UNCHANGED <<yaml, clean>>,
         row'.config = row.config, row'.grants = row.grants, row'.sha = row.sha,
         UNCHANGED cli \/ (cli.at \notin Rereading /\ cli'.at \in {"idle", "up"})
  PROVE  Synced'
<1>1. \A cfg : /\ ConfigApplied(row', cfg) = ConfigApplied(row, cfg)
               /\ GrantsApplied(row', cfg) = GrantsApplied(row, cfg)
  BY SameApplied
<1>2. CASE UNCHANGED cli
  BY <1>1, <1>2, Zenon DEF CommandInv, Synced
<1>3. CASE cli.at \notin Rereading /\ cli'.at \in {"idle", "up"}
  BY <1>1, <1>3, Zenon DEF CommandInv, Synced, Rereading
<1>4. QED
  BY <1>2, <1>3

\* Only the row's state and overlay path are written.
Restated ==
  /\ row # NoRow /\ IsRow(row') /\ row'.config = row.config /\ row'.grants = row.grants
  /\ row'.subdir = row.subdir /\ row'.sha = row.sha

\* An UPDATE of the state, alone or with the overlay's path.
LEMMA StateUpdate ==
  ASSUME Shapes, row # NoRow, NEW t \in {"provisioning", "running", "suspended", "error"},
         \/ row' = [row EXCEPT !.state = t]
         \/ row' = [row EXCEPT !.overlayPath = TRUE, !.state = t]
  PROVE  Restated /\ row'.state = t
<1>1. IsRow(row)
  BY Zenon DEF Shapes
<1>2. row' = [state |-> t, config |-> row.config, grants |-> row.grants, reach |-> row.reach,
              subdir |-> row.subdir, overlayPath |-> row'.overlayPath, sha |-> row.sha]
  BY <1>1, Zenon DEF IsRow
<1>3. QED
  BY <1>2 DEF IsRow, Restated

\* A step that does so, and writes the overlay and the container.
LEMMA StateCommand ==
  ASSUME CommandInv, Restated, UNCHANGED <<yaml, clean>>,
         UNCHANGED cli \/ (cli.at \notin Rereading /\ cli'.at \in {"idle", "up"}),
         current' \in [overlay : BOOLEAN, container : BOOLEAN],
         current'.overlay => Shows(overlay', row),
         current'.container /\ row'.state = "running" => Shows(container', row)
  PROVE  CommandInv'
<1>2. /\ IsRow(row') /\ row' # NoRow /\ row # NoRow /\ row'.config = row.config
      /\ row'.grants = row.grants /\ row'.subdir = row.subdir /\ row'.sha = row.sha
  BY NoRowState DEF Restated
<1>3. Shapes'
  BY <1>2, Zenon DEF CommandInv, Shapes
<1>4. \A c : Shows(c, row') = Shows(c, row)
  BY <1>2, SameShown
<1>5. \A spec : Stored(row', spec) = Stored(row, spec)
  BY <1>2, SameStored
<1>6. Shown'
  <2>1. cli'.at = "create" => cli'.spec["extra_mounts"] = {}
    BY Zenon DEF CommandInv, Shown
  <2>2. cli'.at \in {"create acl", "create overlay"} => Stored(row', cli'.spec)
    BY <1>5, Zenon DEF CommandInv, Shown
  <2>3. QED
    BY <1>2, <1>4, <2>1, <2>2, Zenon DEF Shown
<1>7. Synced'
  BY <1>2, StateSynced
<1>8. QED
  BY <1>3, <1>6, <1>7 DEF CommandInv

\* The row of a create.
LEMMA CreateRowCommand == ASSUME CommandInv, CreateRow PROVE CommandInv'
<1>1. /\ cli.at = "create" /\ cli = [at |-> "create", spec |-> cli.spec] /\ row = NoRow
      /\ UNCHANGED <<yaml, overlay, container, clean, current>>
      /\ current \in [overlay : BOOLEAN, container : BOOLEAN] /\ clean \in BOOLEAN
  BY Zenon DEF CreateRow, CommandInv, Shapes
<1>2. /\ IsRow(row') /\ row' # NoRow /\ row'.state = "defined" /\ row'.sha = yaml
      /\ row'.config = [f \in ConfigFields |-> IF f \in StoredAtCreate THEN cli.spec[f] ELSE {}]
      /\ row'.grants = [f \in Grants |-> cli.spec[f]] /\ row'.subdir = cli.spec["workspace_subdir"]
  BY Zenon DEF CreateRow, IsRow, NoRow
<1>3. /\ cli'.at \in {"create acl", "create overlay"} /\ cli'.spec = cli.spec
      /\ cli' = [at |-> cli'.at, spec |-> cli'.spec]
  BY <1>1, Zenon DEF CreateRow
<1>4. Shapes'
  BY <1>1, <1>2, <1>3, Zenon DEF Shapes, Creating
<1>5. Stored(row', cli.spec)
  <2>1. \A f \in OverlayFields : f \in ConfigFields /\ f \in StoredAtCreate
    BY FieldKinds DEF ConfigFields
  <2>2. QED
    BY <1>1, <1>2, <2>1 DEF Stored, CommandInv, Shown
<1>6. Shown'
  BY <1>1, <1>2, <1>3, <1>5, Zenon DEF CommandInv, Shown
<1>7. ASSUME cli.spec = ValidatedSpec(Sent(yaml)), yaml # None
      PROVE  ConfigApplied(row', Load(yaml)) /\ GrantsApplied(row', Load(yaml))
  <2>1. \A f \in Fields \ {"extra_mounts", "deskwatch"} : Sent(yaml)[f] = Load(yaml)[f]
    BY <1>7 DEF Sent
  <2>2. ASSUME NEW f \in Fields \ {"extra_mounts", "deskwatch", "role"}
        PROVE  cli.spec[f] = Load(yaml)[f] \/ (f \in Scalars /\ Load(yaml)[f] = {})
    <3>1. CASE f = "egress_proxy"
      <4>1. Load(yaml)[f] # {}
        BY <3>1 DEF Load, Default, Fields
      <4>2. QED
        BY <1>7, <2>1, <3>1, <4>1 DEF ValidatedSpec, Default
    <3>2. CASE f = "devcontainer_subpath"
      BY <1>7, <2>1, <3>2 DEF ValidatedSpec, Default, Scalars
    <3>3. CASE f \notin {"egress_proxy", "devcontainer_subpath"}
      BY <1>7, <2>1, <3>3 DEF ValidatedSpec
    <3>4. QED
      BY <3>1, <3>2, <3>3
  <2>3. \A f \in (Reloaded \intersect StoredAtCreate) \ {"extra_mounts"} :
          f \in Fields \ {"extra_mounts", "deskwatch", "role"} /\ f \in ConfigFields
    BY DEF Reloaded, StoredAtCreate, OverlayFields, ConfigFields, Scalars, Firewall, Fields
  <2>4. row'.config["extra_mounts"] = {}
    BY <1>1, <1>2 DEF CommandInv, Shown, ConfigFields, StoredAtCreate, OverlayFields
  <2>5. \A f \in Grants : f \in Fields \ {"extra_mounts", "deskwatch", "role"} /\ f \notin Scalars
    BY DEF Grants, Fields, Scalars
  <2>6. QED
    BY <1>2, <2>2, <2>3, <2>4, <2>5 DEF ConfigApplied, GrantsApplied
<1>8. Synced'
  BY <1>1, <1>2, <1>3, <1>7, Zenon DEF CommandInv, Synced, Rereading
<1>9. QED
  BY <1>4, <1>6, <1>8 DEF CommandInv

\* The steps of a create that have a row, and of those who stop it.
LEMMA DeskCommand ==
  ASSUME CommandInv,
         \/ CreateOverlay \/ Resume \/ ResumeRefused \/ Up \/ Stop
         \/ \E t \in Threads : StopDock(t)
  PROVE  CommandInv'
<1>1. /\ current \in [overlay : BOOLEAN, container : BOOLEAN]
      /\ current.overlay => Shows(overlay, row)
      /\ current.container /\ row.state = "running" => Shows(container, row)
      /\ Shapes
  BY Zenon DEF CommandInv, Shapes, Shown
<1>2. CASE CreateOverlay
  <2>1. /\ cli.at = "create overlay" /\ overlay' = GenerateOverlay(OverlayFromSpec(cli.spec))
        /\ row' = [row EXCEPT !.overlayPath = TRUE, !.state = "provisioning"]
        /\ cli' = [at |-> "up"] /\ current' = [current EXCEPT !.overlay = TRUE]
        /\ UNCHANGED <<yaml, clean>>
    BY <1>2, Zenon DEF CreateOverlay
  <2>2. row # NoRow /\ Stored(row, cli.spec)
    BY <2>1, Zenon DEF CommandInv, Shapes, Shown
  <2>3. Shows(overlay', row)
    BY <2>1, <2>2, CreatedShows, Zenon
  <2>4. current' \in [overlay : BOOLEAN, container : BOOLEAN]
    BY <1>1, <2>1, Zenon
  <2>5. cli.at \notin Rereading /\ cli'.at \in {"idle", "up"}
    BY <2>1, Zenon DEF Rereading
  <2>6. Restated /\ row'.state = "provisioning"
    BY <1>1, <2>1, <2>2, StateUpdate, Zenon
  <2>7. QED
    BY <2>1, <2>3, <2>4, <2>5, <2>6, StateCommand, Zenon
<1>3. CASE Resume
  <2>1. /\ cli.at = "create" /\ row # NoRow /\ row' = [row EXCEPT !.state = "provisioning"]
        /\ \/ overlay' = GenerateOverlay(OverlayFromRow(row)) /\ current' = [current EXCEPT !.overlay = TRUE]
           \/ UNCHANGED <<overlay, current>>
        /\ cli' = [at |-> "up"] /\ UNCHANGED <<yaml, clean>>
    BY <1>3 DEF Resume
  <2>2. current' \in [overlay : BOOLEAN, container : BOOLEAN] /\ (current'.overlay => Shows(overlay', row))
    BY <1>1, <2>1, RegeneratedShows, Zenon
  <2>3. cli.at \notin Rereading /\ cli'.at \in {"idle", "up"}
    BY <2>1 DEF Rereading
  <2>4. Restated /\ row'.state = "provisioning"
    BY <1>1, <2>1, StateUpdate
  <2>5. QED
    BY <2>1, <2>2, <2>3, <2>4, StateCommand
<1>4. CASE ResumeRefused
  <2>1. /\ cli.at = "create" /\ row # NoRow /\ row' = [row EXCEPT !.state = "error"]
        /\ cli' = Idle /\ UNCHANGED <<yaml, overlay, container, clean, current>>
    BY <1>4 DEF ResumeRefused
  <2>2. cli.at \notin Rereading /\ cli'.at \in {"idle", "up"}
    BY <2>1 DEF Rereading, Idle
  <2>3. Restated /\ row'.state = "error"
    BY <1>1, <2>1, StateUpdate
  <2>4. QED
    BY <1>1, <2>1, <2>2, <2>3, StateCommand
<1>5. CASE Up
  <2>1. /\ cli.at = "up" /\ cli' = Idle /\ UNCHANGED <<yaml, overlay, clean>>
        /\ \/ row' = [row EXCEPT !.state = "running"] /\ container' = overlay
           \/ row' = [row EXCEPT !.state = "error"]
        /\ current' = [current EXCEPT !.container = current.overlay]
    BY <1>5 DEF Up
  <2>2. row # NoRow /\ cli.at \notin Rereading /\ cli'.at \in {"idle", "up"}
    BY <2>1 DEF CommandInv, Shapes, Rereading, Idle
  <2>3. /\ current' \in [overlay : BOOLEAN, container : BOOLEAN]
        /\ current'.overlay = current.overlay /\ current'.container = current.overlay
    BY <1>1, <2>1
  <2>4. CASE row' = [row EXCEPT !.state = "running"] /\ container' = overlay
    <3>1. Restated
      BY <1>1, <2>2, <2>4, StateUpdate
    <3>2. QED
      BY <1>1, <2>1, <2>2, <2>3, <2>4, <3>1, StateCommand
  <2>5. CASE row' = [row EXCEPT !.state = "error"]
    <3>1. Restated /\ row'.state = "error"
      BY <1>1, <2>2, <2>5, StateUpdate
    <3>2. QED
      BY <1>1, <2>1, <2>2, <2>3, <3>1, StateCommand
  <2>6. QED
    BY <2>1, <2>4, <2>5
<1>6. CASE Stop
  <2>1. /\ row # NoRow /\ cli = Idle /\ cli' = Idle /\ row' = [row EXCEPT !.state = "suspended"]
        /\ UNCHANGED <<yaml, overlay, clean, current>>
    BY <1>6 DEF Stop, Command
  <2>2. Restated /\ row'.state = "suspended"
    BY <1>1, <2>1, StateUpdate
  <2>3. QED
    BY <1>1, <2>1, <2>2, StateCommand
<1>7. CASE \E t \in Threads : StopDock(t)
  <2>1. /\ row # NoRow /\ row' = [row EXCEPT !.state = "suspended"]
        /\ UNCHANGED <<yaml, overlay, cli, clean, current>>
    BY <1>7 DEF StopDock
  <2>2. Restated /\ row'.state = "suspended"
    BY <1>1, <2>1, StateUpdate
  <2>3. QED
    BY <1>1, <2>1, <2>2, StateCommand
<1>8. QED
  BY <1>2, <1>3, <1>4, <1>5, <1>6, <1>7

\* Destroying a desk leaves no row to show.
LEMMA DestroyCommand == ASSUME CommandInv, Destroy PROVE CommandInv'
<1>1. /\ cli' = Idle /\ row' = NoRow /\ current' = [overlay |-> FALSE, container |-> FALSE]
      /\ UNCHANGED <<yaml, clean>>
  BY DEF Destroy, Command
<1>2. cli'.at = "idle"
  BY <1>1 DEF Idle
<1>3. Shapes'
  BY <1>1, <1>2, Zenon DEF CommandInv, Shapes, Reloading, Rereading
<1>4. Shown'
  BY <1>1, <1>2 DEF Shown
<1>5. Synced'
  BY <1>1, <1>2 DEF Synced, Rereading
<1>6. QED
  BY <1>3, <1>4, <1>5 DEF CommandInv

\* The reload writes the fields of the file it read.
LEMMA ReloadConfigCommand == ASSUME CommandInv, ReloadConfig PROVE CommandInv'
<1> DEFINE config == [f \in ConfigFields |->
      IF f \in Reloaded /\ (f \notin Scalars \/ cli.spec[f] # {}) THEN cli.spec[f] ELSE row.config[f]]
<1>1. /\ cli.at = "reload config" /\ cli = [at |-> "reload config", spec |-> cli.spec] /\ IsRow(row)
      /\ UNCHANGED <<yaml, overlay, container, clean>>
      /\ current' = [overlay |-> FALSE, container |-> FALSE] /\ clean \in BOOLEAN
  BY Zenon DEF ReloadConfig, CommandInv, Shapes, Reloading, Rereading
<1>2. cli' = [at |-> "reload grants", spec |-> cli.spec]
  BY <1>1, Zenon DEF ReloadConfig
<1>3. row' = [state |-> row.state, config |-> config, grants |-> row.grants, reach |-> row.reach,
              subdir |-> row.subdir, overlayPath |-> row.overlayPath, sha |-> row.sha]
  BY <1>1, Zenon DEF ReloadConfig, IsRow
<1>4. IsRow(row') /\ row' # NoRow /\ row'.config = config
  <2>1. IsRow(row') /\ row'.config = config
    BY <1>1, <1>3, Zenon DEF IsRow
  <2>2. QED
    BY <2>1, NoRowState
<1>5. Shapes'
  BY <1>1, <1>2, <1>4, Zenon DEF Shapes, Reloading, Rereading
<1>6. Shown'
  BY <1>1, <1>2, <1>4, Zenon DEF Shown
<1>7. ConfigApplied(row', cli.spec)
  <2>1. \A f \in (Reloaded \intersect StoredAtCreate) \ {"extra_mounts"} : f \in ConfigFields
    BY DEF ConfigFields
  <2>2. "extra_mounts" \in Reloaded /\ "extra_mounts" \notin Scalars /\ "extra_mounts" \in ConfigFields
    BY DEF Reloaded, Scalars, ConfigFields, OverlayFields
  <2>3. ASSUME NEW f \in (Reloaded \intersect StoredAtCreate) \ {"extra_mounts"}
        PROVE  row'.config[f] = cli.spec[f] \/ (f \in Scalars /\ cli.spec[f] = {})
    BY <1>4, <2>1
  <2>4. row'.config["extra_mounts"] = cli.spec["extra_mounts"]
    BY <1>4, <2>2
  <2>5. QED
    BY <2>3, <2>4 DEF ConfigApplied
<1>8. Synced'
  BY <1>1, <1>2, <1>4, <1>7, Zenon DEF CommandInv, Synced, Rereading
<1>9. QED
  BY <1>5, <1>6, <1>8 DEF CommandInv

\* The grants are written from the file the reload read.
LEMMA ReloadGrantsCommand == ASSUME CommandInv, ReloadGrants PROVE CommandInv'
<1> DEFINE grants == [f \in Grants |-> IF cli.spec[f] # {} THEN cli.spec[f] ELSE row.grants[f]]
<1>1. /\ cli.at = "reload grants" /\ cli = [at |-> "reload grants", spec |-> cli.spec]
      /\ row # NoRow /\ IsRow(row) /\ UNCHANGED <<yaml, overlay, container, clean, current>>
      /\ current \in [overlay : BOOLEAN, container : BOOLEAN] /\ clean \in BOOLEAN
  BY Zenon DEF ReloadGrants, CommandInv, Shapes, Reloading, Rereading
<1>2. cli' = [at |-> "reload pin", spec |-> cli.spec]
  BY <1>1, Zenon DEF ReloadGrants
<1>3. row' = [state |-> row.state, config |-> row.config, grants |-> grants, reach |-> row.reach,
              subdir |-> row.subdir, overlayPath |-> row.overlayPath, sha |-> row.sha]
  BY <1>1, Zenon DEF ReloadGrants, IsRow
<1>4. /\ IsRow(row') /\ row' # NoRow /\ row'.config = row.config /\ row'.grants = grants
      /\ row'.subdir = row.subdir /\ row'.state = row.state
  <2>1. /\ IsRow(row') /\ row'.config = row.config /\ row'.grants = grants
        /\ row'.subdir = row.subdir /\ row'.state = row.state
    BY <1>1, <1>3, Zenon DEF IsRow
  <2>2. QED
    BY <2>1, NoRowState
<1>5. Shapes'
  BY <1>1, <1>2, <1>4, Zenon DEF Shapes, Reloading, Rereading
<1>6. \A c : Shows(c, row') = Shows(c, row)
  BY <1>4, SameShown
<1>7. Shown'
  BY <1>1, <1>2, <1>4, <1>6, Zenon DEF CommandInv, Shown
<1>8. ConfigApplied(row', cli.spec) /\ GrantsApplied(row', cli.spec)
  <2>1. ConfigApplied(row, cli.spec)
    BY <1>1, Zenon DEF CommandInv, Synced
  <2>2. ConfigApplied(row', cli.spec)
    BY <1>4, <2>1 DEF ConfigApplied
  <2>3. GrantsApplied(row', cli.spec)
    BY <1>4 DEF GrantsApplied
  <2>4. QED
    BY <2>2, <2>3
<1>9. Synced'
  BY <1>1, <1>2, <1>4, <1>8, Zenon DEF CommandInv, Synced, Rereading
<1>10. QED
  BY <1>5, <1>7, <1>9 DEF CommandInv

\* The hash of the file as it is when the reload pins it.
LEMMA ReloadPinCommand == ASSUME CommandInv, ReloadPin PROVE CommandInv'
<1>1. /\ cli.at = "reload pin" /\ cli = [at |-> "reload pin", spec |-> cli.spec]
      /\ row # NoRow /\ IsRow(row) /\ UNCHANGED <<yaml, overlay, container, clean, current>>
      /\ current \in [overlay : BOOLEAN, container : BOOLEAN] /\ clean \in BOOLEAN
  BY Zenon DEF ReloadPin, CommandInv, Shapes, Reloading, Rereading
<1>2. cli'.at \in {"reload acl", "reload overlay"} /\ cli' = [at |-> cli'.at, spec |-> cli.spec]
      /\ cli'.spec = cli.spec
  BY <1>1, Zenon DEF ReloadPin
<1>3. row' = [state |-> row.state, config |-> row.config, grants |-> row.grants, reach |-> row.reach,
              subdir |-> row.subdir, overlayPath |-> row.overlayPath,
              sha |-> IF yaml = None THEN row.sha ELSE yaml]
  BY <1>1, Zenon DEF ReloadPin, IsRow
<1>4. /\ IsRow(row') /\ row' # NoRow /\ row'.config = row.config /\ row'.grants = row.grants
      /\ row'.subdir = row.subdir /\ row'.state = row.state /\ (yaml # None => row'.sha = yaml)
  <2>1. /\ IsRow(row') /\ row'.config = row.config /\ row'.grants = row.grants
        /\ row'.subdir = row.subdir /\ row'.state = row.state /\ (yaml # None => row'.sha = yaml)
    BY <1>1, <1>3, Zenon DEF IsRow
  <2>2. QED
    BY <2>1, NoRowState
<1>5. Shapes'
  BY <1>1, <1>2, <1>4, Zenon DEF Shapes, Reloading, Rereading
<1>6. \A c : Shows(c, row') = Shows(c, row)
  BY <1>4, SameShown
<1>7. Shown'
  BY <1>1, <1>2, <1>4, <1>6, Zenon DEF CommandInv, Shown
<1>8. clean => /\ yaml # None /\ ConfigApplied(row', Load(yaml)) /\ GrantsApplied(row', Load(yaml))
  <2>1. /\ clean => yaml # None /\ cli.spec = Load(yaml)
        /\ ConfigApplied(row, cli.spec) /\ GrantsApplied(row, cli.spec)
    BY <1>1, Zenon DEF CommandInv, Synced, Rereading
  <2>2. QED
    BY <1>4, <2>1, SameApplied
<1>9. Synced'
  BY <1>1, <1>2, <1>4, <1>8, Zenon DEF Synced, Rereading
<1>10. QED
  BY <1>5, <1>7, <1>9 DEF CommandInv

\* The end of a reload, and a kill: a reload that had not yet pinned the hash is not clean.
LEMMA ReloadEndCommand == ASSUME CommandInv, ReloadOverlay \/ Kill PROVE CommandInv'
<1>1. Idle.at = "idle"
  BY DEF Idle
<1>2. /\ cli.at \in Reloading /\ cli' = Idle /\ cli'.at = "idle" /\ UNCHANGED <<yaml, row, container>>
      /\ current \in [overlay : BOOLEAN, container : BOOLEAN] /\ clean \in BOOLEAN /\ row # NoRow
  BY <1>1, Zenon DEF ReloadOverlay, Kill, Reloading, Rereading, desk, CommandInv, Shapes
<1>3. clean' \in BOOLEAN /\ (clean' => clean /\ cli.at \notin Rereading)
  <2>1. CASE ReloadOverlay
    BY <1>2, <2>1, Zenon DEF ReloadOverlay, Rereading
  <2>2. CASE Kill
    <3>1. clean' = (clean /\ ~Reading)
      BY <2>2, Zenon DEF Kill
    <3>2. QED
      BY <1>2, <3>1, Zenon DEF Reading, Rereading
  <2>3. QED
    BY <2>1, <2>2
<1>4. \/ UNCHANGED <<overlay, current>>
      \/ /\ overlay' = GenerateOverlay(OverlayFromRow(row))
         /\ current' = [overlay |-> TRUE, container |-> current.container]
  BY <1>2, Zenon DEF ReloadOverlay, Kill, desk
<1>5. Shapes'
  <2>1. current.container \in BOOLEAN /\ current \in [overlay : BOOLEAN, container : BOOLEAN]
    BY <1>2
  <2>2. current' \in [overlay : BOOLEAN, container : BOOLEAN]
    <3>1. CASE current' = current
      BY <2>1, <3>1
    <3>2. CASE current' = [overlay |-> TRUE, container |-> current.container]
      BY <2>1, <3>2
    <3>3. QED
      BY <1>4, <3>1, <3>2
  <2>3. QED
    BY <1>2, <1>3, <2>2, Zenon DEF CommandInv, Shapes
<1>6. Shown'
  <2>1. current'.overlay => Shows(overlay', row)
    BY <1>4, RegeneratedShows, Zenon DEF CommandInv, Shown
  <2>2. current'.container = current.container
    BY <1>2, <1>4
  <2>3. QED
    BY <1>2, <2>1, <2>2, Zenon DEF CommandInv, Shown
<1>7. Synced'
  BY <1>2, <1>3, Zenon DEF CommandInv, Synced, Rereading
<1>8. QED
  BY <1>5, <1>6, <1>7 DEF CommandInv

\* A command whose allowlist is written, or not, goes on or ends.
LEMMA ReplaceCommand ==
  ASSUME AclInv, CommandInv, NEW w \in Writers, Replace(w)
  PROVE  CommandInv'
<1>1. /\ UNCHANGED <<yaml, row, overlay, container, clean, current>>
      /\ Ended(w, TRUE) \/ Ended(w, FALSE)
  BY Zenon DEF Replace, desk
<1>2. CASE w # "cli"
  BY <1>1, <1>2, ElsewhereCommand DEF Ended
<1>3. CASE w = "cli"
  <2>1. cli.at \in {"create acl", "reload acl"}
    BY <1>3, Zenon DEF Replace, AclInv, AclTypes, Open, Writing
  <2>2. /\ cli = [at |-> cli.at, spec |-> cli.spec] /\ row # NoRow
    BY <2>1, Zenon DEF CommandInv, Shapes, Reloading
  <2>3. \/ cli' = Idle
        \/ cli.at = "create acl" /\ cli' = [at |-> "create overlay", spec |-> cli.spec]
        \/ cli.at = "reload acl" /\ cli' = [at |-> "reload overlay", spec |-> cli.spec]
    BY <1>1, <1>3, <2>1, <2>2, Zenon DEF Ended
  <2>4. Idle.at = "idle"
    BY DEF Idle
  <2>5. /\ cli.at \notin Rereading
        /\ \/ cli'.at = "idle"
           \/ /\ cli' = [at |-> cli'.at, spec |-> cli'.spec] /\ cli'.spec = cli.spec
              /\ \/ cli.at = "create acl" /\ cli'.at = "create overlay"
                 \/ cli.at = "reload acl" /\ cli'.at = "reload overlay"
    <3>1. cli.at \notin Rereading
      BY <2>1, Zenon DEF Rereading
    <3>2. CASE cli' = Idle
      <4>1. cli'.at = "idle"
        BY <2>4, <3>2, Zenon
      <4>2. QED
        BY <3>1, <4>1
    <3>3. CASE cli.at = "create acl" /\ cli' = [at |-> "create overlay", spec |-> cli.spec]
      BY <3>1, <3>3, Zenon
    <3>4. CASE cli.at = "reload acl" /\ cli' = [at |-> "reload overlay", spec |-> cli.spec]
      BY <3>1, <3>4, Zenon
    <3>5. QED
      BY <2>3, <3>2, <3>3, <3>4, Zenon
  <2>6. Shapes'
    BY <1>1, <2>2, <2>5, Zenon DEF CommandInv, Shapes, Creating, Reloading, Rereading
  <2>7. Shown'
    BY <1>1, <2>5, Zenon DEF CommandInv, Shown
  <2>8. Synced'
    BY <1>1, <2>2, <2>5, Zenon DEF CommandInv, Synced, Rereading
  <2>9. QED
    BY <2>6, <2>7, <2>8 DEF CommandInv
<1>4. QED
  BY <1>2, <1>3

\* Every step preserves the invariant of the commands.
LEMMA NextCommand == AclInv /\ CommandInv /\ [Next]_vars => CommandInv'
<1> SUFFICES ASSUME AclInv, CommandInv, [Next]_vars PROVE CommandInv'
  OBVIOUS
<1>1. CASE Edit \/ CreateRead \/ ReloadRead
  BY <1>1, EditCommand, ReadCommand
<1>2. CASE CreateRow \/ CreateOverlay \/ Resume \/ ResumeRefused \/ Up \/ Stop
  BY <1>2, CreateRowCommand, DeskCommand
<1>3. CASE Destroy \/ ReloadConfig \/ ReloadGrants \/ ReloadPin
  BY <1>3, DestroyCommand, ReloadConfigCommand, ReloadGrantsCommand, ReloadPinCommand
<1>4. CASE ReloadOverlay \/ Kill
  BY <1>4, ReloadEndCommand
<1>5. ASSUME NEW w \in Writers, OpenTmp(w) \/ WriteTmp(w) PROVE CommandInv'
  BY <1>5, ElsewhereCommand DEF OpenTmp, WriteTmp, desk
<1>6. ASSUME NEW w \in Writers, Replace(w) PROVE CommandInv'
  BY <1>6, ReplaceCommand
<1>7. ASSUME NEW t \in Threads, UpdateProxyAllowlist(t) \/ AuditorAction(t) PROVE CommandInv'
  <2>1. CASE StopDock(t)
    BY <2>1, DeskCommand
  <2>2. CASE UpdateProxyAllowlist(t) \/ Freeze(t) \/ Unfreeze(t)
    <3>1. UNCHANGED <<yaml, row, overlay, container, cli, clean, current>>
      BY <2>2 DEF UpdateProxyAllowlist, Freeze, Unfreeze, Ask, desk
    <3>2. QED
      BY <3>1, ElsewhereCommand
  <2>3. QED
    BY <1>7, <2>1, <2>2 DEF AuditorAction
<1>8. CASE UNCHANGED vars
  BY <1>8, ElsewhereCommand DEF vars, desk
<1>9. QED
  BY <1>1, <1>2, <1>3, <1>4, <1>5, <1>6, <1>7, <1>8 DEF Next

\* The invariant of the commands holds of every reachable state.
THEOREM CommandsHold == Spec => []CommandInv
BY InitAcl, NextAcl, InitCommand, NextCommand, PTL DEF Spec

\* A running container shows the row it was started from, whichever commands ran, failed
\* or were killed before: for any project files and any number of commands.
THEOREM ContainersShowRows == Spec => []ContainerShowsRow
<1>1. CommandInv => ContainerShowsRow
  BY Zenon DEF CommandInv, Shown, Shows, ContainerShowsRow
<1>2. QED
  BY <1>1, CommandsHold, PTL

\* When the audit says in_sync, the row has what the YAML says.
THEOREM InSyncApplied == Spec => []InSyncMeansApplied
<1>1. CommandInv => InSyncMeansApplied
  <2> SUFFICES ASSUME CommandInv, cli = Idle, clean, row # NoRow, yaml # None, row.sha = yaml
               PROVE  ConfigApplied(row, Load(yaml)) /\ GrantsApplied(row, Load(yaml))
    BY DEF InSyncMeansApplied, ConfigApplied, GrantsApplied
  <2>1. cli.at = "idle"
    BY DEF Idle
  <2>2. QED
    BY <2>1 DEF CommandInv, Synced, Rereading
<1>2. QED
  BY <1>1, CommandsHold, PTL

\* What the role validator passes is what runs.
THEOREM AuditorsNarrow == Spec => []AuditorIsNarrow
<1>1. ASSUME CommandInv, row.state = "running", current.container, cli = Idle, clean,
             yaml # None, row.sha = yaml, ValidateAuditorRole(Load(yaml))
      PROVE  /\ container.ports = {}
             /\ {e[1] : e \in container.mounts} \subseteq {"claude_profile", "proxy", "registry"}
             /\ \A e \in container.env : e[1] \in Firewall \union {"storage_mounts"} =>
                  e[1] = "firewall_extra_domains" /\ e[2] \in AllowedFirewallDomains
  <2> DEFINE d == OverlayFromRow(row)
             cfg == Load(yaml)
  <2>1. cli.at = "idle" /\ row # NoRow
    BY <1>1, NoRowState DEF Idle
  <2>2. ConfigApplied(row, cfg) /\ Shows(container, row)
    BY <1>1, <2>1 DEF CommandInv, Synced, Shown, Rereading
  <2>3. /\ \A f \in {"forward_ports", "extra_mounts", "storage_mounts", "firewall_ipv6_hosts",
                     "firewall_aws_ip_ranges"} : cfg[f] = {}
        /\ cfg["firewall_extra_domains"] \subseteq AllowedFirewallDomains
    <3>1. {"forward_ports", "extra_mounts", "storage_mounts", "firewall_ipv6_hosts",
           "firewall_aws_ip_ranges"} \subseteq Forbidden
      BY DEF Forbidden, Firewall, Grants, Reach
    <3>2. QED
      BY <1>1, <3>1 DEF ValidateAuditorRole
  <2>4. /\ \A f \in {"forward_ports", "storage_mounts", "firewall_ipv6_hosts",
                     "firewall_aws_ip_ranges"} : row.config[f] = {}
        /\ row.config["firewall_extra_domains"] \subseteq AllowedFirewallDomains
        /\ row.config["extra_mounts"] = {}
    <3>1. {"forward_ports", "storage_mounts", "firewall_ipv6_hosts", "firewall_aws_ip_ranges",
           "firewall_extra_domains"} \subseteq ((Reloaded \intersect StoredAtCreate) \ {"extra_mounts"}) \ Scalars
      BY DEF Reloaded, StoredAtCreate, OverlayFields, Scalars, Firewall
    <3> HIDE DEF cfg
    <3>2. QED
      BY <2>2, <2>3, <3>1 DEF ConfigApplied
  <2>5. \A f \in OverlayFields : d.settings[f] = row.config[f]
    BY DEF OverlayFromRow
  <2>6. /\ \A f \in {"forward_ports", "storage_mounts", "firewall_ipv6_hosts",
                     "firewall_aws_ip_ranges", "extra_mounts"} : d.settings[f] = {}
        /\ d.settings["firewall_extra_domains"] \subseteq AllowedFirewallDomains
    <3>1. {"forward_ports", "storage_mounts", "firewall_ipv6_hosts", "firewall_aws_ip_ranges",
           "extra_mounts", "firewall_extra_domains"} \subseteq OverlayFields
      BY DEF OverlayFields, Firewall
    <3> HIDE DEF d
    <3>2. QED
      BY <2>4, <2>5, <3>1
  <2>7. container.ports = {}
    BY <2>2, <2>6 DEF Shows, GenerateOverlay
  <2>8. {e[1] : e \in container.mounts} \subseteq {"claude_profile", "proxy", "registry"}
    <3>1. container.mounts \ {<<"proxy", "on">>} = Mounts(d)
      BY <2>2, Zenon DEF Shows, GenerateOverlay
    <3>2. \A e \in Entries(d, {"claude_profile", "extra_mounts"}) : e[1] = "claude_profile"
      BY <2>6, EntryOf
    <3>3. \A e \in Mounts(d) : e[1] \in {"claude_profile", "proxy", "registry"}
      <4> HIDE DEF d
      <4>1. QED
        BY <3>2 DEF Mounts, When
    <3>4. \A e \in container.mounts : e \in Mounts(d) \/ e = <<"proxy", "on">>
      BY <3>1
    <3>5. QED
      BY <3>3, <3>4
  <2>9. ASSUME NEW e \in container.env, e[1] \in Firewall \union {"storage_mounts"}
        PROVE  e[1] = "firewall_extra_domains" /\ e[2] \in AllowedFirewallDomains
    <3>1. {x \in container.env : x[1] # "authkey"} = ContainerEnv(d)
      BY <2>2, Zenon DEF Shows, GenerateOverlay
    <3>2. e[1] \in {"firewall_extra_domains", "firewall_ipv6_hosts", "firewall_aws_ip_ranges", "storage_mounts"}
      BY <2>9 DEF Firewall
    <3>3. e \in ContainerEnv(d)
      BY <3>1, <3>2
    <3> HIDE DEF d
    <3>4. e \in Entries(d, EnvFields)
      BY <3>2, <3>3 DEF ContainerEnv, EnvFields, When
    <3>5. PICK f \in EnvFields : \E v \in d.settings[f] : e = <<f, v>>
      BY <3>4, EntryOf
    <3>6. PICK v \in d.settings[f] : e = <<f, v>>
      BY <3>5
    <3>7. e[1] = f /\ e[2] = v
      BY <3>6
    <3>8. QED
      BY <2>6, <3>2, <3>6, <3>7
  <2>10. QED
    BY <2>7, <2>8, <2>9
<1>2. CommandInv => AuditorIsNarrow
  BY <1>1 DEF AuditorIsNarrow
<1>3. QED
  BY <1>2, CommandsHold, PTL
=============================================================================
