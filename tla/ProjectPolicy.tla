---------------------------- MODULE ProjectPolicy ----------------------------
(***************************************************************************)
(* From the project YAML to the running container: `create` (cli/create.py *)
(* and handlers._perform_create), `project reload` (cli/project.py),       *)
(* resuming, the overlay file (core/overlay.py), the pinned hash of the    *)
(* YAML, and the egress allowlist file that create, reload,                *)
(* UpdateProxyAllowlist and the auditor's throttle_egress all write        *)
(* (core/proxy.py).                                                        *)
(*                                                                         *)
(* One project, one desk.  A YAML gives every field a set of values, the   *)
(* empty set where the key is absent; its hash is the YAML itself.  The    *)
(* principal runs one command at a time, each of which may be killed;      *)
(* daemon threads update the allowlist meanwhile, and the YAML is edited   *)
(* at any time.  The registry writes that follow each other in a create    *)
(* are one step here: DeskLifecycle takes them apart.                      *)
(***************************************************************************)
EXTENDS Allowlist, FiniteSets

CONSTANTS
  Yamls,        \* the contents the project file may have
  Threads,      \* daemon threads at work on the allowlist
  Domains,      \* entries an update may ask for
  MaxEdits,     \* bound: edits of the YAML
  MaxCommands,  \* bound: commands of the principal
  MaxUpdates,   \* bound: allowlist requests
  None

ASSUME ProjectAssumption == None \notin [on : {"tmp", "live", "gone"}, done : BOOLEAN]

VARIABLES
  yaml,       \* ~/.drydock/projects/<project>.yaml, None when there is no file
  row,        \* the desk's row
  overlay,    \* the overlay file
  container,  \* what the running container was started with
  file,       \* the allowlist: the file in place and the temporary file
  fd,         \* fd[w]: the file writer w has open
  cli,        \* the command that runs: its step and what it read
  thread,     \* thread[t]: the request of a daemon thread
  clean,      \* history: no edit and no kill cut into the last command
  current,    \* history: overlay, and container, show the row as it is
  acl,        \* history: what the last complete write of the allowlist wanted
  count       \* edits, commands and updates so far

desk == <<row, overlay, container>>
proxy == <<file, fd, acl>>
vars == <<yaml, desk, proxy, cli, thread, clean, current, count>>

Scalars ==
  {"tailscale_hostname", "tailscale_serve_port", "tailscale_authkey_env_var",
   "remote_control_name", "claude_profile", "workspace_subdir", "devcontainer_subpath"}
Firewall == {"firewall_extra_domains", "firewall_ipv6_hosts", "firewall_aws_ip_ranges"}
Grants ==
  {"capabilities", "delegatable_secrets", "delegatable_firewall_domains",
   "delegatable_storage_scopes", "delegatable_provision_scopes"}
Reach == "delegatable_network_reach"
Fields ==
  Scalars \union Firewall \union Grants \union
  {"forward_ports", "extra_mounts", "extra_env", "storage_mounts", "deskwatch",
   "egress_proxy", "role", "resources_hard", "network_reach_ports", Reach}

\* What an OverlayConfig carries under the name of the field; its other parts are the
\* auth key, the mount of the proxy directory and the devcontainer.json it is merged into.
OverlayFields ==
  (Scalars \ {"tailscale_authkey_env_var", "workspace_subdir", "devcontainer_subpath"})
  \union Firewall
  \union {"forward_ports", "extra_mounts", "extra_env", "storage_mounts",
          "egress_proxy", "role", "resources_hard"}

\* _OVERLAY_PARAM_FIELDS and the two fields _perform_create stores beside them.
StoredAtCreate ==
  (OverlayFields \union {"tailscale_authkey_env_var", "devcontainer_subpath"})

\* _CONFIG_FIELDS_FROM_YAML
Reloaded ==
  (OverlayFields \union Scalars \union {"deskwatch"}) \ {"role", "resources_hard"}
ConfigFields == StoredAtCreate \union Reloaded

Enabled(cfg) == cfg["egress_proxy"] = {"enabled"}
Default(v, d) == IF v = {} THEN {d} ELSE v

\* load_project_config: the defaults, and what expand_storage_mounts derives.
Load(y) ==
  [f \in Fields |->
     CASE f = "egress_proxy" -> Default(y[f], "enabled")
       [] f = "role" -> Default(y[f], "worker")
       [] f \in {"delegatable_storage_scopes", "firewall_aws_ip_ranges"} ->
            y[f] \union y["storage_mounts"]
       [] f = "capabilities" /\ y["storage_mounts"] # {} ->
            y[f] \union {"request_storage_leases"}
       [] OTHER -> y[f]]

\* validate_auditor_role, which `auditor designate` asks of the project file; ceilings
\* within its limits are "small", and the image is left out.
AllowedFirewallDomains == {"api.anthropic.com", "api.telegram.org"}
Forbidden ==
  (Firewall \union Grants \union {Reach, "storage_mounts", "extra_mounts", "forward_ports"})
  \ {"firewall_extra_domains", "capabilities"}
ForbiddenCapabilities ==
  {"request_secret_leases", "request_storage_leases", "request_provision_leases",
   "request_workload_leases", "request_network_reach"}

ValidateAuditorRole(cfg) ==
  /\ cfg["role"] = {"auditor"}
  /\ cfg["firewall_extra_domains"] \subseteq AllowedFirewallDomains
  /\ \A f \in Forbidden : cfg[f] = {}
  /\ cfg["capabilities"] \intersect ForbiddenCapabilities = {}
  /\ cfg["resources_hard"] = {"small"}

\* What cli.create sends of a project, nothing when it has no file; two fields never
\* (_daemon_overlay_params).
Sent(y) ==
  [f \in Fields |-> IF y = None \/ f \in {"extra_mounts", "deskwatch"} THEN {} ELSE Load(y)[f]]

\* _validated_spec: the daemon's defaults for what was not sent.
ValidatedSpec(params) ==
  [f \in Fields |->
     CASE f = "egress_proxy" -> Default(params[f], "disabled")
       [] f = "role" -> Default(params[f], "worker")
       [] f = "devcontainer_subpath" -> Default(params[f], ".devcontainer")
       [] OTHER -> params[f]]

\* _overlay_from_spec; the daemon's environment has the auth key.
OverlayFromSpec(spec) ==
  [settings |-> [f \in OverlayFields |-> IF f = "extra_mounts" THEN {} ELSE spec[f]],
   authkey |-> spec["tailscale_authkey_env_var"],
   proxyDir |-> Enabled(spec),
   workdir |-> spec["workspace_subdir"],
   base |-> <<spec["workspace_subdir"], spec["devcontainer_subpath"]>>]

\* regenerate_overlay_from_drydock
OverlayFromRow(r) ==
  [settings |-> [f \in OverlayFields |-> r.config[f]],
   authkey |-> {},
   proxyDir |-> FALSE,
   workdir |-> r.subdir,
   base |-> <<{}, r.config["devcontainer_subpath"]>>]

Entries(c, fields) == UNION {{f} \X c.settings[f] : f \in fields}
When(condition, entry) == IF condition THEN {<<entry, "on">>} ELSE {}
Auditing(c) == c.settings["role"] = {"auditor"}

\* _build_container_env
ContainerEnv(c) ==
  Entries(c, Firewall \union {"tailscale_hostname", "tailscale_serve_port",
                              "remote_control_name", "storage_mounts", "extra_env"})
  \union ({"authkey"} \X c.authkey) \union ({"subdir"} \X c.workdir)
  \union When(Enabled(c.settings), "http_proxy") \union When(Auditing(c), "registry")

\* _build_mounts, without the ones every desk has.
Mounts(c) ==
  Entries(c, {"claude_profile", "extra_mounts"})
  \union When(Enabled(c.settings) /\ c.proxyDir, "proxy") \union When(Auditing(c), "registry")

\* generate_overlay, written by write_overlay over the devcontainer.json at base.
GenerateOverlay(c) ==
  [env |-> ContainerEnv(c), mounts |-> Mounts(c), ports |-> c.settings["forward_ports"],
   args |-> Entries(c, {"tailscale_hostname", "resources_hard"})
              \union When(c.settings["storage_mounts"] # {}, "fuse"),
   workdir |-> c.workdir, base |-> c.base]

-----------------------------------------------------------------------------
NoRow == [state |-> "none"]
Idle == [at |-> "idle"]
Writers == {"cli"} \union Threads

Init ==
  /\ yaml \in Yamls
  /\ row = NoRow /\ overlay = None /\ container = None
  /\ file = [live |-> None, tmp |-> None] /\ fd = [w \in Writers |-> None]
  /\ cli = Idle /\ thread = [t \in Threads |-> Idle]
  /\ clean = TRUE /\ current = [overlay |-> FALSE, container |-> FALSE]
  /\ acl = [want |-> None, failed |-> FALSE]
  /\ count = [edits |-> 0, commands |-> 0, updates |-> 0]

\* A command has read the YAML and not yet pinned its hash.
Reading ==
  \/ cli.at = "create" /\ row = NoRow
  \/ cli.at \in {"reload config", "reload grants", "reload pin"}

\* The principal edits, removes or restores the file.
Edit ==
  /\ count.edits < MaxEdits /\ count' = [count EXCEPT !.edits = @ + 1]
  /\ \E y \in Yamls \union {None} : y # yaml /\ yaml' = y
  /\ clean' = (clean /\ ~Reading)
  /\ UNCHANGED <<desk, proxy, cli, thread, current>>

Command(step) ==
  /\ cli = Idle /\ count.commands < MaxCommands
  /\ count' = [count EXCEPT !.commands = @ + 1]
  /\ cli' = step
-----------------------------------------------------------------------------
(* create *)

\* cli.create reads the project and sends CreateDesk.
CreateRead ==
  /\ row.state \in {"none", "suspended", "defined"}
  /\ Command([at |-> "create", spec |-> ValidatedSpec(Sent(yaml))]) /\ clean' = (clean \/ row = NoRow)
  /\ UNCHANGED <<yaml, desk, proxy, thread, current>>

\* The row, its policy columns and the hash of the file as it is now; a file that
\* cannot be read pins nothing.
CreateRow ==
  /\ cli.at = "create" /\ row = NoRow
  /\ row' = [state |-> "defined", config |-> [f \in ConfigFields |->
                 IF f \in StoredAtCreate THEN cli.spec[f] ELSE {}],
             grants |-> [f \in Grants |-> cli.spec[f]], reach |-> cli.spec[Reach],
             subdir |-> cli.spec["workspace_subdir"], overlayPath |-> FALSE, sha |-> yaml]
  /\ cli' = [cli EXCEPT !.at = IF Enabled(cli.spec) THEN "create acl" ELSE "create overlay"]
  /\ UNCHANGED <<yaml, overlay, container, proxy, thread, clean, current, count>>

CreateOverlay ==
  /\ cli.at = "create overlay"
  /\ overlay' = GenerateOverlay(OverlayFromSpec(cli.spec))
  /\ row' = [row EXCEPT !.overlayPath = TRUE, !.state = "provisioning"]
  /\ cli' = [at |-> "up"] /\ current' = [current EXCEPT !.overlay = TRUE]
  /\ UNCHANGED <<yaml, container, proxy, thread, clean, count>>

\* Mutant: the stored overlay is used as it is.
ResumeStored ==
  /\ cli.at = "create" /\ row # NoRow /\ row.overlayPath
  /\ row' = [row EXCEPT !.state = "provisioning"]
  /\ current' = [current EXCEPT !.overlay = TRUE]
  /\ cli' = [at |-> "up"]
  /\ UNCHANGED <<yaml, overlay, container, proxy, thread, clean, count>>

\* _resume_desk: the overlay is regenerated; when that fails the stored file serves.
Resume ==
  /\ cli.at = "create" /\ row # NoRow /\ row.overlayPath
  /\ row' = [row EXCEPT !.state = "provisioning"]
  /\ \/ overlay' = GenerateOverlay(OverlayFromRow(row)) /\ current' = [current EXCEPT !.overlay = TRUE]
     \/ UNCHANGED <<overlay, current>>
  /\ cli' = [at |-> "up"]
  /\ UNCHANGED <<yaml, container, proxy, thread, clean, count>>

\* A row whose create ended before an overlay was recorded.
ResumeRefused ==
  /\ cli.at = "create" /\ row # NoRow /\ ~row.overlayPath
  /\ row' = [row EXCEPT !.state = "error"] /\ cli' = Idle
  /\ UNCHANGED <<yaml, overlay, container, proxy, thread, clean, current, count>>

Up ==
  /\ cli.at = "up"
  /\ \/ row' = [row EXCEPT !.state = "running"] /\ container' = overlay
     \/ row' = [row EXCEPT !.state = "error"] /\ UNCHANGED container
  /\ current' = [current EXCEPT !.container = current.overlay] /\ cli' = Idle
  /\ UNCHANGED <<yaml, overlay, proxy, thread, clean, count>>

Stop ==
  /\ row # NoRow /\ Command(Idle)
  /\ row' = [row EXCEPT !.state = "suspended"] /\ container' = None
  /\ UNCHANGED <<yaml, overlay, proxy, thread, clean, current>>

\* DestroyDesk leaves the allowlist where it is.
Destroy ==
  /\ row # NoRow /\ Command(Idle)
  /\ row' = NoRow /\ overlay' = None /\ container' = None
  /\ current' = [overlay |-> FALSE, container |-> FALSE]
  /\ UNCHANGED <<yaml, proxy, thread, clean>>
-----------------------------------------------------------------------------
(* project reload *)

ReloadRead ==
  /\ row # NoRow /\ yaml # None
  /\ Command([at |-> "reload config", spec |-> Load(yaml)]) /\ clean' = TRUE
  /\ UNCHANGED <<yaml, desk, proxy, thread, current>>

\* Mutant: a list that is empty in the YAML is taken for one that is not there.
ReloadConfigNonEmpty ==
  /\ cli.at = "reload config"
  /\ row' = [row EXCEPT !.config = [f \in ConfigFields |->
       IF f \in Reloaded /\ cli.spec[f] # {} THEN cli.spec[f] ELSE @[f]]]
  /\ current' = [overlay |-> FALSE, container |-> FALSE]
  /\ cli' = [cli EXCEPT !.at = "reload grants"]
  /\ UNCHANGED <<yaml, overlay, container, proxy, thread, clean, count>>

\* Lists are replaced, empty ones included; a scalar without a value keeps the old one.
ReloadConfig ==
  /\ cli.at = "reload config"
  /\ row' = [row EXCEPT !.config = [f \in ConfigFields |->
       IF f \in Reloaded /\ (f \notin Scalars \/ cli.spec[f] # {}) THEN cli.spec[f] ELSE @[f]]]
  /\ current' = [overlay |-> FALSE, container |-> FALSE]
  /\ cli' = [cli EXCEPT !.at = "reload grants"]
  /\ UNCHANGED <<yaml, overlay, container, proxy, thread, clean, count>>

\* update_desk_delegations with the non-empty grants; the reach is not among them.
ReloadGrants ==
  /\ cli.at = "reload grants"
  /\ row' = [row EXCEPT !.grants = [f \in Grants |->
       IF cli.spec[f] # {} THEN cli.spec[f] ELSE @[f]]]
  /\ cli' = [cli EXCEPT !.at = "reload pin"]
  /\ UNCHANGED <<yaml, overlay, container, proxy, thread, clean, current, count>>

\* The file is read a second time for its hash.
ReloadPin ==
  /\ cli.at = "reload pin"
  /\ row' = [row EXCEPT !.sha = IF yaml = None THEN @ ELSE yaml]
  /\ cli' = [cli EXCEPT !.at = IF Enabled(cli.spec) THEN "reload acl" ELSE "reload overlay"]
  /\ UNCHANGED <<yaml, overlay, container, proxy, thread, clean, current, count>>

\* Regenerated, or not: --no-regenerate, or no devcontainer.json to merge into.
ReloadOverlay ==
  /\ cli.at = "reload overlay"
  /\ \/ overlay' = GenerateOverlay(OverlayFromRow(row)) /\ current' = [current EXCEPT !.overlay = TRUE]
     \/ UNCHANGED <<overlay, current>>
  /\ cli' = Idle
  /\ UNCHANGED <<yaml, row, container, proxy, thread, clean, count>>

\* The reload runs in the principal's terminal and may be killed; a killed create
\* goes on in the daemon.
Kill ==
  /\ cli.at \in {"reload config", "reload grants", "reload pin", "reload overlay"}
  /\ cli' = Idle /\ clean' = (clean /\ ~Reading)
  /\ UNCHANGED <<yaml, desk, proxy, thread, current, count>>
-----------------------------------------------------------------------------
(* The allowlist: write_smokescreen_acl and its callers *)

Whole(entries) == [is |-> "whole", entries |-> entries]
Truncated == [is |-> "empty", entries |-> SplitGlobs({})]
Torn == [is |-> "torn", entries |-> SplitGlobs({})]

Writing(w) ==
  IF w = "cli" THEN cli.at \in {"create acl", "reload acl"} ELSE thread[w] # Idle
Wants(w) == IF w = "cli" THEN SplitGlobs(cli.spec[Reach]) ELSE thread[w].want

\* The request of writer w is over: the command goes on, or ends with the exception.
Ended(w, ok) ==
  IF w = "cli"
  THEN /\ cli' = IF ~ok THEN Idle
                 ELSE [cli EXCEPT !.at = IF @ = "create acl" THEN "create overlay" ELSE "reload overlay"]
       /\ UNCHANGED thread
  ELSE thread' = [thread EXCEPT ![w] = Idle] /\ UNCHANGED cli

\* open(tmp, "w"): the temporary file has one name for all writers, so the second
\* truncates the first one's.
OpenTmp(w) ==
  /\ Writing(w) /\ fd[w] = None
  /\ file' = [file EXCEPT !.tmp = Truncated]
  /\ fd' = [fd EXCEPT ![w] = [on |-> "tmp", done |-> FALSE]]
  /\ acl' = [acl EXCEPT !.failed = @ /\ \E v \in Writers : fd[v] # None]
  /\ UNCHANGED <<yaml, desk, cli, thread, clean, current, count>>

\* The document is written over what is in the file; the end of a longer one stays.
WriteTmp(w) ==
  /\ fd[w] # None /\ ~fd[w].done
  /\ fd' = [fd EXCEPT ![w].done = TRUE]
  /\ IF fd[w].on = "gone" THEN UNCHANGED file
     ELSE \E c \in {Whole(Wants(w)), Torn} :
            /\ c = Torn => file[fd[w].on] \notin {Truncated, Whole(Wants(w))}
            /\ file' = [file EXCEPT ![fd[w].on] = c]
  /\ UNCHANGED <<yaml, desk, acl, cli, thread, clean, current, count>>

Moved(f) == CASE f = None -> None
              [] f # None /\ f.on = "tmp" -> [f EXCEPT !.on = "live"]
              [] OTHER -> [f EXCEPT !.on = "gone"]

\* Mutant: a temporary file that is gone is taken for one already in place.
ReplaceQuietly(w) ==
  /\ fd[w] # None /\ fd[w].done
  /\ IF file.tmp # None
     THEN /\ file' = [live |-> file.tmp, tmp |-> None]
          /\ fd' = [[v \in Writers |-> Moved(fd[v])] EXCEPT ![w] = None]
     ELSE UNCHANGED file /\ fd' = [fd EXCEPT ![w] = None]
  /\ acl' = [acl EXCEPT !.want = Wants(w)] /\ Ended(w, TRUE)
  /\ UNCHANGED <<yaml, desk, clean, current, count>>

\* tmp.replace(target) puts whatever has the temporary name in place; without such a
\* file, chmod or replace raises and the request fails.
Replace(w) ==
  /\ fd[w] # None /\ fd[w].done
  /\ IF file.tmp # None
     THEN /\ file' = [live |-> file.tmp, tmp |-> None]
          /\ fd' = [[v \in Writers |-> Moved(fd[v])] EXCEPT ![w] = None]
          /\ acl' = [acl EXCEPT !.want = Wants(w)] /\ Ended(w, TRUE)
     ELSE /\ UNCHANGED file /\ fd' = [fd EXCEPT ![w] = None]
          /\ acl' = [acl EXCEPT !.failed = TRUE] /\ Ended(w, FALSE)
  /\ UNCHANGED <<yaml, desk, clean, current, count>>

Ask(t, want) ==
  /\ thread[t] = Idle /\ row # NoRow
  /\ count.updates < MaxUpdates /\ count' = [count EXCEPT !.updates = @ + 1]
  /\ thread' = [thread EXCEPT ![t] = [at |-> "acl", want |-> want]]
  /\ UNCHANGED <<yaml, desk, proxy, cli, clean, current>>

\* update_proxy_allowlist: a desk within the reach of its row, the auditor anything.
UpdateProxyAllowlist(t) ==
  \E domains \in SUBSET Domains, scope \in {"dock", "auditor"} :
    /\ row # NoRow /\ scope = "dock" => domains \subseteq row.reach
    /\ Ask(t, SplitGlobs(domains))

\* throttle_egress: nothing is let through, or what the row grants.
Freeze(t) == Ask(t, SplitGlobs({}))
Unfreeze(t) == row # NoRow /\ Ask(t, SplitGlobs(row.reach))

\* stop_dock: stop_desk at any moment of the principal's command.
StopDock(t) ==
  /\ thread[t] = Idle /\ row # NoRow
  /\ count.updates < MaxUpdates /\ count' = [count EXCEPT !.updates = @ + 1]
  /\ row' = [row EXCEPT !.state = "suspended"] /\ container' = None
  /\ UNCHANGED <<yaml, overlay, proxy, cli, thread, clean, current>>

\* _execute_live for the designated auditor; revoke_lease is CapabilityLease's release,
\* freeze_storage is refused, and without AUDITOR_LIVE_ACTIONS nothing is done.
AuditorAction(t) == Freeze(t) \/ Unfreeze(t) \/ StopDock(t)
-----------------------------------------------------------------------------
Next ==
  \/ Edit
  \/ CreateRead \/ CreateRow \/ CreateOverlay \/ Resume \/ ResumeRefused \/ Up
  \/ Stop \/ Destroy
  \/ ReloadRead \/ ReloadConfig \/ ReloadGrants \/ ReloadPin \/ ReloadOverlay \/ Kill
  \/ \E w \in Writers : OpenTmp(w) \/ WriteTmp(w) \/ Replace(w)
  \/ \E t \in Threads : UpdateProxyAllowlist(t) \/ AuditorAction(t)

Spec == Init /\ [][Next]_vars
-----------------------------------------------------------------------------
(* Properties *)

\* A container shows the row it was started from: whether it was created or resumed,
\* and whichever commands ran, failed or were killed before, its variables, mounts,
\* ports and arguments are those the row as it is now would give, but for what only a
\* create knows: the auth key and the mount of the proxy directory.
ContainerShowsRow ==
  row.state = "running" /\ current.container =>
    LET shown == GenerateOverlay(OverlayFromRow(row))
    IN /\ {e \in container.env : e[1] # "authkey"} = shown.env
       /\ container.mounts \ {<<"proxy", "on">>} = shown.mounts
       /\ <<container.ports, container.args, container.workdir>> =
            <<shown.ports, shown.args, shown.workdir>>

\* The hash does not hide an edit: when the audit says in_sync, the row holds what the
\* YAML says in every field both create and reload write (a grant or scalar that is
\* absent from the YAML may keep its old value), unless an edit or a kill cut into the
\* command that pinned the hash.
InSyncMeansApplied ==
  cli = Idle /\ clean /\ row # NoRow /\ yaml # None /\ row.sha = yaml =>
    /\ \A f \in (Reloaded \intersect StoredAtCreate) \ {"extra_mounts"} :
         row.config[f] = Load(yaml)[f] \/ (f \in Scalars /\ Load(yaml)[f] = {})
    /\ \A f \in Grants : row.grants[f] = Load(yaml)[f] \/ Load(yaml)[f] = {}

\* What the role validator passes is what runs: a container started from a row that is
\* in sync with an auditor's validated project file has no port, no mount and no reach
\* the validator forbids, whatever files were loaded into the row before.  (The
\* ceilings are not meant: a reload does not apply them.)
AuditorIsNarrow ==
  row.state = "running" /\ current.container /\ cli = Idle /\ clean
    /\ yaml # None /\ row.sha = yaml /\ ValidateAuditorRole(Load(yaml)) =>
    /\ container.ports = {}
    /\ {e[1] : e \in container.mounts} \subseteq {"claude_profile", "proxy", "registry"}
    /\ \A e \in container.env :
         e[1] \in Firewall \union {"storage_mounts"} =>
           e[1] = "firewall_extra_domains" /\ e[2] \in AllowedFirewallDomains

\* An allowlist write that reports success is in force: once all writers are done the
\* file holds exactly what the last of them wanted, unless a write that overlapped with
\* it reported a failure.
AclExact ==
  (\A w \in Writers : fd[w] = None) /\ ~acl.failed /\ acl.want # None =>
    file.live = Whole(acl.want)
=============================================================================
