------------------------------- MODULE Policy -------------------------------
(***************************************************************************)
(* The pure checks of core/policy.py, and what the proxy lets through.     *)
(*                                                                         *)
(* A domain or domain pattern is the sequence of its labels, "" for the    *)
(* label a doubled or trailing dot makes and "*" for the star; a           *)
(* path is its number of leading slashes and its segments; a bucket with   *)
(* its prefix is a sequence of characters, for there the code compares     *)
(* characters where whole segments are meant.                              *)
(***************************************************************************)
EXTENDS Integers, FiniteSets, SequencesExt

Invalid == [mode |-> "invalid"]  \* a mount or scope that is refused
NoDomain == << >>                \* a domain that is refused

\* lower() of a label or a mount mode in capitals.
Lower(word) == IF word = "A" THEN "a" ELSE IF word = "BIND" THEN "bind" ELSE word
Lowered(labels) == [i \in DOMAIN labels |-> Lower(labels[i])]

\* rstrip(".")
StripDots(labels) ==
  SubSeq(labels, 1, Max({0} \union {i \in DOMAIN labels : labels[i] # ""}))

\* ":" is a label with a colon in it.
CanonicalizeDomain(raw) ==
  LET value == StripDots(raw)
  IN IF value = << >> \/ Range(value) \intersect {"", "*", ":"} # {}
     THEN NoDomain ELSE Lowered(value)

\* A segment after those that are done: ".." takes back the one before it, is nothing at
\* the root, and stays where a relative path begins.
NormStep(path, done, seg) ==
  IF seg \in {"", "."} \/ (seg = ".." /\ done = << >> /\ path.slashes # 0) THEN done
  ELSE IF seg = ".." /\ done # << >> /\ Last(done) # ".." THEN Front(done)
  ELSE Append(done, seg)

\* Mutant: a path that comes to nothing becomes the empty string.
NormPathEmpty(path) ==
  [slashes |-> IF path.slashes = 3 THEN 1 ELSE path.slashes,
   segs |-> FoldLeft(LAMBDA done, seg : NormStep(path, done, seg), << >>, path.segs)]

\* os.path.normpath: two leading slashes stay, more become one, and a relative path
\* that comes to nothing is ".".
NormPath(path) ==
  LET segs == FoldLeft(LAMBDA done, seg : NormStep(path, done, seg), << >>, path.segs)
  IN [slashes |-> IF path.slashes = 3 THEN 1 ELSE path.slashes,
      segs |-> IF segs = << >> /\ path.slashes = 0 THEN <<".">> ELSE segs]

\* _canonicalize_mount_tuple: a ".." that is left climbs out of a relative path.
CanonicalizeMount(raw) ==
  LET source == NormPath(raw.source)
      target == NormPath(raw.target)
      mode == Lower(raw.mode)
  IN IF \/ \E path \in {raw.source, raw.target} : path.slashes = 0 /\ path.segs \in {<< >>, <<"">>}
        \/ mode \notin {"bind", "volume"}
        \/ target.slashes = 0
        \/ ".." \in Range(source.segs) \union Range(target.segs)
     THEN Invalid
     ELSE [source |-> source, target |-> target, mode |-> mode]
-----------------------------------------------------------------------------
(* Spawning *)

Canonical(policy) ==
  [policy EXCEPT !.domains = {CanonicalizeDomain(d) : d \in @},
                 !.mounts = {CanonicalizeMount(m) : m \in @}]
WellFormed(policy) == NoDomain \notin policy.domains /\ Invalid \notin policy.mounts

\* validate_spawn: the first rule that fails.
ValidateSpawn(parent, child) ==
  LET p == Canonical(parent)
      c == Canonical(child)
  IN IF ~(WellFormed(p) /\ WellFormed(c)) THEN "invalid_input_format"
     ELSE IF ~(c.domains \subseteq p.domains) THEN "firewall_narrowness"
     ELSE IF ~(c.secrets \subseteq p.secrets) THEN "secret_narrowness"
     ELSE IF ~(c.capabilities \subseteq p.capabilities) THEN "capability_narrowness"
     ELSE IF ~(c.mounts \subseteq p.mounts) THEN "mount_narrowness"
     ELSE "allow"

\* spawn_child: _load_parent_policy and _build_child_spec canonicalise what
\* validate_spawn canonicalises again.
SpawnVerdict(parent, child) ==
  IF ~WellFormed(Canonical(parent)) THEN "policy_load_failed"
  ELSE IF ~WellFormed(Canonical(child)) THEN "invalid_params"
  ELSE ValidateSpawn(Canonical(parent), Canonical(child))
-----------------------------------------------------------------------------
(* Storage scopes *)

\* strip("/")
StripSlashes(s) ==
  LET kept == {i \in DOMAIN s : s[i] # "/"}
  IN IF kept = {} THEN << >> ELSE SubSeq(s, Min(kept), Max(kept))

\* parse_storage_scope of a string with the scheme: its mode prefix and its body.
ParseStorageScope(raw) ==
  LET body == IF IsSuffix(<<"/", "*">>, raw.body)
              THEN SubSeq(raw.body, 1, Len(raw.body) - 2) ELSE raw.body
      slash == {i \in DOMAIN body : body[i] = "/"}
      cut == IF slash = {} THEN Len(body) + 1 ELSE Min(slash)
  IN IF raw.body \in {<< >>, <<"*">>} \/ cut = 1 THEN Invalid
     ELSE [bucket |-> SubSeq(body, 1, cut - 1),
           prefix |-> StripSlashes(SubSeq(body, cut + 1, Len(body))), mode |-> raw.mode]

\* Mutant: a prefix is one as soon as its characters are.
PrefixMatchesCharacters(requested, granted) == IsPrefix(granted, requested)

PrefixMatches(requested, granted) ==
  granted = << >> \/ requested = granted \/ IsPrefix(Append(granted, "/"), requested)

\* matches_storage_scope: no scope at all permits everything, a malformed one nothing.
MatchesStorageScope(request, granted) ==
  \/ granted = {}
  \/ \E raw \in granted :
       LET scope == ParseStorageScope(raw)
       IN /\ scope # Invalid
          /\ scope.bucket = request.bucket
          /\ PrefixMatches(StripSlashes(request.prefix), scope.prefix)
          /\ request.mode = "rw" => scope.mode = "rw"
-----------------------------------------------------------------------------
(* Network reach *)

\* Mutant: a wildcard reaches every depth.
MatchesDomainDeep(domain, pattern) ==
  LET d == Lowered(StripDots(domain))
      p == Lowered(StripDots(pattern))
  IN /\ pattern # <<"">>
     /\ \/ p \in {<<"*">>, d}
        \/ Len(p) > 1 /\ p[1] = "*" /\ Len(d) >= Len(p) /\ IsSuffix(Tail(p), d)

\* _matches_any_domain_pattern: "*.foo" is one label, and not an empty one, before foo.
MatchesDomain(domain, pattern) ==
  LET d == Lowered(StripDots(domain))
      p == Lowered(StripDots(pattern))
  IN /\ pattern # <<"">>
     /\ \/ p \in {<<"*">>, d}
        \/ Len(p) > 1 /\ p[1] = "*" /\ Len(d) = Len(p) /\ Tail(d) = Tail(p) /\ d[1] # ""

\* matches_network_reach
MatchesNetworkReach(domain, port, granted, ports) ==
  IF granted = {} THEN "no_entitlement"
  ELSE IF ~\E pattern \in granted : MatchesDomain(domain, pattern) THEN "domain_not_entitled"
  ELSE IF port \notin (IF ports = {} THEN {80, 443} ELSE ports) THEN "port_not_entitled"
  ELSE "allowed"

\* What smokescreen lets through.
AclAllows(acl, domain) ==
  domain \in acl.hosts \/ \E d \in acl.domains : IsSuffix(d, domain)
=============================================================================
