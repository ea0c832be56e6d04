---------------------------- MODULE PolicyChecks ----------------------------
(***************************************************************************)
(* The checks of Policy on every input up to a length: pairs of domains,   *)
(* mounts, and storage scopes with a prefix that is asked for.  What the   *)
(* properties say of the input is said of every input there is.            *)
(***************************************************************************)
EXTENDS Policy, Allowlist

CONSTANTS
  Labels,     \* of domains
  Segments,   \* of paths
  Characters, \* of buckets and prefixes
  MaxLength   \* bound: how many of them in a row

ASSUME LengthAssumption == MaxLength \in Nat

VARIABLE input

NoCheck == [kind |-> "none"]  \* no input: the project's commands run instead

Words(items) == SeqOf(items, MaxLength)
Paths == [slashes : 0..3, segs : Words(Segments)]
Modes == {"bind", "BIND", "volume", "tmpfs"}
Root == [slashes |-> 1, segs |-> << >>]

Inputs ==
  \/ \E d, e \in Words(Labels) : input = [kind |-> "domains", parent |-> d, child |-> e]
  \/ \E path \in Paths, mode \in Modes :
       input = [kind |-> "mount", mount |-> [source |-> path, target |-> Root, mode |-> mode]]
  \/ \E path \in Paths :
       input = [kind |-> "mount", mount |-> [source |-> Root, target |-> path, mode |-> "bind"]]
  \/ \E body, prefix \in Words(Characters), mode \in {"ro", "rw"} :
       input = [kind |-> "storage", scope |-> [body |-> body, mode |-> mode], prefix |-> prefix]

-----------------------------------------------------------------------------
(* Properties of the checks *)

Checks(kind) == input.kind = kind

\* Policies with one domain, or one mount.
Domain(d) == [domains |-> {d}, mounts |-> {}, secrets |-> {}, capabilities |-> {}]
Mount(m) == [domains |-> {}, mounts |-> {m}, secrets |-> {}, capabilities |-> {}]

\* Canonicalising twice is canonicalising once: spawn_child's verdict on policies it
\* canonicalises before validate_spawn does is validate_spawn's verdict on the raw
\* ones, whatever the spelling of a domain or of a mount's paths.
SpawnCanonicalOnce ==
  LET Agree(parent, child) ==
        (SpawnVerdict(parent, child) = "allow") = (ValidateSpawn(parent, child) = "allow")
  IN /\ Checks("domains") => Agree(Domain(input.parent), Domain(input.child))
     /\ Checks("mount") => Agree(Mount(input.mount), Mount(input.mount))

\* The segments of a slash-separated string with their positions.
Split(s) ==
  LET cuts == {0, Len(s) + 1} \union {i \in DOMAIN s : s[i] = "/"}
  IN {<<Cardinality({c \in cuts : c <= x[1]}), SubSeq(s, x[1] + 1, x[2] - 1)>> :
        x \in {x \in cuts \X cuts : x[1] < x[2] /\ \A c \in cuts : c <= x[1] \/ c >= x[2]}}

\* A storage scope covers whole path segments: a read is granted for exactly the keys
\* whose first segments are those of the scope, although _prefix_matches compares
\* characters; a scope that does not parse grants nothing, and only "rw:" grants a write.
StorageSegmentwise ==
  Checks("storage") =>
    LET scope == ParseStorageScope(input.scope)
        Granted(mode) ==
          MatchesStorageScope([bucket |-> <<"a">>, prefix |-> input.prefix, mode |-> mode], {input.scope})
        within == /\ scope # Invalid /\ scope.bucket = <<"a">>
                  /\ \/ scope.prefix = << >>
                     \/ Split(scope.prefix) \subseteq Split(StripSlashes(input.prefix))
    IN /\ Granted("ro") <=> within
       /\ Granted("rw") <=> (within /\ input.scope.mode = "rw")

\* The proxy lets a desk reach what a lease on the same pattern would grant, and more
\* only below a wildcard, where smokescreen's domains take in the domain itself and
\* every depth; "*" is left out, for which the file has no entry.
ReachAgreesWithProxy ==
  LET pattern == input.parent
      domain == input.child
      Plain(labels) == labels # << >> /\ labels = Lowered(labels) /\ "" \notin Range(labels)
  IN Checks("domains") /\ Plain(pattern) /\ Plain(domain) /\ pattern # <<"*">> =>
       (MatchesNetworkReach(domain, 443, {pattern}, {}) = "allowed" <=>
          /\ AclAllows(SplitGlobs({pattern}), domain)
          /\ pattern[1] = "*" => Len(domain) = Len(pattern))
=============================================================================
