---------------------------- MODULE PolicyProofs ----------------------------
(***************************************************************************)
(* Proofs about the checks of Policy, for inputs of any length: what the   *)
(* proxy lets through, canonicalising twice, and storage scopes.  The      *)
(* recursion over the segments of a path is unrolled step by step, and     *)
(* what holds after every step is shown by the smallest counterexample.    *)
(***************************************************************************)
EXTENDS PolicyChecks, SequenceTheorems, FiniteSetTheorems, WellFoundedInduction, TLAPS

-----------------------------------------------------------------------------
(* What the proxy lets through *)

\* A word is a sequence, of any length.
LEMMA WordsAreSequences == ASSUME NEW S PROVE Words(S) \subseteq Seq(S)
BY LengthAssumption DEF Words, SeqOf

\* The element no other exceeds is the maximum.
LEMMA MaxOf ==
  ASSUME NEW S \in SUBSET Nat, NEW n \in S, \A m \in S : m <= n
  PROVE  Max(S) = n
<1>1. /\ Max(S) \in S /\ Max(S) \in Nat /\ n \in Nat
      /\ \A m \in S : Max(S) >= m
  BY Zenon DEF Max
<1>2. QED
  BY <1>1

\* The maximum StripDots takes where no label is empty.
LEMMA MaxUpTo == ASSUME NEW n \in Nat PROVE Max({0} \union (1..n)) = n
<1>1. {0} \union (1..n) = 0..n
  OBVIOUS
<1>2. Max(0..n) = n
  BY MaxOf
<1>3. QED
  BY <1>1, <1>2, Zenon

\* A domain whose labels are in order stands for itself.
LEMMA PlainStands ==
  ASSUME NEW S, NEW labels \in Seq(S), labels # << >>, "" \notin Range(labels)
  PROVE  StripDots(labels) = labels
<1>1. DOMAIN labels = 1..Len(labels) /\ Len(labels) \in Nat \ {0}
  BY EmptySeq, LenProperties, Zenon
<1>2. {i \in DOMAIN labels : labels[i] # ""} = 1..Len(labels)
  BY <1>1, Zenon DEF Range
<1>3. QED
  BY <1>1, <1>2, MaxUpTo, SubSeqFull, Zenon DEF StripDots

\* A suffix, label by label.
LEMMA SuffixOf ==
  ASSUME NEW S, NEW s \in Seq(S), NEW t \in Seq(S)
  PROVE  IsSuffix(s, t) <=>
           /\ Len(s) <= Len(t)
           /\ \A i \in 1..Len(s) : s[i] = t[Len(t) - Len(s) + i]
<1>1. /\ Reverse(s) \in Seq(S) /\ Len(Reverse(s)) = Len(s)
      /\ \A i \in 1..Len(s) : Reverse(s)[i] = s[Len(s) - i + 1]
      /\ Reverse(t) \in Seq(S) /\ Len(Reverse(t)) = Len(t)
      /\ \A i \in 1..Len(t) : Reverse(t)[i] = t[Len(t) - i + 1]
  BY DEF Reverse
<1>2. IsSuffix(s, t) <=> /\ Len(s) <= Len(t)
                         /\ \A i \in 1..Len(s) : Reverse(s)[i] = Reverse(t)[i]
  BY <1>1 DEF IsSuffix, IsPrefix
<1>3. ASSUME Len(s) <= Len(t)
      PROVE  (\A i \in 1..Len(s) : Reverse(s)[i] = Reverse(t)[i]) <=>
               \A i \in 1..Len(s) : s[i] = t[Len(t) - Len(s) + i]
  <2>1. ASSUME \A i \in 1..Len(s) : Reverse(s)[i] = Reverse(t)[i], NEW i \in 1..Len(s)
        PROVE  s[i] = t[Len(t) - Len(s) + i]
    <3>1. Len(s) - i + 1 \in 1..Len(s) /\ Len(s) - (Len(s) - i + 1) + 1 = i
          /\ Len(t) - (Len(s) - i + 1) + 1 = Len(t) - Len(s) + i
          /\ Len(s) - i + 1 \in 1..Len(t)
      BY <1>3, LenProperties
    <3>2. Reverse(s)[Len(s) - i + 1] = s[i] /\ Reverse(t)[Len(s) - i + 1] = t[Len(t) - Len(s) + i]
      BY <1>1, <3>1, Zenon
    <3>3. QED
      BY <2>1, <3>1, <3>2
  <2>2. ASSUME \A i \in 1..Len(s) : s[i] = t[Len(t) - Len(s) + i], NEW i \in 1..Len(s)
        PROVE  Reverse(s)[i] = Reverse(t)[i]
    <3>1. Len(s) - i + 1 \in 1..Len(s) /\ Len(t) - Len(s) + (Len(s) - i + 1) = Len(t) - i + 1
          /\ i \in 1..Len(t)
      BY <1>3, LenProperties
    <3>2. Reverse(s)[i] = s[Len(s) - i + 1] /\ Reverse(t)[i] = t[Len(t) - i + 1]
      BY <1>1, <3>1
    <3>3. s[Len(s) - i + 1] = t[Len(t) - Len(s) + (Len(s) - i + 1)]
      BY <2>2, <3>1
    <3>4. QED
      BY <3>1, <3>2, <3>3
  <2>3. QED
    BY <2>1, <2>2
<1>4. QED
  BY <1>2, <1>3

\* The tails are the same when the labels behind the first are.
LEMMA TailEqual ==
  ASSUME NEW S, NEW s \in Seq(S), NEW t \in Seq(S), s # << >>, Len(s) = Len(t)
  PROVE  IsSuffix(Tail(s), t) <=> Tail(s) = Tail(t)
<1>1. /\ Tail(s) \in Seq(S) /\ Len(Tail(s)) = Len(s) - 1 /\ Len(s) \in Nat \ {0}
      /\ \A i \in 1..Len(s) - 1 : Tail(s)[i] = s[i + 1]
  BY HeadTailProperties, EmptySeq
<1>2. t # << >>
  BY <1>1, EmptySeq
<1>3. /\ Tail(t) \in Seq(S) /\ Len(Tail(t)) = Len(s) - 1
      /\ \A i \in 1..Len(s) - 1 : Tail(t)[i] = t[i + 1]
  BY <1>2, HeadTailProperties
<1>4. IsSuffix(Tail(s), t) <=>
        /\ Len(Tail(s)) <= Len(t)
        /\ \A i \in 1..Len(Tail(s)) : Tail(s)[i] = t[Len(t) - Len(Tail(s)) + i]
  BY <1>1, SuffixOf, Zenon
<1>5. IsSuffix(Tail(s), t) <=> \A i \in 1..Len(s) - 1 : Tail(s)[i] = t[i + 1]
  <2>1. Len(Tail(s)) <= Len(t) /\ \A i \in 1..Len(s) - 1 : Len(t) - Len(Tail(s)) + i = i + 1
    BY <1>1
  <2>2. QED
    BY <1>1, <1>4, <2>1
<1>6. Tail(s) = Tail(t) <=> \A i \in 1..Len(s) - 1 : Tail(s)[i] = Tail(t)[i]
  BY <1>1, <1>3, SeqEqual, Zenon
<1>7. QED
  BY <1>3, <1>5, <1>6

\* A sequence of one label.
LEMMA OneLabel ==
  ASSUME NEW S, NEW s \in Seq(S), Len(s) # 0
  PROVE  /\ \A x : s = <<x>> => s[1] = x
         /\ ~(Len(s) > 1) => s = <<s[1]>>
<1>1. \A x : s = <<x>> => s[1] = x
  OBVIOUS
<1>2. ASSUME ~(Len(s) > 1) PROVE s = <<s[1]>>
  <2>1. Len(s) = 1
    <3>1. Len(s) \in Nat
      BY LenProperties
    <3>2. \A n \in Nat : n # 0 /\ ~(n > 1) => n = 1
      OBVIOUS
    <3>3. QED
      BY <1>2, <3>1, <3>2, Zenon
  <2>2. s[1] \in S
    BY <2>1, ElementOfSeq
  <2>3. <<s[1]>> \in Seq(S) /\ Len(<<s[1]>>) = 1 /\ <<s[1]>>[1] = s[1]
    BY <2>2
  <2>4. QED
    BY <2>1, <2>3, SeqEqual
<1>3. QED
  BY <1>1, <1>2

\* An allowlist with one domain lets through what ends in it.
LEMMA AllowsBelow ==
  ASSUME NEW a, NEW d, a = [hosts |-> {}, domains |-> {d}], NEW domain
  PROVE  AclAllows(a, domain) <=> IsSuffix(d, domain)
BY DEF AclAllows

\* An allowlist with one host lets that host through.
LEMMA AllowsHost ==
  ASSUME NEW a, NEW h, a = [hosts |-> {h}, domains |-> {}], NEW domain
  PROVE  AclAllows(a, domain) <=> domain = h
BY DEF AclAllows

\* What ReachAgreesWithProxy asks of a pattern and a domain, and says of them.
Plain(labels) == labels # << >> /\ labels = Lowered(labels) /\ "" \notin Range(labels)
Star == <<"*">>
Agrees(domain, pattern) ==
  MatchesNetworkReach(domain, 443, {pattern}, {}) = "allowed" <=>
    /\ AclAllows(SplitGlobs({pattern}), domain)
    /\ pattern[1] = "*" => Len(domain) = Len(pattern)

\* A plain pattern and a plain domain agree.
LEMMA PlainReach ==
  ASSUME NEW S, NEW pattern \in Seq(S), NEW domain \in Seq(S),
         Plain(pattern), Plain(domain), pattern # Star
  PROVE  Agrees(domain, pattern)
<1>1. StripDots(pattern) = pattern /\ StripDots(domain) = domain
  BY PlainStands, Zenon DEF Plain
<1>2. Len(pattern) \in Nat \ {0} /\ Len(domain) \in Nat \ {0} /\ pattern[1] # "" /\ domain[1] # ""
  <2>1. Len(pattern) \in Nat \ {0} /\ Len(domain) \in Nat \ {0}
    BY EmptySeq, Zenon DEF Plain
  <2>2. 1 \in DOMAIN pattern /\ 1 \in DOMAIN domain
    BY <2>1, LenProperties
  <2>3. pattern[1] # "" /\ domain[1] # ""
    BY <2>2, Zenon DEF Range, Plain
  <2>4. QED
    BY <2>1, <2>3, Zenon
<1>2a. pattern # <<"">>
  <2>1. Len(pattern) # 0
    BY <1>2, Zenon
  <2>2. QED
    BY <1>2, <2>1, OneLabel, Zenon
<1>3. MatchesNetworkReach(domain, 443, {pattern}, {}) = "allowed" <=> MatchesDomain(domain, pattern)
  BY DEF MatchesNetworkReach
<1> DEFINE wild == Len(pattern) > 1 /\ pattern[1] = "*"
<1>4. MatchesDomain(domain, pattern) <=>
        \/ pattern = domain
        \/ wild /\ Len(domain) = Len(pattern) /\ Tail(domain) = Tail(pattern)
  BY <1>1, <1>2, <1>2a, Zenon DEF MatchesDomain, Plain, Star
<1>5. CASE wild
  <2>1. {p \in {pattern} : Len(p) > 1 /\ p[1] = "*"} = {pattern}
    BY <1>5
  <2>2. Tail(pattern) # <<"">>
    <3>1. Tail(pattern)[1] = pattern[2] /\ 2 \in DOMAIN pattern
      <4>1. 2 \in DOMAIN pattern /\ 1 \in 1..Len(pattern) - 1
        <5>1. Len(pattern) > 1
          BY <1>5
        <5>2. QED
          BY <5>1, LenProperties
      <4>2. Len(Tail(pattern)) = Len(pattern) - 1 /\ \A i \in 1..Len(Tail(pattern)) : Tail(pattern)[i] = pattern[i + 1]
        BY HeadTailProperties, Zenon DEF Plain
      <4>3. QED
        BY <4>1, <4>2
    <3>2. pattern[2] # ""
      BY <3>1, Zenon DEF Range, Plain
    <3>3. Tail(pattern)[1] # <<"">>[1]
      BY <3>1, <3>2, Zenon
    <3>4. QED
      BY <3>3, Zenon
  <2>3. SplitGlobs({pattern}) = [hosts |-> {}, domains |-> {Tail(pattern)}]
    BY <2>1, <2>2, Zenon DEF SplitGlobs
  <2>4. AclAllows(SplitGlobs({pattern}), domain) <=> IsSuffix(Tail(pattern), domain)
    BY <2>3, AllowsBelow, Zenon
  <2>5. Len(domain) = Len(pattern) => (IsSuffix(Tail(pattern), domain) <=> Tail(pattern) = Tail(domain))
    BY TailEqual, Zenon DEF Plain
  <2>6. QED
    BY <1>3, <1>4, <1>5, <2>4, <2>5 DEF Agrees
<1>6. CASE ~wild
  <2>1. pattern[1] # "*"
    <3>1. ~(Len(pattern) > 1) => pattern = <<pattern[1]>>
      <4>1. Len(pattern) # 0
        BY <1>2, Zenon
      <4>2. QED
        BY <4>1, OneLabel
    <3>2. QED
      BY <1>6, <3>1, Zenon DEF Star
  <2>2. {p \in {pattern} : Len(p) > 1 /\ p[1] = "*"} = {}
    BY <1>6
  <2>3. SplitGlobs({pattern}) = [hosts |-> {pattern}, domains |-> {}]
    BY <1>2a, <2>2, Zenon DEF SplitGlobs, Star
  <2>4. AclAllows(SplitGlobs({pattern}), domain) <=> domain = pattern
    BY <2>3, AllowsHost, Zenon
  <2>5. QED
    BY <1>3, <1>4, <1>6, <2>1, <2>4 DEF Agrees
<1>7. QED
  BY <1>5, <1>6

\* The input of a check is made of words.
InputInv ==
  /\ Checks("domains") => input.parent \in Seq(Labels) /\ input.child \in Seq(Labels)
  /\ Checks("mount") =>
       \E source, target \in [slashes : 0..3, segs : Seq(Segments)], mode \in Modes :
         input.mount = [source |-> source, target |-> target, mode |-> mode]
  /\ Checks("storage") =>
       /\ input.prefix \in Seq(Characters)
       /\ \E body \in Seq(Characters), mode \in {"ro", "rw"} : input.scope = [body |-> body, mode |-> mode]

\* Every input of a check is such a one.
LEMMA InputsHold == Inputs => InputInv
<1> SUFFICES ASSUME Inputs PROVE InputInv
  OBVIOUS
<1>1. CASE \E d, e \in Words(Labels) : input = [kind |-> "domains", parent |-> d, child |-> e]
  BY <1>1, WordsAreSequences DEF InputInv, Checks
<1>2. ASSUME NEW source \in [slashes : 0..3, segs : Seq(Segments)],
             NEW target \in [slashes : 0..3, segs : Seq(Segments)], NEW mode \in Modes,
             input = [kind |-> "mount", mount |-> [source |-> source, target |-> target, mode |-> mode]]
      PROVE  InputInv
  <2>1. input.kind = "mount" /\ input.mount = [source |-> source, target |-> target, mode |-> mode]
    BY <1>2
  <2>2. QED
    BY <2>1 DEF InputInv, Checks
<1>3. ASSUME NEW body \in Seq(Characters), NEW prefix \in Seq(Characters), NEW mode \in {"ro", "rw"},
             input = [kind |-> "storage", scope |-> [body |-> body, mode |-> mode], prefix |-> prefix]
      PROVE  InputInv
  <2>1. input.kind = "storage" /\ input.scope = [body |-> body, mode |-> mode] /\ input.prefix = prefix
    BY <1>3
  <2>2. QED
    BY <2>1 DEF InputInv, Checks
<1>4. /\ Root \in [slashes : 0..3, segs : Seq(Segments)] /\ "bind" \in Modes
      /\ Paths \subseteq [slashes : 0..3, segs : Seq(Segments)]
      /\ Words(Characters) \subseteq Seq(Characters)
  BY WordsAreSequences DEF Root, Modes, Paths
<1>5. QED
  BY <1>1, <1>2, <1>3, <1>4 DEF Inputs

\* The proxy lets a desk reach what a lease on the same pattern would grant, and more only
\* below a wildcard: for domains and patterns of any length.
THEOREM ReachAgrees == Inputs => ReachAgreesWithProxy
<1> SUFFICES ASSUME Inputs, Checks("domains"), Plain(input.parent), Plain(input.child),
                    input.parent # Star
             PROVE  Agrees(input.child, input.parent)
  BY Zenon DEF ReachAgreesWithProxy, Plain, Star, Agrees
<1>1. InputInv
  BY InputsHold
<1>2. input.parent \in Seq(Labels) /\ input.child \in Seq(Labels)
  BY <1>1 DEF InputInv
<1>3. QED
  BY <1>2, PlainReach, Zenon

-----------------------------------------------------------------------------
(* Canonicalising *)

\* A set of numbers has a least element: the induction of the proofs below takes the
\* smallest counterexample.
LEMMA Least ==
  ASSUME NEW T \in SUBSET Nat, T # {}
  PROVE  \E x \in T : \A y \in T : x <= y
<1> DEFINE R == {ss \in Nat \X Nat : ss[1] < ss[2]}
<1>1. IsWellFoundedOn(R, Nat)
  BY NatLessThanWellFounded DEF OpToRel
<1>2. PICK x \in T : \A y \in T : ~(<<y, x>> \in R)
  <2> HIDE DEF R
  <2>1. QED
    BY <1>1, WFMin, Zenon
<1>3. \A y \in T : ~(y < x)
  BY <1>2, Zenon
<1>4. QED
  BY <1>3

\* A bounded set of numbers has a maximum.
LEMMA MaxIn ==
  ASSUME NEW n \in Nat, NEW s \in SUBSET (0..n), s # {}
  PROVE  Max(s) \in s /\ \A y \in s : y <= Max(s)
<1> DEFINE T == {m \in Nat : \A y \in s : y <= m}
<1>1. n \in T
  OBVIOUS
<1>2. PICK m \in T : \A k \in T : m <= k
  BY <1>1, Least, Zenon
<1>3. PICK e \in s : TRUE
  BY Zenon
<1>4. m \in s
  <2> SUFFICES ASSUME m \notin s PROVE FALSE
    OBVIOUS
  <2>1. m >= 1 /\ m - 1 \in Nat
    <3>1. e \in Nat /\ e <= m /\ e # m
      BY <1>2, <1>3
    <3>2. QED
      BY <3>1
  <2>2. \A y \in s : y <= m - 1
    BY <1>2
  <2>3. m - 1 \in T
    BY <2>1, <2>2
  <2>4. QED
    BY <1>2, <2>1, <2>3
<1>5. m \in s /\ \A y \in s : m >= y
  BY <1>2, <1>4
<1>6. Max(s) \in s /\ \A y \in s : Max(s) >= y
  BY <1>5, Zenon DEF Max
<1>7. QED
  BY <1>6

\* f is what FoldLeft chooses: the outcome for every set of the first k positions, by
\* the outcome without the last of them.
Folded(f, path, k) ==
  f = [s \in SUBSET (1..k) |->
         IF s = {} THEN << >> ELSE NormStep(path, f[s \ {Max(s)}], path.segs[Max(s)])]

\* There is such a function, so that the choice is of one.
LEMMA FoldExists ==
  ASSUME NEW path, NEW n \in Nat
  PROVE  \E f : Folded(f, path, n)
<1> SUFFICES ASSUME ~\E f : Folded(f, path, n) PROVE FALSE
  OBVIOUS
<1> DEFINE Bad == {k \in Nat : ~\E f : Folded(f, path, k)}
<1>1. PICK k \in Bad : \A j \in Bad : k <= j
  BY Least, Zenon
<1>2. k # 0
  <2>1. SUBSET (1..0) = {{}}
    OBVIOUS
  <2> DEFINE f == [s \in {{}} |-> << >>]
  <2>2. f = [s \in {{}} |->
         IF s = {} THEN << >> ELSE NormStep(path, f[s \ {Max(s)}], path.segs[Max(s)])]
    OBVIOUS
  <2>3. Folded(f, path, 0)
    BY <2>1, <2>2 DEF Folded
  <2>4. QED
    BY <2>3
<1>3. k - 1 \in Nat /\ k - 1 \notin Bad
  BY <1>1, <1>2
<1>4. PICK f : Folded(f, path, k - 1)
  BY <1>3
<1> DEFINE g == [s \in SUBSET (1..k) |->
                   IF k \in s THEN NormStep(path, f[s \ {k}], path.segs[k]) ELSE f[s]]
<1>5. ASSUME NEW s \in SUBSET (1..k)
      PROVE  g[s] = IF s = {} THEN << >> ELSE NormStep(path, g[s \ {Max(s)}], path.segs[Max(s)])
  <2>1. CASE k \in s
    <3>1. Max(s) = k
      <4>1. Max(s) \in s /\ k <= Max(s)
        <5>1. s \in SUBSET (0..k) /\ k \in Nat
          BY <1>1
        <5>2. QED
          BY <2>1, <5>1, MaxIn, Zenon
      <4>1a. Max(s) \in 1..k
        BY <4>1, Zenon
      <4>2. QED
        BY <4>1, <4>1a
    <3>2. g[s] = NormStep(path, f[s \ {k}], path.segs[k])
      BY <2>1
    <3>3. s \ {k} \in SUBSET (1..k) /\ k \notin s \ {k}
      OBVIOUS
    <3>4. g[s \ {k}] = f[s \ {k}]
      BY <3>3
    <3> HIDE DEF g
    <3>5. QED
      BY <2>1, <3>1, <3>2, <3>4
  <2>2. CASE k \notin s
    <3>1. s \in SUBSET (1..k - 1)
      BY <2>2
    <3>2. f[s] = IF s = {} THEN << >> ELSE NormStep(path, f[s \ {Max(s)}], path.segs[Max(s)])
      BY <1>4, <3>1, Zenon DEF Folded
    <3>3. g[s] = f[s]
      BY <2>2
    <3>4. s \ {Max(s)} \in SUBSET (1..k) /\ k \notin s \ {Max(s)}
      BY <2>2, Zenon
    <3>5. g[s \ {Max(s)}] = f[s \ {Max(s)}]
      BY <3>4
    <3> HIDE DEF g
    <3>6. QED
      BY <3>2, <3>3, <3>5
  <2>3. QED
    BY <2>1, <2>2
<1>6. Folded(g, path, k)
  <2>1. g = [s \in SUBSET (1..k) |-> g[s]]
    OBVIOUS
  <2> HIDE DEF g
  <2>2. QED
    BY <1>5, <2>1, Zenon DEF Folded
<1>7. QED
  BY <1>1, <1>6

\* The segments done, after each number of segments.
Progress(f, path) ==
  /\ f[0] = << >>
  /\ \A k \in 1..Len(path.segs) : f[k] = NormStep(path, f[k - 1], path.segs[k])

\* NormPath goes from segment to segment.
LEMMA NormProgress ==
  ASSUME NEW S, NEW path, path.segs \in Seq(S)
  PROVE  \E f : /\ Progress(f, path)
                /\ NormPath(path) =
                     [slashes |-> IF path.slashes = 3 THEN 1 ELSE path.slashes,
                      segs |-> IF f[Len(path.segs)] = << >> /\ path.slashes = 0
                               THEN <<".">> ELSE f[Len(path.segs)]]
<1> DEFINE n == Len(path.segs)
           iter == CHOOSE f : Folded(f, path, n)
<1>1. n \in Nat /\ DOMAIN path.segs = 1..n
  BY LenProperties
<1>2. Folded(iter, path, n)
  BY <1>1, FoldExists, Zenon
<1>3. FoldLeft(LAMBDA done, seg : NormStep(path, done, seg), << >>, path.segs) = iter[1..n]
  BY <1>1 DEF FoldLeft, MapThenFoldSet, Folded
<1> DEFINE f == [k \in 0..n |-> iter[1..k]]
<1> HIDE DEF iter
<1>4. ASSUME NEW k \in 1..n PROVE iter[1..k] = NormStep(path, iter[1..(k - 1)], path.segs[k])
  <2>1. 1..k \in SUBSET (1..n) /\ 1..k # {}
    BY <1>1
  <2>2. Max(1..k) = k
    <3>1. k \in Nat /\ k \in 1..k /\ 1..k \in SUBSET (0..k)
      OBVIOUS
    <3>2. Max(1..k) \in 1..k /\ k <= Max(1..k)
      BY <3>1, <2>1, MaxIn, Zenon
    <3>3. QED
      BY <3>2
  <2>3. (1..k) \ {k} = 1..(k - 1)
    OBVIOUS
  <2>4. QED
    BY <1>2, <2>1, <2>2, <2>3, Zenon DEF Folded
<1>5. iter[1..0] = << >>
  BY <1>2 DEF Folded
<1>6. Progress(f, path) /\ f[n] = iter[1..n]
  BY <1>1, <1>4, <1>5 DEF Progress
<1> HIDE DEF f
<1>7. QED
  BY <1>3, <1>6, Zenon DEF NormPath

\* Segments normpath drops, and sequences without them.
Skipped(seg) == seg \in {"", "."}
Neat(segs) == \A i \in 1..Len(segs) : ~Skipped(segs[i])

\* A segment is dropped, appended or takes back the one before it.
LEMMA StepCases ==
  ASSUME NEW path, NEW done, NEW seg
  PROVE  \/ NormStep(path, done, seg) = done
         \/ ~Skipped(seg) /\ NormStep(path, done, seg) = Append(done, seg)
         \/ done # << >> /\ NormStep(path, done, seg) = Front(done)
BY Zenon DEF NormStep, Skipped

\* A segment leaves the sequence one without empty segments and dots.
LEMMA StepNeat ==
  ASSUME NEW S, NEW path, NEW done \in Seq(S), Neat(done), NEW seg \in S
  PROVE  NormStep(path, done, seg) \in Seq(S) /\ Neat(NormStep(path, done, seg))
<1>1. \/ NormStep(path, done, seg) = done
      \/ ~Skipped(seg) /\ NormStep(path, done, seg) = Append(done, seg)
      \/ done # << >> /\ NormStep(path, done, seg) = Front(done)
  BY StepCases
<1>2. CASE NormStep(path, done, seg) = done
  BY <1>2
<1>3. ASSUME ~Skipped(seg) PROVE Append(done, seg) \in Seq(S) /\ Neat(Append(done, seg))
  <2>1. /\ Append(done, seg) \in Seq(S) /\ Len(Append(done, seg)) = Len(done) + 1
        /\ \A i \in 1..Len(done) : Append(done, seg)[i] = done[i]
        /\ Append(done, seg)[Len(done) + 1] = seg
    BY AppendProperties
  <2>2. \A i \in 1..Len(done) + 1 : i \in 1..Len(done) \/ i = Len(done) + 1
    BY LenProperties
  <2>3. QED
    BY <1>3, <2>1, <2>2 DEF Neat
<1>4. ASSUME done # << >> PROVE Front(done) \in Seq(S) /\ Neat(Front(done))
  <2>1. Len(done) \in Nat \ {0}
    BY <1>4, EmptySeq
  <2>2. /\ Len(done) - 1 \in Int /\ 1 <= Len(done)
        /\ \A i \in 1..Len(done) - 1 : i \in 1..Len(done) /\ 1 + i - 1 = i
        /\ (Len(done) - 1) - 1 + 1 = Len(done) - 1
    BY <2>1
  <2>3. \A i \in 1..Len(done) - 1 : done[i] \in S
    BY <2>2, ElementOfSeq
  <2>4. /\ Front(done) \in Seq(S)
        /\ Len(Front(done)) = IF 1 <= Len(done) - 1 THEN Len(done) - 1 ELSE 0
        /\ \A i \in 1..Len(done) - 1 : Front(done)[i] = done[i]
    BY <2>2, <2>3, SubSeqProperties DEF Front
  <2>5. \A i \in 1..Len(Front(done)) : i \in 1..Len(done) - 1
    BY <2>1, <2>4
  <2>6. QED
    BY <2>2, <2>4, <2>5, Zenon DEF Neat
<1>5. QED
  BY <1>1, <1>2, <1>3, <1>4, Zenon

\* What is left of a path has no segment that normpath would drop.
LEMMA ProgressNeat ==
  ASSUME NEW S, NEW path, path.segs \in Seq(S), NEW f, Progress(f, path)
  PROVE  f[Len(path.segs)] \in Seq(S) /\ Neat(f[Len(path.segs)])
<1> DEFINE n == Len(path.segs)
           Good(k) == f[k] \in Seq(S) /\ Neat(f[k])
           Bad == {k \in Nat : k <= n /\ ~Good(k)}
<1>1. n \in Nat
  BY LenProperties
<1>2. Good(0)
  BY EmptySeq DEF Progress, Neat
<1>3. ASSUME NEW k \in 1..n, Good(k - 1) PROVE Good(k)
  <2>1. path.segs[k] \in S
    BY ElementOfSeq
  <2>2. f[k] = NormStep(path, f[k - 1], path.segs[k])
    BY DEF Progress
  <2>3. QED
    BY <1>3, <2>1, <2>2, StepNeat
<1> HIDE DEF Good
<1>4. Bad = {}
  <2> SUFFICES ASSUME Bad # {} PROVE FALSE
    OBVIOUS
  <2>1. PICK k \in Bad : \A j \in Bad : k <= j
    BY Least, Zenon
  <2>2. k # 0
    BY <1>2
  <2>3. k \in 1..n /\ k - 1 \in Nat /\ k - 1 <= n /\ ~(k <= k - 1)
    BY <1>1, <2>1, <2>2
  <2>4. Good(k - 1)
    BY <2>1, <2>3
  <2>5. QED
    BY <1>3, <2>1, <2>3, <2>4
<1>5. Good(n)
  BY <1>1, <1>4
<1>6. QED
  BY <1>5 DEF Good

\* Segments that normpath leaves as they are.
Kept(segs) == \A i \in 1..Len(segs) : ~Skipped(segs[i]) /\ segs[i] # ".."

\* A path in which nothing is skipped or taken back is done as it is.
LEMMA ProgressSame ==
  ASSUME NEW S, NEW path, path.segs \in Seq(S), Kept(path.segs), NEW f, Progress(f, path)
  PROVE  f[Len(path.segs)] = path.segs
<1> DEFINE n == Len(path.segs)
           Good(k) == f[k] = SubSeq(path.segs, 1, k)
           Bad == {k \in Nat : k <= n /\ ~Good(k)}
<1>1. n \in Nat
  BY LenProperties
<1>2. Good(0)
  BY SubSeqEmpty DEF Progress
<1>3. ASSUME NEW k \in 1..n, Good(k - 1) PROVE Good(k)
  <2>1. path.segs[k] \in S
    BY ElementOfSeq
  <2>2. f[k] = NormStep(path, f[k - 1], path.segs[k])
    BY DEF Progress
  <2>3. ~Skipped(path.segs[k]) /\ path.segs[k] # ".."
    BY DEF Kept
  <2>4. f[k] = Append(f[k - 1], path.segs[k])
    BY <2>2, <2>3, Zenon DEF NormStep, Skipped
  <2>5. SubSeq(path.segs, 1, k - 1) \in Seq(S)
    <3>1. k - 1 \in Int /\ \A i \in 1..k - 1 : i \in 1..n
      BY <1>1
    <3>2. \A i \in 1..k - 1 : path.segs[i] \in S
      BY <3>1, ElementOfSeq
    <3>3. QED
      BY <3>1, <3>2, SubSeqProperties
  <2>6. SubSeq(path.segs, 1, k) = SubSeq(path.segs, 1, k - 1) \o <<path.segs[k]>>
    <3>1. 1 \in 1..n /\ k \in 1..n
      BY <1>1
    <3>2. QED
      BY <3>1, SubSeqRecursiveSecond
  <2>7. QED
    BY <1>3, <2>1, <2>4, <2>5, <2>6, AppendIsConcat
<1> HIDE DEF Good
<1>4. Bad = {}
  <2> SUFFICES ASSUME Bad # {} PROVE FALSE
    OBVIOUS
  <2>1. PICK k \in Bad : \A j \in Bad : k <= j
    BY Least, Zenon
  <2>2. k # 0
    BY <1>2
  <2>3. k \in 1..n /\ k - 1 \in Nat /\ k - 1 <= n /\ ~(k <= k - 1)
    BY <1>1, <2>1, <2>2
  <2>4. Good(k - 1)
    BY <2>1, <2>3
  <2>5. QED
    BY <1>3, <2>1, <2>3, <2>4
<1>5. Good(n)
  BY <1>1, <1>4
<1>6. QED
  BY <1>5, SubSeqFull DEF Good

\* Where a ".." is left the mount is refused, so the normal form of a path that is not is its own.
LEMMA NormTwice ==
  ASSUME NEW S, NEW path \in [slashes : 0..3, segs : Seq(S)], ".." \notin Range(NormPath(path).segs)
  PROVE  /\ NormPath(NormPath(path)) = NormPath(path)
         /\ ~(NormPath(path).slashes = 0 /\ NormPath(path).segs \in {<< >>, <<"">>})
<1> DEFINE q == NormPath(path)
           Fewer(n) == IF n = 3 THEN 1 ELSE n
<1>1. PICK f : /\ Progress(f, path)
               /\ q = [slashes |-> Fewer(path.slashes),
                       segs |-> IF f[Len(path.segs)] = << >> /\ path.slashes = 0
                                THEN <<".">> ELSE f[Len(path.segs)]]
  BY NormProgress
<1> DEFINE done == f[Len(path.segs)]
<1>2. done \in Seq(S) /\ Neat(done)
  BY <1>1, ProgressNeat
<1>3. /\ q.slashes = Fewer(path.slashes)
      /\ q.segs = IF done = << >> /\ path.slashes = 0 THEN <<".">> ELSE done
      /\ q = [slashes |-> q.slashes, segs |-> q.segs]
  BY <1>1
<1>4. /\ Fewer(Fewer(path.slashes)) = Fewer(path.slashes)
      /\ Fewer(path.slashes) = 0 <=> path.slashes = 0
  OBVIOUS
<1> HIDE DEF q, done
<1>5. CASE done = << >> /\ path.slashes = 0
  <2>1. q.segs = <<".">> /\ q.segs \in Seq({"."}) /\ Len(q.segs) = 1 /\ q.segs[1] = "."
    BY <1>3, <1>5
  <2>2. PICK g : /\ Progress(g, q)
                 /\ NormPath(q) = [slashes |-> Fewer(q.slashes),
                                   segs |-> IF g[Len(q.segs)] = << >> /\ q.slashes = 0
                                            THEN <<".">> ELSE g[Len(q.segs)]]
    BY <2>1, NormProgress, Zenon
  <2>3. g[1] = NormStep(q, << >>, ".")
    BY <2>1, <2>2 DEF Progress
  <2>4. g[1] = << >>
    BY <2>3, Zenon DEF NormStep
  <2>5. NormPath(q) = q
    BY <1>3, <1>4, <1>5, <2>1, <2>2, <2>4
  <2>6. q.segs \notin {<< >>, <<"">>}
    BY <2>1
  <2>7. QED
    BY <2>5, <2>6, Zenon DEF q
<1>6. CASE ~(done = << >> /\ path.slashes = 0)
  <2>1. q.segs = done /\ q.segs \in Seq(S)
    BY <1>2, <1>3, <1>6
  <2>2. Kept(q.segs)
    <3>1. \A i \in 1..Len(q.segs) : q.segs[i] # ".."
      BY <2>1, LenProperties DEF Range, q
    <3>2. QED
      BY <1>2, <2>1, <3>1 DEF Kept, Neat
  <2>3. PICK g : /\ Progress(g, q)
                 /\ NormPath(q) = [slashes |-> Fewer(q.slashes),
                                   segs |-> IF g[Len(q.segs)] = << >> /\ q.slashes = 0
                                            THEN <<".">> ELSE g[Len(q.segs)]]
    BY <2>1, NormProgress
  <2>4. g[Len(q.segs)] = q.segs
    BY <2>1, <2>2, <2>3, ProgressSame, Zenon
  <2>5. ~(q.segs = << >> /\ q.slashes = 0)
    BY <1>3, <1>4, <1>6, <2>1
  <2>6. NormPath(q) = q
    BY <1>3, <1>4, <2>3, <2>4, <2>5
  <2>7. q.segs # <<"">>
    <3>1. Len(<<"">>) = 1 /\ <<"">>[1] = ""
      OBVIOUS
    <3>2. Len(q.segs) = 1 => ~Skipped(q.segs[1])
      BY <2>2 DEF Kept
    <3>3. QED
      BY <3>1, <3>2, Zenon DEF Skipped
  <2>8. QED
    BY <2>5, <2>6, <2>7, Zenon DEF q
<1>7. QED
  BY <1>5, <1>6, Zenon

\* A lowered word stays.
LEMMA LowerTwice == ASSUME NEW w PROVE Lower(Lower(w)) = Lower(w)
BY DEF Lower

\* A mount that is accepted is its own canonical form.
LEMMA MountTwice ==
  ASSUME NEW S, NEW source \in [slashes : 0..3, segs : Seq(S)],
         NEW target \in [slashes : 0..3, segs : Seq(S)], NEW mode, NEW m,
         m = [source |-> source, target |-> target, mode |-> mode],
         CanonicalizeMount(m) # Invalid
  PROVE  CanonicalizeMount(CanonicalizeMount(m)) = CanonicalizeMount(m)
<1> DEFINE s == NormPath(source)
           t == NormPath(target)
           c == CanonicalizeMount(m)
<1>1. m.source = source /\ m.target = target /\ m.mode = mode
  OBVIOUS
<1>2. /\ Lower(mode) \in {"bind", "volume"} /\ t.slashes # 0
      /\ ".." \notin Range(s.segs) \union Range(t.segs)
      /\ c = [source |-> s, target |-> t, mode |-> Lower(mode)]
  BY <1>1, Zenon DEF CanonicalizeMount
<1>3. /\ NormPath(s) = s /\ ~(s.slashes = 0 /\ s.segs \in {<< >>, <<"">>})
      /\ NormPath(t) = t /\ ~(t.slashes = 0 /\ t.segs \in {<< >>, <<"">>})
  BY <1>2, NormTwice, Zenon
<1> HIDE DEF s, t, c
<1>4. c.source = s /\ c.target = t /\ c.mode = Lower(mode)
  BY <1>2
<1>5. CanonicalizeMount(c) = [source |-> s, target |-> t, mode |-> Lower(mode)]
  BY <1>2, <1>3, <1>4, LowerTwice, Zenon DEF CanonicalizeMount
<1>6. QED
  BY <1>2, <1>5 DEF c

\* Lowered labels stay.
LEMMA LoweredTwice ==
  ASSUME NEW S, NEW labels \in Seq(S)
  PROVE  Lowered(Lowered(labels)) = Lowered(labels)
BY LowerTwice DEF Lowered

\* rstrip(".") cuts a sequence.
LEMMA StripIsWord == ASSUME NEW S, NEW raw \in Seq(S) PROVE StripDots(raw) \in Seq(S)
<1> DEFINE kept == {i \in DOMAIN raw : raw[i] # ""}
           top == Max({0} \union kept)
<1>1. kept \subseteq 1..Len(raw) /\ Len(raw) \in Nat
  BY LenProperties, Zenon
<1>2. StripDots(raw) = SubSeq(raw, 1, top)
  BY Zenon DEF StripDots
<1> HIDE DEF kept
<1>3. {0} \union kept \in SUBSET (0..Len(raw)) /\ {0} \union kept # {}
  BY <1>1
<1>4. top \in 0..Len(raw)
  BY <1>1, <1>3, MaxIn, Zenon
<1> HIDE DEF top
<1>5. top \in Int /\ \A i \in 1..top : i \in 1..Len(raw)
  BY <1>1, <1>4
<1>6. \A i \in 1..top : raw[i] \in S
  BY <1>5, ElementOfSeq
<1>7. QED
  BY <1>2, <1>5, <1>6, SubSeqProperties

\* A domain that is accepted is its own canonical form.
LEMMA DomainTwice ==
  ASSUME NEW S, NEW raw \in Seq(S), CanonicalizeDomain(raw) # NoDomain
  PROVE  CanonicalizeDomain(CanonicalizeDomain(raw)) = CanonicalizeDomain(raw)
<1> DEFINE value == StripDots(raw)
           c == Lowered(value)
<1>1. value # << >> /\ Range(value) \intersect {"", "*", ":"} = {} /\ CanonicalizeDomain(raw) = c
  BY Zenon DEF CanonicalizeDomain
<1>2. value \in Seq(S)
  BY StripIsWord
<1> HIDE DEF value
<1>3. /\ DOMAIN c = DOMAIN value /\ DOMAIN value = 1..Len(value) /\ Len(value) \in Nat
      /\ \A i \in DOMAIN value : c[i] = Lower(value[i])
  BY <1>2, LenProperties DEF Lowered
<1> DEFINE T == {Lower(x) : x \in S}
<1>4. c \in Seq(T) /\ Len(c) = Len(value)
  BY <1>2, <1>3, LenProperties DEF Lowered
<1>5. c # << >>
  <2>1. Len(value) \in Nat \ {0}
    BY <1>1, <1>2, EmptySeq, Zenon
  <2>2. QED
    BY <1>4, <2>1, EmptySeq
<1>6. Range(c) \intersect {"", "*", ":"} = {}
  <2>1. \A w : w \notin {"", "*", ":"} => Lower(w) \notin {"", "*", ":"}
    BY Zenon DEF Lower
  <2>2. \A i \in DOMAIN value : value[i] \notin {"", "*", ":"}
    BY <1>1, Zenon DEF Range
  <2>3. \A i \in DOMAIN c : c[i] \notin {"", "*", ":"}
    <3> HIDE DEF c
    <3>1. QED
      BY <1>3, <2>1, <2>2, Zenon
  <2>4. QED
    BY <2>3, Zenon DEF Range
<1>7. StripDots(c) = c
  BY <1>4, <1>5, <1>6, PlainStands, Zenon
<1>8. Lowered(c) = c
  BY <1>2, LoweredTwice
<1> HIDE DEF c
<1>9. CanonicalizeDomain(c) = c
  BY <1>5, <1>6, <1>7, <1>8, Zenon DEF CanonicalizeDomain
<1>10. QED
  BY <1>1, <1>9, Zenon

\* The record Canonical makes, field by field.
LEMMA TwoFields ==
  ASSUME NEW a, NEW b, NEW c, NEW d, NEW a2, NEW b2
  PROVE  [[domains |-> a, mounts |-> b, secrets |-> c, capabilities |-> d]
             EXCEPT !.domains = a2, !.mounts = b2]
           = [domains |-> a2, mounts |-> b2, secrets |-> c, capabilities |-> d]
<1> DEFINE r == [domains |-> a, mounts |-> b, secrets |-> c, capabilities |-> d]
           u == [r EXCEPT !.domains = a2, !.mounts = b2]
<1>1. DOMAIN u = {"domains", "mounts", "secrets", "capabilities"}
  OBVIOUS
<1>2. u["domains"] = a2 
  OBVIOUS
<1>3. u["mounts"] = b2 
  OBVIOUS
<1>4. u["secrets"] = c 
  OBVIOUS
<1>5. u["capabilities"] = d
  OBVIOUS
<1>6. u = [f \in DOMAIN u |-> u[f]]
  BY Zenon
<1> HIDE DEF u
<1>7. u = [domains |-> a2, mounts |-> b2, secrets |-> c, capabilities |-> d]
  BY <1>1, <1>2, <1>3, <1>4, <1>5, <1>6
<1>8. QED
  BY <1>7, Zenon DEF u

\* Canonical works on the domains and the mounts and leaves the rest.
LEMMA CanonicalFields ==
  ASSUME NEW ds, NEW ms, NEW ss, NEW cs, NEW ds2, NEW ms2,
         ds2 = {CanonicalizeDomain(d) : d \in ds}, ms2 = {CanonicalizeMount(m) : m \in ms}
  PROVE  Canonical([domains |-> ds, mounts |-> ms, secrets |-> ss, capabilities |-> cs])
           = [domains |-> ds2, mounts |-> ms2, secrets |-> ss, capabilities |-> cs]
<1> DEFINE policy == [domains |-> ds, mounts |-> ms, secrets |-> ss, capabilities |-> cs]
<1>1. Canonical(policy) = [policy EXCEPT !.domains = ds2, !.mounts = ms2]
  BY DEF Canonical
<1>2. QED
  BY <1>1, TwoFields, Zenon

\* A policy whose domains and paths are spelled with items of S, in any way.
Spelled(policy, S) ==
  /\ policy = [domains |-> policy.domains, mounts |-> policy.mounts,
               secrets |-> policy.secrets, capabilities |-> policy.capabilities]
  /\ policy.domains \subseteq Seq(S)
  /\ \A m \in policy.mounts :
       \E source, target \in [slashes : 0..3, segs : Seq(S)] : \E mode :
         m = [source |-> source, target |-> target, mode |-> mode]

\* The canonical form of a policy that is not refused is its own.
LEMMA StaysCanonical ==
  ASSUME NEW S, NEW policy, Spelled(policy, S), WellFormed(Canonical(policy))
  PROVE  Canonical(Canonical(policy)) = Canonical(policy)
<1> DEFINE ds == {CanonicalizeDomain(d) : d \in policy.domains}
           ms == {CanonicalizeMount(m) : m \in policy.mounts}
           c == [domains |-> ds, mounts |-> ms,
                 secrets |-> policy.secrets, capabilities |-> policy.capabilities]
<1>1. Canonical(policy) = c
  <2> DEFINE q == [domains |-> policy.domains, mounts |-> policy.mounts,
                   secrets |-> policy.secrets, capabilities |-> policy.capabilities]
  <2>1. policy = q
    BY Zenon DEF Spelled
  <2>2. Canonical(q) = c
    BY CanonicalFields
  <2> HIDE DEF q, c
  <2>3. QED
    BY <2>1, <2>2, Zenon
<1>2. c.domains = ds /\ c.mounts = ms
  OBVIOUS
<1> HIDE DEF c
<1>3. NoDomain \notin ds /\ Invalid \notin ms
  BY <1>1, <1>2, Zenon DEF WellFormed
<1>4. ASSUME NEW d \in policy.domains
      PROVE  CanonicalizeDomain(CanonicalizeDomain(d)) = CanonicalizeDomain(d)
  <2>1. d \in Seq(S)
    BY DEF Spelled
  <2>2. CanonicalizeDomain(d) # NoDomain
    BY <1>3, Zenon
  <2>3. QED
    BY <2>1, <2>2, DomainTwice, Zenon
<1>5. ASSUME NEW m \in policy.mounts
      PROVE  CanonicalizeMount(CanonicalizeMount(m)) = CanonicalizeMount(m)
  <2>1. PICK source \in [slashes : 0..3, segs : Seq(S)],
             target \in [slashes : 0..3, segs : Seq(S)] :
               \E mode : m = [source |-> source, target |-> target, mode |-> mode]
    BY Zenon DEF Spelled
  <2>2. PICK mode : m = [source |-> source, target |-> target, mode |-> mode]
    BY <2>1, Zenon
  <2>3. CanonicalizeMount(m) # Invalid
    BY <1>3, Zenon
  <2>4. QED
    BY <2>2, <2>3, MountTwice
<1>6. {CanonicalizeDomain(d) : d \in ds} = ds
  BY <1>4, Zenon
<1>7. {CanonicalizeMount(m) : m \in ms} = ms
  BY <1>5, Zenon
<1>8. Canonical(c) = c
  <2> HIDE DEF ds, ms
  <2>1. QED
    BY <1>6, <1>7, CanonicalFields DEF c
<1>9. QED
  BY <1>1, <1>8, Zenon

\* spawn_child and validate_spawn agree on any two policies: canonicalising what is
\* canonicalised again changes no verdict.
THEOREM SpawnAgrees ==
  ASSUME NEW S, NEW parent, NEW child, Spelled(parent, S), Spelled(child, S)
  PROVE  (SpawnVerdict(parent, child) = "allow") = (ValidateSpawn(parent, child) = "allow")
<1> DEFINE p == Canonical(parent)
           c == Canonical(child)
<1>1. CASE WellFormed(p) /\ WellFormed(c)
  <2>1. Canonical(p) = p /\ Canonical(c) = c
    BY <1>1, StaysCanonical, Zenon
  <2>2. SpawnVerdict(parent, child) = ValidateSpawn(p, c)
    BY <1>1, Zenon DEF SpawnVerdict
  <2>3. ValidateSpawn(p, c) = ValidateSpawn(parent, child)
    BY <2>1, Zenon DEF ValidateSpawn
  <2>4. QED
    BY <2>2, <2>3, Zenon
<1>2. CASE ~(WellFormed(p) /\ WellFormed(c))
  <2>1. SpawnVerdict(parent, child) \in {"policy_load_failed", "invalid_params"}
    BY <1>2, Zenon DEF SpawnVerdict
  <2>2. ValidateSpawn(parent, child) = "invalid_input_format"
    BY <1>2, Zenon DEF ValidateSpawn
  <2>3. QED
    BY <2>1, <2>2
<1>3. QED
  BY <1>1, <1>2

\* A policy with one domain.
LEMMA SpelledDomain ==
  ASSUME NEW S, NEW d \in Seq(S)
  PROVE  Spelled(Domain(d), S)
<1>1. /\ Domain(d).domains = {d} /\ Domain(d).mounts = {}
      /\ Domain(d) = [domains |-> Domain(d).domains, mounts |-> Domain(d).mounts,
                      secrets |-> Domain(d).secrets, capabilities |-> Domain(d).capabilities]
  BY DEF Domain
<1>2. QED
  BY <1>1, Zenon DEF Spelled

\* A policy with one mount.
LEMMA SpelledMount ==
  ASSUME NEW S, NEW source \in [slashes : 0..3, segs : Seq(S)],
         NEW target \in [slashes : 0..3, segs : Seq(S)], NEW mode, NEW m,
         m = [source |-> source, target |-> target, mode |-> mode]
  PROVE  Spelled(Mount(m), S)
<1>1. /\ Mount(m).domains = {} /\ Mount(m).mounts = {m}
      /\ Mount(m) = [domains |-> Mount(m).domains, mounts |-> Mount(m).mounts,
                     secrets |-> Mount(m).secrets, capabilities |-> Mount(m).capabilities]
  BY DEF Mount
<1>2. QED
  BY <1>1, Zenon DEF Spelled

\* Canonicalising twice is canonicalising once, for domains and paths of any length.
THEOREM CanonicalOnce == Inputs => SpawnCanonicalOnce
<1> SUFFICES ASSUME Inputs PROVE SpawnCanonicalOnce
  OBVIOUS
<1>1. InputInv
  BY InputsHold
<1>2. ASSUME Checks("domains")
      PROVE  (SpawnVerdict(Domain(input.parent), Domain(input.child)) = "allow")
               = (ValidateSpawn(Domain(input.parent), Domain(input.child)) = "allow")
  <2>1. input.parent \in Seq(Labels) /\ input.child \in Seq(Labels)
    BY <1>1, <1>2 DEF InputInv
  <2>2. Spelled(Domain(input.parent), Labels) /\ Spelled(Domain(input.child), Labels)
    BY <2>1, SpelledDomain
  <2>3. QED
    BY <2>2, SpawnAgrees
<1>3. ASSUME Checks("mount")
      PROVE  (SpawnVerdict(Mount(input.mount), Mount(input.mount)) = "allow")
               = (ValidateSpawn(Mount(input.mount), Mount(input.mount)) = "allow")
  <2>1. PICK source \in [slashes : 0..3, segs : Seq(Segments)],
             target \in [slashes : 0..3, segs : Seq(Segments)], mode \in Modes :
               input.mount = [source |-> source, target |-> target, mode |-> mode]
    BY <1>1, <1>3 DEF InputInv
  <2>2. Spelled(Mount(input.mount), Segments)
    BY <2>1, SpelledMount, Zenon
  <2>3. QED
    BY <2>2, SpawnAgrees
<1>4. QED
  BY <1>2, <1>3 DEF SpawnCanonicalOnce
-----------------------------------------------------------------------------
(* Storage scopes *)

\* Where a string is cut into segments: before it, at its slashes and after it; two cuts
\* with a segment between them; and the position of the segment after a cut.
IsSlash(x) == x = "/"
Cuts(s) == {0, Len(s) + 1} \union {i \in 1..Len(s) : IsSlash(s[i])}
Adjacent(s, a, b) == a < b /\ \A c \in Cuts(s) : c <= a \/ c >= b
Rank(s, a) == Cardinality({c \in Cuts(s) : c <= a})

\* g and r are alike up to the cut k.
Alike(g, r, k) ==
  /\ k <= Len(r) + 1
  /\ {c \in Cuts(r) : c <= k} = {c \in Cuts(g) : c <= k}
  /\ \A i \in 1..k - 1 : g[i] = r[i]

\* The cuts lie between the ends, and both ends are cuts.
LEMMA CutsOf ==
  ASSUME NEW S, NEW s \in Seq(S)
  PROVE  /\ Len(s) \in Nat /\ Cuts(s) \in SUBSET (0..Len(s) + 1)
         /\ 0 \in Cuts(s) /\ Len(s) + 1 \in Cuts(s)
         /\ \A i \in 1..Len(s) : i \in Cuts(s) <=> IsSlash(s[i])
BY LenProperties DEF Cuts

\* A segment lies between adjacent cuts.
LEMMA SplitOf ==
  ASSUME NEW S, NEW s \in Seq(S), NEW e
  PROVE  e \in Split(s) <=>
           \E a, b \in Cuts(s) : Adjacent(s, a, b) /\ e = <<Rank(s, a), SubSeq(s, a + 1, b - 1)>>
<1>1. DOMAIN s = 1..Len(s)
  BY LenProperties
<1>2. Cuts(s) = {0, Len(s) + 1} \union {i \in DOMAIN s : s[i] = "/"}
  BY <1>1 DEF Cuts, IsSlash
<1>3. Split(s) = {<<Rank(s, x[1]), SubSeq(s, x[1] + 1, x[2] - 1)>> :
                    x \in {x \in Cuts(s) \X Cuts(s) : Adjacent(s, x[1], x[2])}}
  BY <1>2, Zenon DEF Split, Rank, Adjacent
<1> DEFINE pairs == {x \in Cuts(s) \X Cuts(s) : Adjacent(s, x[1], x[2])}
<1>4. ASSUME e \in Split(s)
      PROVE  \E a, b \in Cuts(s) : Adjacent(s, a, b) /\ e = <<Rank(s, a), SubSeq(s, a + 1, b - 1)>>
  <2>1. PICK x \in pairs : e = <<Rank(s, x[1]), SubSeq(s, x[1] + 1, x[2] - 1)>>
    BY <1>3, <1>4, Zenon
  <2>2. x[1] \in Cuts(s) /\ x[2] \in Cuts(s) /\ Adjacent(s, x[1], x[2])
    OBVIOUS
  <2>3. QED
    BY <2>1, <2>2, Zenon
<1>5. ASSUME NEW a \in Cuts(s), NEW b \in Cuts(s), Adjacent(s, a, b)
      PROVE  <<Rank(s, a), SubSeq(s, a + 1, b - 1)>> \in Split(s)
  <2>1. <<a, b>> \in pairs /\ <<a, b>>[1] = a /\ <<a, b>>[2] = b
    BY <1>5
  <2> HIDE DEF pairs
  <2>2. PICK x \in pairs : x[1] = a /\ x[2] = b
    BY <2>1
  <2>3. <<Rank(s, x[1]), SubSeq(s, x[1] + 1, x[2] - 1)>> \in Split(s)
    BY <1>3, Zenon DEF pairs
  <2>4. QED
    BY <2>2, <2>3, Zenon
<1>6. QED
  BY <1>4, <1>5

\* No two segments have the same position.
LEMMA RankGrows ==
  ASSUME NEW S, NEW s \in Seq(S), NEW a \in Cuts(s), NEW b \in Cuts(s), a < b
  PROVE  Rank(s, a) # Rank(s, b)
<1> DEFINE A == {c \in Cuts(s) : c <= a}
           B == {c \in Cuts(s) : c <= b}
<1>1. Cuts(s) \in SUBSET (0..Len(s) + 1) /\ Len(s) \in Nat
  BY CutsOf
<1>2. IsFiniteSet(0..Len(s) + 1)
  BY <1>1, FS_Interval
<1>3. B \subseteq 0..Len(s) + 1 /\ A \subseteq B /\ b \in B /\ b \notin A
  BY <1>1
<1> HIDE DEF A, B
<1>4. IsFiniteSet(B)
  BY <1>2, <1>3, FS_Subset, Zenon
<1>5. Cardinality(A) # Cardinality(B)
  BY <1>3, <1>4, FS_Subset, Zenon
<1>6. QED
  BY <1>5 DEF Rank, A, B

\* g and r are alike up to the end of g: r is g, or goes on with a slash.
LEMMA AlikeIsPrefix ==
  ASSUME NEW S, NEW g \in Seq(S), NEW r \in Seq(S), "/" \in S
  PROVE  Alike(g, r, Len(g) + 1) <=> r = g \/ IsPrefix(Append(g, "/"), r)
<1> DEFINE n == Len(g)
<1>1. /\ n \in Nat /\ Len(r) \in Nat
      /\ Cuts(g) \in SUBSET (0..n + 1) /\ Cuts(r) \in SUBSET (0..Len(r) + 1)
      /\ 0 \in Cuts(g) /\ 0 \in Cuts(r) /\ n + 1 \in Cuts(g) /\ Len(r) + 1 \in Cuts(r)
      /\ \A i \in 1..n : i \in Cuts(g) <=> IsSlash(g[i])
      /\ \A i \in 1..Len(r) : i \in Cuts(r) <=> IsSlash(r[i])
  BY CutsOf
<1> DEFINE h == Append(g, "/")
<1>2. h \in Seq(S) /\ Len(h) = n + 1 /\ (\A i \in 1..n : h[i] = g[i]) /\ h[n + 1] = "/"
  BY AppendProperties
<1> HIDE DEF h
<1>3. IsPrefix(h, r) <=> n + 1 <= Len(r) /\ (\A i \in 1..n : g[i] = r[i]) /\ IsSlash(r[n + 1])
  <2>1. IsPrefix(h, r) <=> n + 1 <= Len(r) /\ \A i \in 1..n + 1 : h[i] = r[i]
    BY <1>1, <1>2 DEF IsPrefix
  <2>2. \A i \in 1..n + 1 : i \in 1..n \/ i = n + 1
    BY <1>1
  <2>3. (\A i \in 1..n + 1 : h[i] = r[i]) <=> (\A i \in 1..n : h[i] = r[i]) /\ h[n + 1] = r[n + 1]
    BY <1>1, <2>2
  <2>4. QED
    BY <1>2, <2>1, <2>3 DEF IsSlash
<1>4. ASSUME Alike(g, r, n + 1) PROVE r = g \/ IsPrefix(h, r)
  <2>1. n + 1 \in Cuts(r) /\ n + 1 <= Len(r) + 1 /\ \A i \in 1..n : g[i] = r[i]
    BY <1>1, <1>4 DEF Alike
  <2>2. CASE n = Len(r)
    BY <2>1, <2>2, SeqEqual
  <2>3. CASE n # Len(r)
    <3>1. n + 1 \in 1..Len(r)
      BY <1>1, <2>1, <2>3
    <3>2. QED
      BY <1>1, <1>3, <2>1, <3>1
  <2>4. QED
    BY <2>2, <2>3
<1>5. ASSUME r = g PROVE Alike(g, r, n + 1)
  BY <1>1, <1>5 DEF Alike
<1>6. ASSUME IsPrefix(h, r) PROVE Alike(g, r, n + 1)
  <2>1. n + 1 <= Len(r) /\ (\A i \in 1..n : g[i] = r[i]) /\ IsSlash(r[n + 1])
    BY <1>3, <1>6
  <2>2. ASSUME NEW c, c \in 0..n + 1 PROVE c \in Cuts(r) <=> c \in Cuts(g)
    <3>1. CASE c = 0
      BY <1>1, <3>1
    <3>2. CASE c = n + 1
      BY <1>1, <2>1, <3>2
    <3>3. CASE c \in 1..n
      BY <1>1, <2>1, <3>3
    <3>4. QED
      BY <1>1, <2>2, <3>1, <3>2, <3>3
  <2>3. {c \in Cuts(r) : c <= n + 1} = {c \in Cuts(g) : c <= n + 1}
    <3>1. \A c \in Cuts(r) : c <= n + 1 => c \in 0..n + 1
      BY <1>1
    <3>2. \A c \in Cuts(g) : c \in 0..n + 1
      BY <1>1
    <3>3. QED
      BY <2>2, <3>1, <3>2
  <2>4. QED
    BY <1>1, <2>1, <2>3 DEF Alike
<1>7. QED
  BY <1>4, <1>5, <1>6 DEF h

\* What is between two cuts.
LEMMA Between ==
  ASSUME NEW S, NEW s \in Seq(S), NEW a \in Nat, NEW b \in Nat, a < b, b <= Len(s) + 1
  PROVE  /\ SubSeq(s, a + 1, b - 1) \in Seq(S)
         /\ Len(SubSeq(s, a + 1, b - 1)) = b - a - 1
         /\ \A i \in 1..b - a - 1 : SubSeq(s, a + 1, b - 1)[i] = s[a + i]
<1>1. a + 1 \in Int /\ b - 1 \in Int /\ \A i \in a + 1..b - 1 : i \in 1..Len(s)
  BY LenProperties
<1>2. \A i \in a + 1..b - 1 : s[i] \in S
  BY <1>1, ElementOfSeq
<1>3. /\ SubSeq(s, a + 1, b - 1) \in Seq(S)
      /\ Len(SubSeq(s, a + 1, b - 1)) = IF a + 1 <= b - 1 THEN (b - 1) - (a + 1) + 1 ELSE 0
      /\ \A i \in 1..(b - 1) - (a + 1) + 1 : SubSeq(s, a + 1, b - 1)[i] = s[a + 1 + i - 1]
  BY <1>1, <1>2, SubSeqProperties
<1>4. (b - 1) - (a + 1) + 1 = b - a - 1 /\ (~(a + 1 <= b - 1) => b - a - 1 = 0)
      /\ \A i \in 1..b - a - 1 : a + 1 + i - 1 = a + i
  OBVIOUS
<1>5. QED
  BY <1>3, <1>4

\* What is alike has the same segments in the same places.
LEMMA AlikeSplits ==
  ASSUME NEW S, NEW g \in Seq(S), NEW r \in Seq(S), Alike(g, r, Len(g) + 1)
  PROVE  Split(g) \subseteq Split(r)
<1> DEFINE n == Len(g)
<1>1. /\ n \in Nat /\ Len(r) \in Nat
      /\ Cuts(g) \in SUBSET (0..n + 1) /\ Cuts(r) \in SUBSET (0..Len(r) + 1)
  BY CutsOf
<1>2. /\ \A c \in 0..n + 1 : c \in Cuts(r) <=> c \in Cuts(g)
      /\ \A i \in 1..n : g[i] = r[i]
      /\ n + 1 <= Len(r) + 1
  BY <1>1 DEF Alike
<1> SUFFICES ASSUME NEW e \in Split(g) PROVE e \in Split(r)
  OBVIOUS
<1>3. PICK a \in Cuts(g), b \in Cuts(g) : Adjacent(g, a, b) /\ e = <<Rank(g, a), SubSeq(g, a + 1, b - 1)>>
  BY SplitOf
<1>4. a \in 0..n + 1 /\ b \in 0..n + 1 /\ a < b /\ \A c \in Cuts(g) : c <= a \/ c >= b
  BY <1>1, <1>3 DEF Adjacent
<1>5. a \in Cuts(r) /\ b \in Cuts(r)
  BY <1>2, <1>4
<1>6. Adjacent(r, a, b)
  <2>1. ASSUME NEW c \in Cuts(r) PROVE c <= a \/ c >= b
    <3>1. c \in 0..Len(r) + 1
      BY <1>1
    <3>2. CASE c <= n + 1
      <4>1. c \in 0..n + 1
        BY <1>1, <3>1, <3>2
      <4>2. QED
        BY <1>2, <1>4, <4>1
    <3>3. CASE ~(c <= n + 1)
      BY <1>1, <1>4, <3>1, <3>3
    <3>4. QED
      BY <3>2, <3>3
  <2>2. QED
    BY <1>4, <2>1 DEF Adjacent
<1>7. Rank(r, a) = Rank(g, a)
  <2>1. ASSUME NEW c PROVE c \in Cuts(r) /\ c <= a <=> c \in Cuts(g) /\ c <= a
    <3>1. c \in Cuts(r) /\ c <= a => c \in 0..n + 1
      BY <1>1, <1>4
    <3>2. c \in Cuts(g) => c \in 0..n + 1
      BY <1>1
    <3>3. QED
      BY <1>2, <3>1, <3>2
  <2>2. {c \in Cuts(r) : c <= a} = {c \in Cuts(g) : c <= a}
    BY <2>1
  <2>3. QED
    BY <2>2, Zenon DEF Rank
<1>8. SubSeq(r, a + 1, b - 1) = SubSeq(g, a + 1, b - 1)
  <2>1. a \in Nat /\ b \in Nat /\ b <= n + 1 /\ b <= Len(r) + 1
    BY <1>1, <1>2, <1>4
  <2>2. /\ SubSeq(g, a + 1, b - 1) \in Seq(S) /\ SubSeq(r, a + 1, b - 1) \in Seq(S)
        /\ Len(SubSeq(g, a + 1, b - 1)) = b - a - 1 /\ Len(SubSeq(r, a + 1, b - 1)) = b - a - 1
        /\ \A i \in 1..b - a - 1 : /\ SubSeq(g, a + 1, b - 1)[i] = g[a + i]
                                   /\ SubSeq(r, a + 1, b - 1)[i] = r[a + i]
    BY <1>4, <2>1, Between
  <2>3. \A i \in 1..b - a - 1 : a + i \in 1..n
    BY <1>1, <2>1
  <2>4. QED
    BY <1>2, <2>2, <2>3, SeqEqual
<1>9. QED
  BY <1>3, <1>5, <1>6, <1>7, <1>8, SplitOf, Zenon

\* One segment further.
LEMMA AlikeFurther ==
  ASSUME NEW S, NEW g \in Seq(S), NEW r \in Seq(S), Split(g) \subseteq Split(r),
         NEW a \in Cuts(g), NEW b \in Cuts(g), Adjacent(g, a, b), Alike(g, r, a)
  PROVE  Alike(g, r, b)
<1>1. /\ Len(g) \in Nat /\ Len(r) \in Nat
      /\ Cuts(g) \in SUBSET (0..Len(g) + 1) /\ Cuts(r) \in SUBSET (0..Len(r) + 1)
  BY CutsOf
<1>2. a \in Nat /\ b \in Nat /\ a < b /\ b <= Len(g) + 1 /\ \A c \in Cuts(g) : c <= a \/ c >= b
  BY <1>1 DEF Adjacent
<1>3. <<Rank(g, a), SubSeq(g, a + 1, b - 1)>> \in Split(r)
  BY SplitOf
<1> DEFINE e == <<Rank(g, a), SubSeq(g, a + 1, b - 1)>>
<1>3a. e \in Split(r)
  BY <1>3
<1> HIDE DEF e
<1>4. PICK p \in Cuts(r), q \in Cuts(r) : Adjacent(r, p, q) /\ e = <<Rank(r, p), SubSeq(r, p + 1, q - 1)>>
  BY <1>3a, SplitOf
<1>5. Rank(r, p) = Rank(g, a) /\ SubSeq(r, p + 1, q - 1) = SubSeq(g, a + 1, b - 1)
  BY <1>4, Zenon DEF e
<1>6. p \in Nat /\ q \in Nat /\ p < q /\ q <= Len(r) + 1 /\ \A c \in Cuts(r) : c <= p \/ c >= q
  BY <1>1, <1>4 DEF Adjacent
<1>7. Rank(r, a) = Rank(g, a) /\ a \in Cuts(r)
  <2>1. {c \in Cuts(r) : c <= a} = {c \in Cuts(g) : c <= a}
    BY DEF Alike
  <2>2. a \in {c \in Cuts(g) : c <= a}
    BY <1>2
  <2>3. QED
    BY <2>1, <2>2, Zenon DEF Rank
<1>8. p = a
  <2>1. ~(p < a) /\ ~(a < p)
    BY <1>5, <1>7, RankGrows
  <2>2. QED
    BY <1>2, <1>6, <2>1
<1>9. /\ Len(SubSeq(g, a + 1, b - 1)) = b - a - 1 /\ Len(SubSeq(r, a + 1, q - 1)) = q - a - 1
      /\ \A i \in 1..b - a - 1 : SubSeq(g, a + 1, b - 1)[i] = g[a + i]
      /\ \A i \in 1..q - a - 1 : SubSeq(r, a + 1, q - 1)[i] = r[a + i]
  <2>1. /\ Len(SubSeq(g, a + 1, b - 1)) = b - a - 1
        /\ \A i \in 1..b - a - 1 : SubSeq(g, a + 1, b - 1)[i] = g[a + i]
    BY <1>2, Between
  <2>2. a < q
    BY <1>6, <1>8
  <2>3. /\ Len(SubSeq(r, a + 1, q - 1)) = q - a - 1
        /\ \A i \in 1..q - a - 1 : SubSeq(r, a + 1, q - 1)[i] = r[a + i]
    BY <1>2, <1>6, <2>2, Between
  <2>4. QED
    BY <2>1, <2>3
<1>10. q = b
  <2>1. b - a - 1 = q - a - 1
    BY <1>5, <1>8, <1>9, Zenon
  <2>2. QED
    BY <1>2, <1>6, <2>1
<1>11. \A i \in 1..b - 1 : g[i] = r[i]
  <2> SUFFICES ASSUME NEW i \in 1..b - 1 PROVE g[i] = r[i]
    OBVIOUS
  <2>1. CASE i < a
    <3>1. i \in 1..a - 1
      BY <1>2, <2>1
    <3>2. QED
      BY <3>1 DEF Alike
  <2>2. CASE i > a
    <3>1. i - a \in 1..b - a - 1 /\ a + (i - a) = i
      BY <1>2, <2>2
    <3>2. QED
      BY <1>5, <1>8, <1>9, <1>10, <3>1, Zenon
  <2>3. CASE i = a
    <3>1. a \in 1..Len(g) /\ a \in 1..Len(r)
      BY <1>1, <1>2, <1>6, <1>8, <2>3
    <3>2. IsSlash(g[a]) /\ IsSlash(r[a])
      BY <1>7, <3>1, CutsOf
    <3>3. QED
      BY <2>3, <3>2 DEF IsSlash
  <2>4. QED
    BY <1>2, <2>1, <2>2, <2>3
<1>12. {c \in Cuts(r) : c <= b} = {c \in Cuts(g) : c <= b}
  <2>1. ASSUME NEW c \in Nat PROVE c \in Cuts(r) /\ c <= b <=> c \in Cuts(g) /\ c <= b
    <3>1. c <= a => (c \in Cuts(r) <=> c \in Cuts(g))
      BY DEF Alike
    <3>2. c \in Cuts(r) /\ c <= b => c <= a \/ c = b
      BY <1>6, <1>8, <1>10
    <3>3. c \in Cuts(g) /\ c <= b => c <= a \/ c = b
      BY <1>2
    <3>4. b \in Cuts(r) /\ b \in Cuts(g)
      BY <1>4, <1>10
    <3>5. QED
      BY <1>2, <3>1, <3>2, <3>3, <3>4
  <2>2. \A c \in Cuts(r) \union Cuts(g) : c \in Nat
    BY <1>1
  <2>3. QED
    BY <2>1, <2>2
<1>13. QED
  BY <1>6, <1>10, <1>11, <1>12 DEF Alike

\* The segments say how far two prefixes are alike: to the end of the first.
LEMMA SplitsAlike ==
  ASSUME NEW S, NEW g \in Seq(S), NEW r \in Seq(S), Split(g) \subseteq Split(r)
  PROVE  Alike(g, r, Len(g) + 1)
<1>1. /\ Len(g) \in Nat /\ Len(r) \in Nat /\ Len(g) + 1 \in Cuts(g) /\ 0 \in Cuts(g) /\ 0 \in Cuts(r)
      /\ Cuts(g) \in SUBSET (0..Len(g) + 1) /\ Cuts(r) \in SUBSET (0..Len(r) + 1)
  BY CutsOf
<1>2. Alike(g, r, 0)
  <2>1. {c \in Cuts(r) : c <= 0} = {0} /\ {c \in Cuts(g) : c <= 0} = {0}
    BY <1>1
  <2>2. QED
    BY <1>1, <2>1 DEF Alike
<1> DEFINE Bad == {c \in Cuts(g) : ~Alike(g, r, c)}
<1> SUFFICES ASSUME Bad # {} PROVE FALSE
  BY <1>1
<1>3. Bad \in SUBSET Nat
  BY <1>1
<1>4. PICK b \in Bad : \A c \in Bad : b <= c
  BY <1>3, Least, Zenon
<1>5. b \in Nat /\ b # 0 /\ b \in Cuts(g)
  BY <1>2, <1>3, <1>4
<1> DEFINE before == {c \in Cuts(g) : c < b}
           a == Max(before)
<1>6. before \in SUBSET (0..Len(g) + 1) /\ 0 \in before /\ Len(g) + 1 \in Nat
  BY <1>1, <1>5
<1>7. a \in before /\ \A c \in before : c <= a
  BY <1>6, MaxIn, Zenon
<1>8. a \in Cuts(g) /\ a \in Nat /\ a < b
  BY <1>1, <1>7
<1>9. Adjacent(g, a, b)
  <2>1. \A c \in Cuts(g) : c \in Nat /\ (c < b => c <= a)
    BY <1>1, <1>7
  <2> HIDE DEF a
  <2>2. QED
    BY <1>5, <1>8, <2>1 DEF Adjacent
<1> HIDE DEF a
<1>10. Alike(g, r, a)
  <2>1. ~(b <= a)
    BY <1>5, <1>8
  <2>2. QED
    BY <1>4, <1>8, <2>1
<1>11. Alike(g, r, b)
  BY <1>5, <1>8, <1>9, <1>10, AlikeFurther
<1>12. QED
  BY <1>4, <1>11

\* _prefix_matches, by segments.
LEMMA PrefixSegments ==
  ASSUME NEW S, NEW g \in Seq(S), NEW r \in Seq(S), "/" \in S
  PROVE  PrefixMatches(r, g) <=> g = << >> \/ Split(g) \subseteq Split(r)
<1>1. Split(g) \subseteq Split(r) <=> r = g \/ IsPrefix(Append(g, "/"), r)
  BY AlikeIsPrefix, AlikeSplits, SplitsAlike
<1>2. QED
  BY <1>1 DEF PrefixMatches

\* A part of a sequence.
LEMMA PartIsWord ==
  ASSUME NEW S, NEW s \in Seq(S), NEW m \in Int, NEW n \in Int, m >= 1, n <= Len(s)
  PROVE  SubSeq(s, m, n) \in Seq(S)
<1>1. \A i \in m..n : i \in 1..Len(s)
  BY LenProperties
<1>2. \A i \in m..n : s[i] \in S
  BY <1>1, ElementOfSeq
<1>3. QED
  BY <1>2, SubSeqProperties

\* A set of numbers that is not empty has its minimum.
LEMMA MinIn ==
  ASSUME NEW s \in SUBSET Nat, s # {}
  PROVE  Min(s) \in s
<1>1. \E x \in s : \A y \in s : x =< y
  BY Least
<1>2. QED
  BY <1>1, Zenon DEF Min

\* strip("/") cuts a sequence.
LEMMA StrippedIsWord == ASSUME NEW S, NEW s \in Seq(S) PROVE StripSlashes(s) \in Seq(S)
<1> DEFINE kept == {i \in DOMAIN s : s[i] # "/"}
<1>1. kept \in SUBSET (1..Len(s)) /\ Len(s) \in Nat
  BY LenProperties
<1>2. StripSlashes(s) = IF kept = {} THEN << >> ELSE SubSeq(s, Min(kept), Max(kept))
  BY Zenon DEF StripSlashes
<1> HIDE DEF kept
<1>3. CASE kept = {}
  BY <1>2, <1>3, EmptySeq
<1>4. CASE kept # {}
  <2>1. kept \in SUBSET Nat /\ kept \in SUBSET (0..Len(s))
    BY <1>1
  <2>2. Min(kept) \in 1..Len(s) /\ Max(kept) \in 1..Len(s)
    BY <1>1, <1>4, <2>1, MinIn, MaxIn, Zenon
  <2>3. Min(kept) \in Int /\ Min(kept) >= 1 /\ Max(kept) \in Int /\ Max(kept) <= Len(s)
    BY <1>1, <2>2
  <2>4. SubSeq(s, Min(kept), Max(kept)) \in Seq(S)
    BY <2>3, PartIsWord
  <2>5. QED
    BY <1>2, <1>4, <2>4
<1>5. QED
  BY <1>3, <1>4

\* A scope that parses has a prefix, and the mode it was written with.
LEMMA ParsedScope ==
  ASSUME NEW S, NEW text \in Seq(S), NEW mode, NEW raw, raw = [body |-> text, mode |-> mode],
         ParseStorageScope(raw) # Invalid
  PROVE  ParseStorageScope(raw).prefix \in Seq(S) /\ ParseStorageScope(raw).mode = mode
<1> DEFINE body == IF IsSuffix(<<"/", "*">>, raw.body) THEN SubSeq(raw.body, 1, Len(raw.body) - 2) ELSE raw.body
           slash == {i \in DOMAIN body : body[i] = "/"}
           cut == IF slash = {} THEN Len(body) + 1 ELSE Min(slash)
<1>1. ParseStorageScope(raw) =
        IF raw.body \in {<< >>, <<"*">>} \/ cut = 1 THEN Invalid
        ELSE [bucket |-> SubSeq(body, 1, cut - 1),
              prefix |-> StripSlashes(SubSeq(body, cut + 1, Len(body))), mode |-> raw.mode]
  BY Zenon DEF ParseStorageScope
<1>2. body \in Seq(S)
  <2>1. raw.body = text /\ Len(text) \in Nat
    BY LenProperties
  <2>2. 1 \in Int /\ Len(text) - 2 \in Int /\ 1 >= 1 /\ Len(text) - 2 <= Len(text)
    BY <2>1
  <2>3. SubSeq(text, 1, Len(text) - 2) \in Seq(S)
    BY <2>2, PartIsWord
  <2>4. QED
    BY <2>1, <2>3
<1> HIDE DEF body
<1>3. slash \in SUBSET (1..Len(body)) /\ Len(body) \in Nat
  BY <1>2, LenProperties
<1> HIDE DEF slash
<1>4. cut \in Nat
  <2>1. slash \in SUBSET Nat /\ Len(body) + 1 \in Nat
    BY <1>3
  <2>2. slash # {} => Min(slash) \in Nat
    BY <2>1, MinIn, Zenon
  <2>3. QED
    BY <2>1, <2>2
<1> HIDE DEF cut
<1>5. SubSeq(body, cut + 1, Len(body)) \in Seq(S)
  <2>1. cut + 1 \in Int /\ cut + 1 >= 1 /\ Len(body) \in Int /\ Len(body) <= Len(body)
    BY <1>3, <1>4
  <2>2. QED
    BY <1>2, <2>1, PartIsWord
<1>6. StripSlashes(SubSeq(body, cut + 1, Len(body))) \in Seq(S)
  BY <1>5, StrippedIsWord, Zenon
<1>7. ParseStorageScope(raw) =
        [bucket |-> SubSeq(body, 1, cut - 1),
         prefix |-> StripSlashes(SubSeq(body, cut + 1, Len(body))), mode |-> raw.mode]
  BY <1>1, Zenon
<1>8. QED
  BY <1>6, <1>7

\* A storage scope covers whole path segments, for buckets and prefixes of any length.
THEOREM ScopesBySegment == Inputs => StorageSegmentwise
<1> SUFFICES ASSUME Inputs, Checks("storage") PROVE StorageSegmentwise
  BY DEF StorageSegmentwise
<1>1. InputInv
  BY InputsHold
<1> DEFINE S == Characters \union {"/"}
           scope == ParseStorageScope(input.scope)
           stripped == StripSlashes(input.prefix)
           Granted(mode) ==
             MatchesStorageScope([bucket |-> <<"a">>, prefix |-> input.prefix, mode |-> mode], {input.scope})
           within == /\ scope # Invalid /\ scope.bucket = <<"a">>
                     /\ \/ scope.prefix = << >>
                        \/ Split(scope.prefix) \subseteq Split(stripped)
<1>2. PICK body \in Seq(Characters), mode \in {"ro", "rw"} : input.scope = [body |-> body, mode |-> mode]
  BY <1>1, Zenon DEF InputInv
<1>3. body \in Seq(S) /\ input.prefix \in Seq(S)
  BY <1>1, SeqMonotonic DEF InputInv
<1>4. stripped \in Seq(S)
  BY <1>3, StrippedIsWord
<1>5. ASSUME scope # Invalid PROVE scope.prefix \in Seq(S) /\ scope.mode = input.scope.mode
  BY <1>2, <1>3, <1>5, ParsedScope
<1>6. ASSUME NEW m
      PROVE  Granted(m) <=> /\ scope # Invalid /\ scope.bucket = <<"a">>
                            /\ PrefixMatches(stripped, scope.prefix)
                            /\ m = "rw" => scope.mode = "rw"
  <2> DEFINE request == [bucket |-> <<"a">>, prefix |-> input.prefix, mode |-> m]
  <2>1. request.bucket = <<"a">> /\ request.prefix = input.prefix /\ request.mode = m
    OBVIOUS
  <2> HIDE DEF request
  <2>2. MatchesStorageScope(request, {input.scope}) <=>
          /\ scope # Invalid /\ scope.bucket = <<"a">>
          /\ PrefixMatches(stripped, scope.prefix)
          /\ m = "rw" => scope.mode = "rw"
    BY <2>1, Zenon DEF MatchesStorageScope
  <2>3. QED
    BY <2>2 DEF request
<1>7. scope # Invalid =>
        (PrefixMatches(stripped, scope.prefix)
           <=> scope.prefix = << >> \/ Split(scope.prefix) \subseteq Split(stripped))
  BY <1>4, <1>5, PrefixSegments
<1> HIDE DEF scope, stripped, Granted
<1>8. (Granted("ro") <=> within) /\ (Granted("rw") <=> (within /\ input.scope.mode = "rw"))
  BY <1>5, <1>6, <1>7
<1>9. QED
  BY <1>8, Zenon DEF StorageSegmentwise, scope, stripped, Granted
=============================================================================
