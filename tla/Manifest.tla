------------------------------ MODULE Manifest ------------------------------
(***************************************************************************)
(* How the index of actions is made from action-manifest.json: the keys    *)
(* are emplaced, dependencies first, and sorted by depth, deepest first.   *)
(* A manifest is a function deps from keys to the sequence of their        *)
(* dependencies, without cycles: emplace would not end on one.             *)
(***************************************************************************)
EXTENDS Naturals, Sequences, FiniteSetsExt, SequencesExt

\* Keys are emplaced one after another, each into what the one before has left.
InTurn(emplace, keys, index) ==
  LET after[i \in 0 .. Len(keys)] ==
        IF i = 0 THEN index ELSE emplace[keys[i]][after[i - 1]]
  IN  after[Len(keys)]

\* ActionManifest::emplace, as a function from a key and an index to an index:
\* the dependencies of a key that is not in the index are emplaced before it.
Emplace(deps) ==
  LET emplace[key \in DOMAIN deps] ==
        [index \in Seq(DOMAIN deps) |->
           IF Contains(index, key) THEN index
           ELSE Append(InTurn(emplace, deps[key], index), key)]
  IN  emplace

\* The depth of a Relation is that of its last dependency, plus one (a mutation
\* of Depth).
DepthOfLast(deps) ==
  LET depth[key \in DOMAIN deps] ==
        IF deps[key] = <<>> THEN 1 ELSE 1 + depth[Last(deps[key])]
  IN  depth

\* One more than that of its deepest dependency.
Depth(deps) ==
  LET depth[key \in DOMAIN deps] ==
        Max({1} \union {1 + depth[dep] : dep \in ToSet(deps[key])})
  IN  depth

\* The first key that is not in the index yet is emplaced until there is none;
\* keys is their order in the file.
Filled(deps, keys) == InTurn(Emplace(deps), keys, <<>>)

\* What std::sort, which is not stable, may make of an index of these keys.
Sorted(deps) ==
  LET depth == Depth(deps)
  IN  {s \in SetToSeqs(DOMAIN deps) :
         \A i, j \in DOMAIN s : i < j => depth[s[i]] >= depth[s[j]]}

-----------------------------------------------------------------------------
\* All manifests of n keys but for renaming: a key needs later ones only.
Manifests(n) ==
  LET later(k) == UNION {SetToSeqs(S) : S \in SUBSET (k + 1 .. n)}
      from[k \in 1 .. n + 1] ==
        IF k > n THEN {<<>>}
        ELSE {<<d>> \o m : d \in later(k), m \in from[k + 1]}
  IN  from[1]

\* A dependency has been emplaced when the Relation that shares it is made, and
\* no key is emplaced twice.
DependenciesAreFound(deps, index) ==
  /\ ToSet(index) = DOMAIN deps /\ Len(index) = Cardinality(DOMAIN deps)
  /\ \A i \in DOMAIN index :
       ToSet(deps[index[i]]) \subseteq {index[j] : j \in 1 .. i - 1}

\* A dependency comes after the actions it is for: what ActionScheduler assumes.
DependenciesComeLater(deps, index) ==
  \A i, j \in DOMAIN index : Contains(deps[index[i]], index[j]) => i < j

\* However the file is ordered.
ManifestsAreOrdered(n) ==
  \A deps \in Manifests(n) :
    /\ \A keys \in SetToSeqs(1 .. n) :
         DependenciesAreFound(deps, Filled(deps, keys))
    /\ \A s \in Sorted(deps) : DependenciesComeLater(deps, s)

=============================================================================
