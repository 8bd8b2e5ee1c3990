----------------------------- MODULE PackageSync -----------------------------
(***************************************************************************)
(* scripts/sync-package-deps.ts: for each lib and app of the repository it *)
(* reads what the sources import and brings package.json in line with it,  *)
(* keeping what is declared (default) or not (--strict), and at the end    *)
(* compares versions across modules (--check-versions).  Developers edit   *)
(* sources and manifests between runs and between two modules of a run,    *)
(* and may interrupt it.                                                   *)
(***************************************************************************)
EXTENDS Naturals, Sequences, FiniteSets

CONSTANTS
    Modules,        \* names of libs and apps, in the order of their names
    Packages,       \* packages that may be imported or declared
    Internal,       \* those whose name starts with @optimex-pmm/
    NameOf,         \* the internal package that a module is
    PackageOf,      \* the package of an import specifier
    DevOnly,        \* DEV_ONLY_PACKAGES
    KeepDeps,       \* .keep-deps of each module
    PeerDeps,       \* peerDependencies of each package in node_modules
    OptionalPeers,  \* optionalNestJsPeerDeps
    Known,          \* version in the root's package.json or in node_modules
    Versions,       \* that a manifest may ask for, other than the wildcard
    MaxEdits,       \* bound: edits of sources and manifests
    MaxManifestEdits,   \* bound: how many of them are of manifests
    Ignored,        \* a relative import or a module of node
    Absent          \* no version

Names == {Modules[i] : i \in DOMAIN Modules}
Specifiers == DOMAIN PackageOf
Any == "*"

ASSUME PackageSyncAssumption ==
    /\ Modules \in Seq(Names)
    /\ Internal \subseteq Packages /\ DevOnly \subseteq Packages \ Internal
    /\ PackageOf \in [Specifiers -> Packages \cup {Ignored}]
    /\ NameOf \in [Names -> Internal]
    /\ KeepDeps \in [Names -> SUBSET Packages]
    /\ PeerDeps \in [Packages -> SUBSET Packages]
    /\ Known \in [Packages -> Versions \cup {Any, Absent}]
    /\ Any \notin Versions /\ Absent \notin Versions \cup {Any}
    /\ MaxEdits \in Nat /\ MaxManifestEdits \in Nat

VARIABLES
    source,         \* import specifiers in the sources of each module
    deps,           \* dependencies of its package.json
    dev,            \* devDependencies of its package.json
    run,            \* the script's options and the modules it has to do
    verdict,        \* what the last check of versions has found, until a
                    \* manifest changes
    synced,         \* history: the mode a module was last synchronised in,
                    \* if it has not been edited since
    edits           \* how many of each kind were made

files == <<source, deps, dev>>
vars == <<files, run, verdict, synced, edits>>

NoRun == [on |-> FALSE, strict |-> FALSE, dry |-> FALSE, check |-> FALSE, rest |-> <<>>]

Nothing == [p \in Packages |-> Absent]

Init ==
    /\ source = [m \in Names |-> {}]
    /\ deps = [m \in Names |-> Nothing]
    /\ dev = [m \in Names |-> Nothing]
    /\ run = NoRun
    /\ verdict = "none"
    /\ synced = [m \in Names |-> "no"]
    /\ edits = [source |-> 0, manifest |-> 0]

-----------------------------------------------------------------------------
(* Developers                                                              *)

Edit(m) ==
    /\ edits.source + edits.manifest < MaxEdits
    /\ synced' = [synced EXCEPT ![m] = "no"]
    /\ UNCHANGED run

EditSource(m) ==
    /\ Edit(m)
    /\ edits' = [edits EXCEPT !.source = @ + 1]
    /\ \E s \in Specifiers :
         source' = [source EXCEPT ![m] = IF s \in @ THEN @ \ {s} ELSE @ \cup {s}]
    /\ UNCHANGED <<deps, dev, verdict>>

(* Any package, in either section, with any version or the wildcard; but   *)
(* nobody writes a module's own package into its manifest.                 *)
EditManifest(m) ==
    /\ Edit(m)
    /\ edits.manifest < MaxManifestEdits
    /\ edits' = [edits EXCEPT !.manifest = @ + 1]
    /\ verdict' = "none"
    /\ \E p \in Packages \ {NameOf[m]}, v \in Versions \cup {Any, Absent} :
         \/ v # deps[m][p] /\ deps' = [deps EXCEPT ![m][p] = v] /\ UNCHANGED dev
         \/ v # dev[m][p] /\ dev' = [dev EXCEPT ![m][p] = v] /\ UNCHANGED deps
    /\ UNCHANGED source

-----------------------------------------------------------------------------
(* updatePackageJson of module m                                           *)

OrElse(version, other) == IF version # Absent THEN version ELSE other

(* getModuleImports: relative imports and node's own modules are skipped.  *)
Imports(m) == {PackageOf[s] : s \in source[m]} \ {Ignored}

(* Mutation: a module may depend on itself.                                *)
InternalImportsOrSelf(m) == Imports(m) \cap Internal

(* categorizeImports; a module does not depend on itself.                  *)
InternalImports(m) == (Imports(m) \cap Internal) \ {NameOf[m]}
ExternalImports(m) == Imports(m) \ Internal

(* Mutation: the peers of what is declared, not of what is imported.       *)
PeersOfDeclared(m) ==
    (UNION {PeerDeps[p] : p \in {q \in Packages : deps[m][q] # Absent}})
        \ (DevOnly \cup Internal \cup OptionalPeers)

(* getPeerDepsOfImports, less what the loop over them skips.               *)
PeersOfImports(m) ==
    (UNION {PeerDeps[p] : p \in ExternalImports(m)}) \ (DevOnly \cup Internal \cup OptionalPeers)

(* A version that is declared is kept, in whichever section it is.         *)
VersionFor(m, p) == OrElse(deps[m][p], OrElse(dev[m][p], Known[p]))

(* Mutation: peer dependencies of imports are forgotten.                   *)
ImportedDepsNoPeers(m) ==
    [p \in Packages |->
        IF p \in InternalImports(m) THEN Any
        ELSE IF p \in ExternalImports(m) \ DevOnly THEN VersionFor(m, p)
        ELSE Absent]

ImportedDeps(m) ==
    [p \in Packages |->
        IF p \in InternalImports(m) THEN Any
        ELSE IF p \in ExternalImports(m) \ DevOnly THEN VersionFor(m, p)
        ELSE IF p \in PeersOfImports(m) THEN OrElse(deps[m][p], Known[p])
        ELSE Absent]

ImportedDevDeps(m) ==
    [p \in Packages |->
        IF p \in ExternalImports(m) \cap DevOnly THEN VersionFor(m, p) ELSE Absent]

Declared(section, p) == section[p] # Absent

Added(m) ==
    {p \in Packages : ~Declared(deps[m], p) /\
        \/ Declared(ImportedDeps(m), p)
        \/ Declared(ImportedDevDeps(m), p) /\ ~Declared(dev[m], p)}

MovedToDev(m, strict) ==
    {p \in DevOnly : Declared(deps[m], p) /\
        (strict => Declared(ImportedDevDeps(m), p) /\ ~Declared(dev[m], p))}

Removed(m, strict) ==
    {p \in Packages \ (DevOnly \cup KeepDeps[m]) :
        strict /\ Declared(deps[m], p) /\ ~Declared(ImportedDeps(m), p)}

(* Mutation: what is imported replaces what is declared in either mode.    *)
FinalDepsAlwaysStrict(m, strict) ==
    [p \in Packages |-> IF p \in DevOnly THEN Absent ELSE ImportedDeps(m)[p]]

FinalDeps(m, strict) ==
    [p \in Packages |->
        IF p \in DevOnly THEN Absent
        ELSE OrElse(ImportedDeps(m)[p],
                    IF strict /\ p \notin KeepDeps[m] THEN Absent ELSE deps[m][p])]

FinalDevDeps(m, strict) ==
    [p \in Packages |->
        IF ~strict /\ p \in DevOnly /\ Declared(deps[m], p) THEN deps[m][p]
        ELSE OrElse(ImportedDevDeps(m)[p], dev[m][p])]

HasChanges(m, strict) == Added(m) \cup Removed(m, strict) \cup MovedToDev(m, strict) # {}

Mode == IF run.strict THEN "strict" ELSE "default"

UpdatePackageJson(m) ==
    IF run.dry THEN UNCHANGED <<deps, dev, synced>>
    ELSE /\ synced' = [synced EXCEPT ![m] = Mode]
         /\ IF HasChanges(m, run.strict)
            THEN /\ deps' = [deps EXCEPT ![m] = FinalDeps(m, run.strict)]
                 /\ dev' = [dev EXCEPT ![m] = FinalDevDeps(m, run.strict)]
            ELSE UNCHANGED <<deps, dev>>

-----------------------------------------------------------------------------
(* main                                                                    *)

(* --module leaves one module to do, the check looks at all of them.       *)
Start ==
    /\ ~run.on
    /\ \E strict, dry, check \in BOOLEAN, rest \in {Modules} \cup {<<m>> : m \in Names} :
         run' = [on |-> TRUE, strict |-> strict, dry |-> dry, check |-> check, rest |-> rest]
    /\ UNCHANGED <<files, verdict, synced, edits>>

Sync ==
    /\ run.on /\ run.rest # <<>>
    /\ UpdatePackageJson(Head(run.rest))
    /\ run' = [run EXCEPT !.rest = Tail(@)]
    /\ verdict' = IF UNCHANGED <<deps, dev>> THEN verdict ELSE "none"
    /\ UNCHANGED <<source, edits>>

(* A package's version in a module: {...dependencies, ...devDependencies}. *)
VersionIn(m, p) == OrElse(dev[m][p], deps[m][p])

(* Mutation: the versions of two modules are compared, by name.            *)
MismatchesOfNeighbours ==
    {p \in Packages \ Internal : \A m, n \in Names :
        m # n => Declared(dev[m], p) /\ Declared(dev[n], p) /\ dev[m][p] # dev[n][p]}

(* checkVersionMismatches                                                  *)
Mismatches ==
    {p \in Packages \ Internal :
        Cardinality({VersionIn(m, p) : m \in Names} \ {Absent, Any}) > 1}

Finish ==
    /\ run.on /\ run.rest = <<>>
    /\ verdict' = IF ~run.check THEN verdict
                  ELSE IF Mismatches = {} THEN "consistent" ELSE "mismatch"
    /\ run' = NoRun
    /\ UNCHANGED <<files, synced, edits>>

Interrupt ==
    /\ run.on
    /\ run' = NoRun
    /\ UNCHANGED <<files, verdict, synced, edits>>

Next ==
    \/ \E m \in Names : EditSource(m) \/ EditManifest(m)
    \/ Start \/ Sync \/ Finish \/ Interrupt

Spec == Init /\ [][Next]_vars

-----------------------------------------------------------------------------
(* Properties                                                              *)

Section == [Packages -> Versions \cup {Absent, Any}]

TypeOK ==
    /\ source \in [Names -> SUBSET Specifiers]
    /\ deps \in [Names -> Section] /\ dev \in [Names -> Section]
    /\ \A m \in Names : ~Declared(deps[m], NameOf[m]) /\ ~Declared(dev[m], NameOf[m])
    /\ run \in [on : BOOLEAN, strict : BOOLEAN, dry : BOOLEAN, check : BOOLEAN,
                rest : Seq(Names)]
    /\ ~run.on => run = NoRun
    /\ verdict \in {"none", "consistent", "mismatch"}
    /\ synced \in [Names -> {"no", "default", "strict"}]
    /\ edits \in [source : 0 .. MaxEdits, manifest : 0 .. MaxManifestEdits]

(* A module that was synchronised and not edited since declares all that   *)
(* its sources import and what those packages want as peers, as far as a   *)
(* version is known, and has nothing dev-only among its dependencies if    *)
(* the mode was the default: whichever runs came before, in whichever      *)
(* mode, and although a manifest is written only if something is added,    *)
(* removed or moved.                                                       *)
SyncedIsComplete ==
    \A m \in Names : synced[m] # "no" =>
        /\ \A p \in InternalImports(m) : Declared(deps[m], p)
        /\ \A p \in ExternalImports(m) \cup PeersOfImports(m) : Known[p] # Absent =>
              IF p \in DevOnly THEN Declared(deps[m], p) \/ Declared(dev[m], p)
              ELSE Declared(deps[m], p)
        /\ synced[m] = "default" => \A p \in DevOnly : ~Declared(deps[m], p)

(* Once is enough: a run in the same mode over a module that nobody edited *)
(* finds nothing more to change.                                           *)
SecondRunIsQuiet ==
    [][Sync => LET m == Head(run.rest) IN
               synced[m] = Mode => deps'[m] = deps[m] /\ dev'[m] = dev[m]]_vars

(* What a manifest declares survives a run with its version, but for what  *)
(* the script does on purpose: it moves to devDependencies what is         *)
(* dev-only, gives an imported internal package the wildcard whatever was  *)
(* asked for, and with --strict drops what is neither imported, nor a peer *)
(* of an import, nor in .keep-deps; what is dev-only and not imported is   *)
(* then dropped in spite of .keep-deps.  A devDependency is never dropped, *)
(* and its version replaced only by the one among the dependencies.        *)
DeclaredIsKept ==
    [][Sync => LET m == Head(run.rest) IN \A p \in Packages :
         /\ Declared(deps[m], p) =>
              \/ deps'[m][p] = deps[m][p]
              \/ p \in DevOnly /\ dev'[m][p] = deps[m][p]
              \/ p \in InternalImports(m) /\ deps'[m][p] = Any
              \/ /\ run.strict /\ p \notin KeepDeps[m] \ DevOnly
                 /\ p \notin InternalImports(m) \cup ExternalImports(m) \cup PeersOfImports(m)
         /\ Declared(dev[m], p) =>
              \/ dev'[m][p] = dev[m][p]
              \/ p \in DevOnly /\ Declared(deps[m], p) /\ dev'[m][p] = deps[m][p]]_vars

(* What module m asks for of package p, in either section.                 *)
Asked(m, p) == {deps[m][p], dev[m][p]} \ {Absent, Any}

(* After a check without mismatch, and until a manifest changes, whatever  *)
(* sources are edited and runs made meanwhile, all modules that ask for a  *)
(* version of a package ask for the same one.  Two ways past the check are *)
(* excepted: devDependencies hide the dependencies of the same module, and *)
(* the wildcard counts as no version.                                      *)
ConsistentMeansOne ==
    verdict = "consistent" => \A m, n \in Names, p \in Packages \ Internal :
        \A v \in Asked(m, p), w \in Asked(n, p) :
            \/ v = w
            \/ \E k \in {m, n} : Declared(dev[k], p) /\ deps[k][p] \notin {Absent, dev[k][p]}
=============================================================================
