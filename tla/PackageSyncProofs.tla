-------------------------- MODULE PackageSyncProofs --------------------------
(***************************************************************************)
(* Proofs about PackageSync, for any modules, packages, versions, edits    *)
(* and sequences of runs.                                                  *)
(***************************************************************************)
EXTENDS PackageSync, SequenceTheorems, FiniteSetTheorems, TLAPS

-----------------------------------------------------------------------------
(* The inductive invariant                                                 *)

(* A module that was synchronised has nothing left to do in that mode.     *)
DoneInv == \A m \in Names : synced[m] # "no" => ~HasChanges(m, synced[m] = "strict")

CheckedInv == verdict = "consistent" => Mismatches = {}

IInv == TypeOK /\ DoneInv /\ SyncedIsComplete /\ CheckedInv

LEMMA ModuleNames ==
    /\ Modules \in Seq(Names) /\ IsFiniteSet(Names)
    /\ \A m \in Names : <<m>> \in Seq(Names)
<1>1. Modules \in Seq(Names)
  BY PackageSyncAssumption
<1>2. Len(Modules) \in Nat /\ DOMAIN Modules = 1 .. Len(Modules)
  BY <1>1
<1>3. IsFiniteSet(DOMAIN Modules)
  BY <1>2, FS_Interval
<1>4. IsFiniteSet(Names)
  <2>1. Modules \in [DOMAIN Modules -> Names]
    BY <1>1, <1>2
  <2>2. Modules \in Surjection(DOMAIN Modules, Names)
    BY <2>1 DEF Surjection, Names
  <2> QED
    BY <1>3, <2>2, FS_Surjection
<1> QED
  BY <1>1, <1>4

LEMMA Apart ==
    /\ Internal \subseteq Packages /\ DevOnly \subseteq Packages /\ DevOnly \cap Internal = {}
    /\ Known \in [Packages -> Versions \cup {Any, Absent}]
    /\ NameOf \in [Names -> Internal]
    /\ Any \notin Versions /\ Absent \notin Versions /\ Absent # Any
BY PackageSyncAssumption

LEMMA ImportsAre ==
    ASSUME NEW m \in Names
    PROVE  /\ InternalImports(m) \subseteq Internal \ {NameOf[m]}
           /\ ExternalImports(m) \cap Internal = {}
           /\ ExternalImports(m) \cap InternalImports(m) = {}
           /\ PeersOfImports(m) \cap (DevOnly \cup Internal) = {}
BY DEF InternalImports, ExternalImports, PeersOfImports

-----------------------------------------------------------------------------
(* One module is synchronised                                              *)

(* m is done in the mode the run is in.                                    *)
Write(m, strict) ==
    /\ deps' = [deps EXCEPT ![m] = FinalDeps(m, strict)]
    /\ dev' = [dev EXCEPT ![m] = FinalDevDeps(m, strict)]
    /\ source' = source

Sections ==
    /\ deps \in [Names -> Section] /\ dev \in [Names -> Section]
    /\ \A m \in Names : ~Declared(deps[m], NameOf[m]) /\ ~Declared(dev[m], NameOf[m])

(* What is written for package p.                                          *)
LEMMA Written ==
    ASSUME Sections, NEW m \in Names, NEW strict \in BOOLEAN, Write(m, strict),
           NEW p \in Packages
    PROVE  /\ deps'[m][p] = FinalDeps(m, strict)[p]
           /\ dev'[m][p] = FinalDevDeps(m, strict)[p]
           /\ InternalImports(m)' = InternalImports(m)
           /\ ExternalImports(m)' = ExternalImports(m)
           /\ PeersOfImports(m)' = PeersOfImports(m)
BY DEF Sections, Write, InternalImports, ExternalImports, PeersOfImports, Imports

LEMMA WrittenTyped ==
    ASSUME Sections, NEW m \in Names, NEW strict \in BOOLEAN, Write(m, strict)
    PROVE  Sections'
<1> USE Apart DEF Sections
<1>1. ASSUME NEW p \in Packages
      PROVE  /\ FinalDeps(m, strict)[p] \in Versions \cup {Absent, Any}
             /\ FinalDevDeps(m, strict)[p] \in Versions \cup {Absent, Any}
             /\ p = NameOf[m] => /\ FinalDeps(m, strict)[p] = Absent
                                 /\ FinalDevDeps(m, strict)[p] = Absent
  <2>1. /\ deps[m][p] \in Versions \cup {Absent, Any}
        /\ dev[m][p] \in Versions \cup {Absent, Any} /\ Known[p] \in Versions \cup {Absent, Any}
    BY DEF Section
  <2>2. VersionFor(m, p) \in Versions \cup {Absent, Any}
    BY <2>1 DEF VersionFor, OrElse
  <2>3. /\ ImportedDeps(m)[p] \in Versions \cup {Absent, Any}
        /\ p = NameOf[m] => ImportedDeps(m)[p] = Absent
    BY <2>1, <2>2, ImportsAre DEF ImportedDeps, OrElse
  <2>4. /\ ImportedDevDeps(m)[p] \in Versions \cup {Absent, Any}
        /\ p = NameOf[m] => ImportedDevDeps(m)[p] = Absent
    BY <2>2 DEF ImportedDevDeps
  <2> QED
    BY <2>1, <2>3, <2>4 DEF FinalDeps, FinalDevDeps, OrElse, Declared
<1>2. FinalDeps(m, strict) \in Section /\ FinalDevDeps(m, strict) \in Section
  BY <1>1 DEF Section, FinalDeps, FinalDevDeps
<1>3. \A n \in Names \ {m} : deps'[n] = deps[n] /\ dev'[n] = dev[n]
  BY DEF Write
<1>4. NameOf[m] \in Packages
  OBVIOUS
<1>5. deps'[m] = FinalDeps(m, strict) /\ dev'[m] = FinalDevDeps(m, strict)
  BY DEF Write
<1>6. ~Declared(deps[m], NameOf[m])' /\ ~Declared(dev[m], NameOf[m])'
  BY <1>1, <1>4, <1>5 DEF Declared
<1>7. deps' \in [Names -> Section] /\ dev' \in [Names -> Section]
  BY <1>2 DEF Write
<1>8. \A n \in Names : ~Declared(deps[n], NameOf[n])' /\ ~Declared(dev[n], NameOf[n])'
  BY <1>3, <1>6 DEF Declared
<1> QED
  BY <1>7, <1>8

(* What was looked up once is found in the manifest from then on.          *)
LEMMA WrittenStable ==
    ASSUME Sections, NEW m \in Names, NEW strict \in BOOLEAN, Write(m, strict),
           NEW p \in Packages
    PROVE  /\ Declared(ImportedDeps(m), p)' <=> Declared(ImportedDeps(m), p)
           /\ Declared(ImportedDevDeps(m), p)' <=> Declared(ImportedDevDeps(m), p)
           /\ Declared(ImportedDeps(m), p) => Declared(deps[m], p)'
           /\ Declared(ImportedDevDeps(m), p) => Declared(dev[m], p)'
           /\ p \in DevOnly => ~Declared(deps[m], p)'
           /\ strict /\ p \notin DevOnly \cup KeepDeps[m] /\ ~Declared(ImportedDeps(m), p) =>
                ~Declared(deps[m], p)'
<1> USE Apart, Written, ImportsAre
<1>1. /\ p \in DevOnly => ~Declared(deps[m], p)'
      /\ ~Declared(ImportedDeps(m), p) /\ strict /\ p \notin DevOnly \cup KeepDeps[m] =>
           ~Declared(deps[m], p)'
  BY DEF Declared, FinalDeps, OrElse
<1>2. Declared(ImportedDeps(m), p) => p \notin DevOnly /\ Declared(deps[m], p)'
  BY DEF Declared, FinalDeps, OrElse, ImportedDeps
<1>3. Declared(ImportedDevDeps(m), p) => p \in DevOnly /\ Declared(dev[m], p)'
  BY DEF Declared, FinalDevDeps, OrElse, ImportedDevDeps
<1>4. Declared(ImportedDeps(m), p)' <=> Declared(ImportedDeps(m), p)
  <2>1. CASE p \in InternalImports(m)
    BY <2>1 DEF ImportedDeps, Declared
  <2>2. CASE p \notin InternalImports(m) /\ p \in ExternalImports(m) \ DevOnly
    <3>1. /\ Declared(ImportedDeps(m), p) <=> VersionFor(m, p) # Absent
          /\ Declared(ImportedDeps(m), p)' <=> VersionFor(m, p)' # Absent
      BY <2>2 DEF ImportedDeps, Declared
    <3>2. VersionFor(m, p) = Absent => deps'[m][p] = Absent /\ dev'[m][p] = Absent
      BY <2>2 DEF FinalDeps, FinalDevDeps, ImportedDeps, ImportedDevDeps, VersionFor, OrElse
    <3>3. VersionFor(m, p) # Absent => deps'[m][p] # Absent
      BY <1>2, <3>1 DEF Declared
    <3> QED
      BY <3>1, <3>2, <3>3 DEF VersionFor, OrElse
  <2>3. CASE /\ p \notin InternalImports(m) /\ p \notin ExternalImports(m) \ DevOnly
             /\ p \in PeersOfImports(m)
    <3>1. /\ Declared(ImportedDeps(m), p) <=> OrElse(deps[m][p], Known[p]) # Absent
          /\ Declared(ImportedDeps(m), p)' <=> OrElse(deps'[m][p], Known[p]) # Absent
      BY <2>3 DEF ImportedDeps, Declared
    <3>2. OrElse(deps[m][p], Known[p]) = Absent => deps'[m][p] = Absent
      BY <2>3 DEF FinalDeps, ImportedDeps, OrElse
    <3>3. OrElse(deps[m][p], Known[p]) # Absent => deps'[m][p] # Absent
      BY <1>2, <3>1 DEF Declared
    <3> QED
      BY <3>1, <3>2, <3>3 DEF OrElse
  <2>4. CASE /\ p \notin InternalImports(m) /\ p \notin ExternalImports(m) \ DevOnly
             /\ p \notin PeersOfImports(m)
    BY <2>4 DEF ImportedDeps, Declared
  <2> QED
    BY <2>1, <2>2, <2>3, <2>4
<1>5. Declared(ImportedDevDeps(m), p)' <=> Declared(ImportedDevDeps(m), p)
  <2>1. CASE p \in ExternalImports(m) \cap DevOnly
    <3>1. /\ Declared(ImportedDevDeps(m), p) <=> VersionFor(m, p) # Absent
          /\ Declared(ImportedDevDeps(m), p)' <=> VersionFor(m, p)' # Absent
      BY <2>1 DEF ImportedDevDeps, Declared
    <3>2. VersionFor(m, p) = Absent => deps'[m][p] = Absent /\ dev'[m][p] = Absent
      BY <2>1 DEF FinalDeps, FinalDevDeps, ImportedDevDeps, VersionFor, OrElse, Declared
    <3>3. VersionFor(m, p) # Absent => dev'[m][p] # Absent
      BY <1>3, <3>1 DEF Declared
    <3> QED
      BY <3>1, <3>2, <3>3 DEF VersionFor, OrElse
  <2>2. CASE p \notin ExternalImports(m) \cap DevOnly
    BY <2>2 DEF ImportedDevDeps, Declared
  <2> QED
    BY <2>1, <2>2
<1> QED
  BY <1>1, <1>2, <1>3, <1>4, <1>5

LEMMA WrittenDone ==
    ASSUME Sections, NEW m \in Names, NEW strict \in BOOLEAN, Write(m, strict)
    PROVE  ~HasChanges(m, strict)'
<1>1. ASSUME NEW p \in Added(m)'
      PROVE  FALSE
  BY <1>1, WrittenStable DEF Added, Declared
<1>2. ASSUME NEW p \in Removed(m, strict)'
      PROVE  FALSE
  BY <1>2, WrittenStable DEF Removed, Declared
<1>3. ASSUME NEW p \in MovedToDev(m, strict)'
      PROVE  FALSE
  BY <1>3, WrittenStable, Apart DEF MovedToDev, Declared
<1> QED
  BY <1>1, <1>2, <1>3 DEF HasChanges

Complete(m) ==
    /\ \A p \in InternalImports(m) : Declared(deps[m], p)
    /\ \A p \in ExternalImports(m) \cup PeersOfImports(m) : Known[p] # Absent =>
          IF p \in DevOnly THEN Declared(deps[m], p) \/ Declared(dev[m], p)
          ELSE Declared(deps[m], p)

(* With nothing left to do a module declares what it needs.                *)
LEMMA DoneIsComplete ==
    ASSUME NEW m \in Names, NEW strict \in BOOLEAN, source[m] \subseteq Specifiers,
           ~HasChanges(m, strict)
    PROVE  /\ Complete(m)
           /\ ~strict => \A p \in DevOnly : ~Declared(deps[m], p)
<1>1. Added(m) = {} /\ MovedToDev(m, strict) = {}
  BY DEF HasChanges
<1>2. \A p \in Packages : ~Declared(deps[m], p) =>
        /\ ~Declared(ImportedDeps(m), p)
        /\ Declared(ImportedDevDeps(m), p) => Declared(dev[m], p)
  BY <1>1 DEF Added
<1>3. InternalImports(m) \subseteq Packages /\ ExternalImports(m) \subseteq Packages
  BY PackageSyncAssumption DEF InternalImports, ExternalImports, Imports, Specifiers
<1>4. PeersOfImports(m) \subseteq Packages
  <2>1. \A p \in ExternalImports(m) : PeerDeps[p] \subseteq Packages
    BY <1>3, PackageSyncAssumption
  <2> QED
    BY <2>1 DEF PeersOfImports
<1>5. ASSUME NEW p \in InternalImports(m)
      PROVE  Declared(deps[m], p)
  <2>1. Declared(ImportedDeps(m), p)
    BY <1>3, Apart DEF ImportedDeps, Declared
  <2> QED
    BY <1>2, <1>3, <2>1
<1>6. ASSUME NEW p \in ExternalImports(m) \cup PeersOfImports(m), Known[p] # Absent
      PROVE  IF p \in DevOnly THEN Declared(deps[m], p) \/ Declared(dev[m], p)
             ELSE Declared(deps[m], p)
  <2>1. p \in Packages /\ p \notin InternalImports(m)
    BY <1>3, <1>4, ImportsAre
  <2>2. CASE p \in DevOnly
    <3>1. p \in ExternalImports(m)
      BY <1>6, <2>2, ImportsAre
    <3>2. Declared(ImportedDevDeps(m), p)
      BY <1>6, <2>1, <2>2, <3>1 DEF ImportedDevDeps, Declared, VersionFor, OrElse
    <3> QED
      BY <1>2, <2>1, <2>2, <3>2
  <2>3. CASE p \notin DevOnly
    <3>1. Declared(ImportedDeps(m), p)
      BY <1>6, <2>1, <2>3 DEF ImportedDeps, Declared, VersionFor, OrElse
    <3> QED
      BY <1>2, <2>1, <2>3, <3>1
  <2> QED
    BY <2>2, <2>3
<1>7. ~strict => \A p \in DevOnly : ~Declared(deps[m], p)
  BY <1>1 DEF MovedToDev
<1> QED
  BY <1>5, <1>6, <1>7 DEF Complete

(* Hence the property is a consequence of the invariant.                   *)
LEMMA DoneImpliesComplete ==
    ASSUME TypeOK, DoneInv
    PROVE  SyncedIsComplete
<1> SUFFICES ASSUME NEW m \in Names, synced[m] # "no"
             PROVE  /\ Complete(m)
                    /\ synced[m] = "default" => \A p \in DevOnly : ~Declared(deps[m], p)
  BY DEF SyncedIsComplete, Complete
<1>1. source[m] \subseteq Specifiers /\ (synced[m] = "strict") \in BOOLEAN
  BY DEF TypeOK
<1>2. ~HasChanges(m, synced[m] = "strict")
  BY DEF DoneInv
<1> QED
  BY <1>1, <1>2, DoneIsComplete

(* What is declared is written again, moved, overwritten or was to be      *)
(* removed.                                                                *)
LEMMA WrittenKeeps ==
    ASSUME Sections, NEW m \in Names, NEW strict \in BOOLEAN, Write(m, strict),
           NEW p \in Packages
    PROVE  /\ Declared(deps[m], p) =>
                \/ deps'[m][p] = deps[m][p]
                \/ p \in DevOnly /\ dev'[m][p] = deps[m][p]
                \/ p \in InternalImports(m) /\ deps'[m][p] = Any
                \/ /\ strict /\ p \notin KeepDeps[m] \ DevOnly
                   /\ p \notin InternalImports(m) \cup ExternalImports(m)
                                \cup PeersOfImports(m)
           /\ Declared(dev[m], p) =>
                \/ dev'[m][p] = dev[m][p]
                \/ p \in DevOnly /\ Declared(deps[m], p) /\ dev'[m][p] = deps[m][p]
<1>1. deps'[m][p] = FinalDeps(m, strict)[p] /\ dev'[m][p] = FinalDevDeps(m, strict)[p]
  BY Written
<1>2. ASSUME Declared(deps[m], p), p \in DevOnly
      PROVE  \/ dev'[m][p] = deps[m][p]
             \/ strict /\ p \notin InternalImports(m) \cup ExternalImports(m)
                                      \cup PeersOfImports(m)
  <2>1. CASE ~strict \/ p \in ExternalImports(m)
    BY <1>1, <1>2, <2>1 DEF FinalDevDeps, ImportedDevDeps, VersionFor, OrElse, Declared
  <2>2. CASE strict /\ p \notin ExternalImports(m)
    BY <1>2, <2>2, Apart, ImportsAre
  <2> QED
    BY <2>1, <2>2
<1>3. ASSUME Declared(deps[m], p), p \notin DevOnly
      PROVE  \/ deps'[m][p] = deps[m][p]
             \/ p \in InternalImports(m) /\ deps'[m][p] = Any
             \/ /\ strict /\ p \notin KeepDeps[m]
                /\ p \notin InternalImports(m) \cup ExternalImports(m) \cup PeersOfImports(m)
  <2>1. CASE p \in InternalImports(m)
    BY <1>1, <1>3, <2>1, Apart DEF FinalDeps, ImportedDeps, OrElse
  <2>2. CASE p \notin InternalImports(m) /\ p \in ExternalImports(m) \cup PeersOfImports(m)
    BY <1>1, <1>3, <2>2 DEF FinalDeps, ImportedDeps, VersionFor, OrElse, Declared
  <2>3. CASE p \notin InternalImports(m) \cup ExternalImports(m) \cup PeersOfImports(m)
    BY <1>1, <1>3, <2>3 DEF FinalDeps, ImportedDeps, OrElse, Declared
  <2> QED
    BY <2>1, <2>2, <2>3
<1>4. ASSUME Declared(dev[m], p)
      PROVE  \/ dev'[m][p] = dev[m][p]
             \/ p \in DevOnly /\ Declared(deps[m], p) /\ dev'[m][p] = deps[m][p]
  BY <1>1, <1>4 DEF FinalDevDeps, ImportedDevDeps, VersionFor, OrElse, Declared
<1> QED
  BY <1>2, <1>3, <1>4

-----------------------------------------------------------------------------
(* Every step                                                              *)

LEMMA TypesAre ==
    ASSUME TypeOK
    PROVE  Sections
BY DEF TypeOK, Sections

(* Module m is left as it is.                                              *)
LEMMA HasChangesKept ==
    ASSUME NEW m \in Names, source'[m] = source[m], deps'[m] = deps[m], dev'[m] = dev[m],
           NEW strict
    PROVE  HasChanges(m, strict)' <=> HasChanges(m, strict)
<1>1. /\ Imports(m)' = Imports(m) /\ InternalImports(m)' = InternalImports(m)
      /\ ExternalImports(m)' = ExternalImports(m) /\ PeersOfImports(m)' = PeersOfImports(m)
  BY DEF Imports, InternalImports, ExternalImports, PeersOfImports
<1>2. \A p : VersionFor(m, p)' = VersionFor(m, p)
  BY DEF VersionFor
<1>3. ImportedDeps(m)' = ImportedDeps(m) /\ ImportedDevDeps(m)' = ImportedDevDeps(m)
  BY <1>1, <1>2 DEF ImportedDeps, ImportedDevDeps
<1> QED
  BY <1>3 DEF HasChanges, Added, Removed, MovedToDev, Declared

LEMMA EditKeeps ==
    ASSUME IInv, NEW m \in Names, EditSource(m) \/ EditManifest(m)
    PROVE  IInv'
<1> USE Apart
<1>1. /\ synced' = [synced EXCEPT ![m] = "no"] /\ run' = run
      /\ \/ verdict' = "none"
         \/ verdict' = verdict /\ deps' = deps /\ dev' = dev
  BY DEF EditSource, EditManifest, Edit
<1>2. /\ \A n \in Names \ {m} : source'[n] = source[n] /\ deps'[n] = deps[n] /\ dev'[n] = dev[n]
      /\ source' \in [Names -> SUBSET Specifiers]
  BY DEF IInv, TypeOK, EditSource, EditManifest
<1>3. Sections'
  <2>1. CASE EditSource(m)
    <3>1. UNCHANGED <<deps, dev>>
      BY <2>1 DEF EditSource
    <3> QED
      BY <3>1, TypesAre DEF IInv, Sections, Declared
  <2>2. CASE EditManifest(m)
    <3>1. PICK p \in Packages \ {NameOf[m]}, v \in Versions \cup {Any, Absent} :
            \/ deps' = [deps EXCEPT ![m][p] = v] /\ UNCHANGED dev
            \/ dev' = [dev EXCEPT ![m][p] = v] /\ UNCHANGED deps
      BY <2>2 DEF EditManifest
    <3>2. Sections
      BY TypesAre DEF IInv
    <3>3. deps' \in [Names -> Section] /\ dev' \in [Names -> Section]
      <4>1. ASSUME NEW section \in Section
            PROVE  [section EXCEPT ![p] = v] \in Section
        BY DEF Section
      <4>2. /\ deps' = [deps EXCEPT ![m] = [deps[m] EXCEPT ![p] = v]] \/ deps' = deps
            /\ dev' = [dev EXCEPT ![m] = [dev[m] EXCEPT ![p] = v]] \/ dev' = dev
        BY <3>1
      <4> QED
        BY <3>2, <4>1, <4>2 DEF Sections
    <3>4. \A n \in Names, q \in Packages :
            /\ deps'[n][q] = IF deps' # deps /\ n = m /\ q = p THEN v ELSE deps[n][q]
            /\ dev'[n][q] = IF dev' # dev /\ n = m /\ q = p THEN v ELSE dev[n][q]
      BY <3>1, <3>2 DEF Sections, Section
    <3>5. \A n \in Names : NameOf[n] \in Packages /\ (n = m => NameOf[n] # p)
      BY <3>1
    <3>6. \A n \in Names : deps'[n][NameOf[n]] = Absent /\ dev'[n][NameOf[n]] = Absent
      BY <3>2, <3>4, <3>5 DEF Sections, Declared
    <3> QED
      BY <3>3, <3>6 DEF Sections, Declared
  <2> QED
    BY <2>1, <2>2
<1>4. TypeOK'
  <2>1. synced' \in [Names -> {"no", "default", "strict"}]
    BY <1>1 DEF IInv, TypeOK
  <2>2. edits' \in [source : 0 .. MaxEdits, manifest : 0 .. MaxManifestEdits]
    <3>1. /\ edits \in [source : 0 .. MaxEdits, manifest : 0 .. MaxManifestEdits]
          /\ MaxEdits \in Nat /\ MaxManifestEdits \in Nat
      BY PackageSyncAssumption DEF IInv, TypeOK
    <3>2. edits.source + edits.manifest < MaxEdits
      BY DEF EditSource, EditManifest, Edit
    <3>3. CASE EditSource(m)
      BY <3>1, <3>2, <3>3 DEF EditSource
    <3>4. CASE EditManifest(m)
      BY <3>1, <3>2, <3>4 DEF EditManifest
    <3> QED
      BY <3>3, <3>4
  <2> QED
    BY <1>1, <1>2, <1>3, <2>1, <2>2 DEF IInv, TypeOK, Sections
<1>5. DoneInv'
  <2> SUFFICES ASSUME NEW n \in Names, synced'[n] # "no",
                      NEW strict, strict = (synced'[n] = "strict")
               PROVE  ~HasChanges(n, strict)'
    BY DEF DoneInv
  <2>1. n # m /\ synced'[n] = synced[n]
    BY <1>1 DEF IInv, TypeOK
  <2>2. ~HasChanges(n, strict)
    BY <2>1 DEF IInv, DoneInv
  <2> QED
    BY <1>2, <2>1, <2>2, HasChangesKept
<1>6. SyncedIsComplete' /\ CheckedInv'
  <2>1. CheckedInv'
    BY <1>1 DEF IInv, CheckedInv, Mismatches, VersionIn
  <2>2. SyncedIsComplete'
    BY <1>4, <1>5, DoneImpliesComplete, PTL
  <2> QED
    BY <2>1, <2>2
<1> QED
  BY <1>3, <1>4, <1>5, <1>6 DEF IInv

(* What Sync does to the module it has come to.                            *)
LEMMA SyncSteps ==
    ASSUME TypeOK, Sync
    PROVE  \E m \in Names, strict \in BOOLEAN :
             /\ m = Head(run.rest) /\ strict = run.strict
             /\ Mode = IF strict THEN "strict" ELSE "default"
             /\ source' = source /\ edits' = edits
             /\ verdict' = IF UNCHANGED <<deps, dev>> THEN verdict ELSE "none"
             /\ run' = [run EXCEPT !.rest = Tail(@)]
             /\ \/ UNCHANGED <<deps, dev, synced>>
                \/ /\ synced' = [synced EXCEPT ![m] = Mode]
                   /\ ~HasChanges(m, strict) /\ UNCHANGED <<deps, dev>>
                \/ /\ synced' = [synced EXCEPT ![m] = Mode]
                   /\ HasChanges(m, strict) /\ Write(m, strict)
<1>1. Head(run.rest) \in Names
  <2>1. run.rest \in Seq(Names) /\ run.rest # <<>>
    BY DEF TypeOK, Sync
  <2> QED
    BY <2>1
<1>2. run.strict \in BOOLEAN
  BY DEF TypeOK
<1> DEFINE h == Head(run.rest)
           st == run.strict
<1>3. /\ source' = source /\ edits' = edits
      /\ verdict' = IF UNCHANGED <<deps, dev>> THEN verdict ELSE "none"
      /\ run' = [run EXCEPT !.rest = Tail(@)]
      /\ \/ UNCHANGED <<deps, dev, synced>>
         \/ /\ synced' = [synced EXCEPT ![h] = Mode]
            /\ ~HasChanges(h, st) /\ UNCHANGED <<deps, dev>>
         \/ /\ synced' = [synced EXCEPT ![h] = Mode]
            /\ HasChanges(h, st)
            /\ deps' = [deps EXCEPT ![h] = FinalDeps(h, st)]
            /\ dev' = [dev EXCEPT ![h] = FinalDevDeps(h, st)]
  BY DEF Sync, UpdatePackageJson
<1>4. Mode = IF st THEN "strict" ELSE "default"
  BY DEF Mode
<1>5. h \in Names /\ st \in BOOLEAN /\ h = Head(run.rest) /\ st = run.strict
  BY <1>1, <1>2
<1> HIDE DEF h, st
<1> QED
  BY <1>3, <1>4, <1>5 DEF Write

(* Whatever Sync does to a manifest, another run in that mode would find   *)
(* nothing to do, and the other modules are as they were.                  *)
LEMMA SyncKeeps ==
    ASSUME IInv, Sync
    PROVE  IInv'
<1>1. PICK m \in Names, strict \in BOOLEAN :
        /\ m = Head(run.rest) /\ strict = run.strict
        /\ Mode = IF strict THEN "strict" ELSE "default"
        /\ source' = source /\ edits' = edits
        /\ verdict' = IF UNCHANGED <<deps, dev>> THEN verdict ELSE "none"
        /\ run' = [run EXCEPT !.rest = Tail(@)]
        /\ \/ UNCHANGED <<deps, dev, synced>>
           \/ /\ synced' = [synced EXCEPT ![m] = Mode]
              /\ ~HasChanges(m, strict) /\ UNCHANGED <<deps, dev>>
           \/ /\ synced' = [synced EXCEPT ![m] = Mode]
              /\ HasChanges(m, strict) /\ Write(m, strict)
  BY SyncSteps DEF IInv
<1>2. Sections /\ TypeOK /\ DoneInv
  BY TypesAre DEF IInv
<1>3. run.rest \in Seq(Names) /\ run.rest # <<>> /\ run.on
  BY <1>2 DEF Sync, TypeOK
<1>4. Sections'
  <2>1. CASE UNCHANGED <<deps, dev>>
    BY <1>2, <2>1 DEF Sections, Declared
  <2>2. CASE Write(m, strict)
    BY <1>2, <2>2, WrittenTyped
  <2> QED
    BY <1>1, <2>1, <2>2
<1>5. TypeOK'
  <2>1. Tail(run.rest) \in Seq(Names)
    BY <1>3
  <2>2. /\ run' \in [on : BOOLEAN, strict : BOOLEAN, dry : BOOLEAN, check : BOOLEAN,
                     rest : Seq(Names)]
        /\ run'.on
    BY <1>1, <1>2, <1>3, <2>1 DEF TypeOK
  <2>3. synced' \in [Names -> {"no", "default", "strict"}]
    BY <1>1, <1>2 DEF TypeOK
  <2> QED
    BY <1>1, <1>2, <1>4, <2>2, <2>3 DEF TypeOK, Sections
<1>6. DoneInv'
  <2> SUFFICES ASSUME NEW n \in Names, synced'[n] # "no",
                      NEW s \in BOOLEAN, s = (synced'[n] = "strict")
               PROVE  ~HasChanges(n, s)'
    BY DEF DoneInv
  <2>1. CASE synced'[n] = synced[n] /\ deps'[n] = deps[n] /\ dev'[n] = dev[n]
    <3>1. ~HasChanges(n, s)
      BY <1>2, <2>1 DEF DoneInv
    <3> QED
      BY <1>1, <2>1, <3>1, HasChangesKept
  <2>2. CASE /\ n = m /\ s = strict /\ ~HasChanges(m, strict)
             /\ UNCHANGED <<deps, dev>>
    BY <1>1, <2>2, HasChangesKept
  <2>3. CASE n = m /\ s = strict /\ Write(m, strict)
    BY <1>2, <2>3, WrittenDone
  <2>4. n # m => synced'[n] = synced[n] /\ deps'[n] = deps[n] /\ dev'[n] = dev[n]
    BY <1>1, <1>2 DEF TypeOK, Write
  <2>5. \/ synced'[m] = synced[m] /\ UNCHANGED <<deps, dev>>
        \/ (synced'[m] = "strict") = strict
    BY <1>1, <1>2 DEF TypeOK
  <2> QED
    BY <1>1, <2>1, <2>2, <2>3, <2>4, <2>5
<1>7. SyncedIsComplete' /\ CheckedInv'
  <2>1. CheckedInv'
    BY <1>1 DEF IInv, CheckedInv, Mismatches, VersionIn
  <2>2. SyncedIsComplete'
    BY <1>5, <1>6, DoneImpliesComplete, PTL
  <2> QED
    BY <2>1, <2>2
<1> QED
  BY <1>4, <1>5, <1>6, <1>7 DEF IInv

(* What does not touch the files.                                          *)
LEMMA FilesKept ==
    ASSUME IInv, UNCHANGED <<files, synced>>
    PROVE  DoneInv' /\ SyncedIsComplete' /\ Mismatches' = Mismatches
<1>1. source' = source /\ deps' = deps /\ dev' = dev /\ synced' = synced
  BY DEF files
<1>2. DoneInv'
  <2> SUFFICES ASSUME NEW n \in Names, synced'[n] # "no",
                      NEW s \in BOOLEAN, s = (synced'[n] = "strict")
               PROVE  ~HasChanges(n, s)'
    BY DEF DoneInv
  <2>1. ~HasChanges(n, s)
    BY <1>1 DEF IInv, DoneInv
  <2> QED
    BY <1>1, <2>1, HasChangesKept
<1>3. SyncedIsComplete'
  BY <1>1 DEF IInv, SyncedIsComplete, InternalImports, ExternalImports, PeersOfImports,
              Imports, Declared
<1>4. Mismatches' = Mismatches
  BY <1>1 DEF Mismatches, VersionIn
<1> QED
  BY <1>2, <1>3, <1>4

LEMMA RunKeeps ==
    ASSUME IInv, Start \/ Finish \/ Interrupt \/ UNCHANGED vars
    PROVE  IInv'
<1>1. UNCHANGED <<files, synced, edits>>
  BY DEF Start, Finish, Interrupt, vars
<1>2. DoneInv' /\ SyncedIsComplete' /\ Mismatches' = Mismatches
  BY <1>1, FilesKept
<1>3. /\ run' \in [on : BOOLEAN, strict : BOOLEAN, dry : BOOLEAN, check : BOOLEAN,
                   rest : Seq(Names)]
      /\ ~run'.on => run' = NoRun
      /\ verdict' \in {"none", "consistent", "mismatch"}
      /\ verdict' = "consistent" => Mismatches = {}
  <2>1. CASE Start
    <3>1. PICK strict \in BOOLEAN, dry \in BOOLEAN, check \in BOOLEAN,
               rest \in {Modules} \cup {<<m>> : m \in Names} :
            run' = [on |-> TRUE, strict |-> strict, dry |-> dry, check |-> check, rest |-> rest]
      BY <2>1 DEF Start
    <3>2. rest \in Seq(Names)
      BY ModuleNames
    <3> QED
      BY <2>1, <3>1, <3>2 DEF Start, IInv, TypeOK, CheckedInv
  <2>2. <<>> \in Seq(Names)
    OBVIOUS
  <2>3. CASE Finish \/ Interrupt
    <3>1. run' = NoRun
      BY <2>3 DEF Finish, Interrupt
    <3>2. NoRun \in [on : BOOLEAN, strict : BOOLEAN, dry : BOOLEAN, check : BOOLEAN,
                     rest : Seq(Names)]
      BY <2>2 DEF NoRun
    <3>3. /\ verdict' \in {"none", "consistent", "mismatch"}
          /\ verdict' = "consistent" => Mismatches = {}
      BY <2>3 DEF Finish, Interrupt, IInv, TypeOK, CheckedInv
    <3> QED
      BY <3>1, <3>2, <3>3
  <2>4. CASE UNCHANGED vars
    BY <2>4 DEF vars, IInv, TypeOK, CheckedInv
  <2> QED
    BY <2>1, <2>3, <2>4
<1>4. TypeOK'
  BY <1>1, <1>3 DEF files, IInv, TypeOK
<1>5. CheckedInv'
  BY <1>2, <1>3 DEF CheckedInv
<1> QED
  BY <1>2, <1>4, <1>5 DEF IInv

LEMMA InitIInv ==
    ASSUME Init
    PROVE  IInv
<1> USE Apart DEF Init
<1>1. Nothing \in Section /\ \A p \in Packages : Nothing[p] = Absent
  BY DEF Nothing, Section
<1>2. <<>> \in Seq(Names) /\ {} \in SUBSET Specifiers
  OBVIOUS
<1>3. TypeOK
  <2>1. NoRun \in [on : BOOLEAN, strict : BOOLEAN, dry : BOOLEAN, check : BOOLEAN,
                   rest : Seq(Names)]
    BY <1>2 DEF NoRun
  <2>2. 0 \in 0 .. MaxEdits /\ 0 \in 0 .. MaxManifestEdits
    BY PackageSyncAssumption
  <2> QED
    BY <1>1, <1>2, <2>1, <2>2 DEF TypeOK, NoRun, Declared
<1>4. DoneInv /\ SyncedIsComplete /\ CheckedInv
  BY DEF DoneInv, SyncedIsComplete, CheckedInv
<1> QED
  BY <1>3, <1>4 DEF IInv

-----------------------------------------------------------------------------
(* Theorems                                                                *)

LEMMA NextKeeps ==
    ASSUME IInv, [Next]_vars
    PROVE  IInv'
<1>1. CASE \E m \in Names : EditSource(m) \/ EditManifest(m)
  BY <1>1, EditKeeps
<1>2. CASE Sync
  BY <1>2, SyncKeeps
<1>3. CASE Start \/ Finish \/ Interrupt \/ UNCHANGED vars
  BY <1>3, RunKeeps
<1> QED
  BY <1>1, <1>2, <1>3 DEF Next

(* The invariant holds of every reachable state.                           *)
THEOREM SyncInvariant == Spec => []IInv
<1>1. Init => IInv
  BY InitIInv
<1>2. IInv /\ [Next]_vars => IInv'
  BY NextKeeps
<1> QED
  BY <1>1, <1>2, PTL DEF Spec

(* The script writes versions only, and never declares a module's own      *)
(* package.                                                                *)
THEOREM SyncTypeCorrect == Spec => []TypeOK
<1>1. IInv => TypeOK
  BY DEF IInv
<1> QED
  BY <1>1, SyncInvariant, PTL

(* After a module was synchronised, and until it is edited, its manifest   *)
(* declares all that it imports and what its imports want as peers, even   *)
(* if it was not written because no change was seen: updatePackageJson.    *)
THEOREM SyncCompletes == Spec => []SyncedIsComplete
<1>1. IInv => SyncedIsComplete
  BY DEF IInv
<1> QED
  BY <1>1, SyncInvariant, PTL

(* A set with two elements does not have cardinality 1 or less.            *)
LEMMA TwoElements ==
    ASSUME NEW S, IsFiniteSet(S), NEW a \in S, NEW b \in S, ~(Cardinality(S) > 1)
    PROVE  a = b
<1>1. Cardinality(S) \in Nat
  BY FS_CardinalityType
<1>2. S # {}
  OBVIOUS
<1>3. Cardinality(S) # 0
  BY <1>2, FS_EmptySet
<1>4. Cardinality(S) = 1
  BY <1>1, <1>3
<1>5. \E x : S = {x}
  BY <1>4, FS_Singleton
<1> QED
  BY <1>5

(* If no package was found with two versions then all that ask for one     *)
(* ask for the same, but for those that hide theirs from the check.        *)
LEMMA NoMismatchIsOne ==
    ASSUME Mismatches = {}, NEW m \in Names, NEW n \in Names, NEW p \in Packages \ Internal,
           NEW v \in Asked(m, p), NEW w \in Asked(n, p),
           \A k \in {m, n} : Declared(dev[k], p) => deps[k][p] \in {Absent, dev[k][p]}
    PROVE  v = w
<1> DEFINE Found == {VersionIn(k, p) : k \in Names}
<1>1. IsFiniteSet(Found)
  <2> DEFINE f == [k \in Names |-> VersionIn(k, p)]
  <2>1. f \in Surjection(Names, Found)
    BY DEF Surjection
  <2> QED
    BY <2>1, ModuleNames, FS_Surjection
<1>2. IsFiniteSet(Found \ {Absent, Any})
  <2> HIDE DEF Found
  <2> QED
    BY <1>1, FS_Subset
<1>3. ASSUME NEW k \in {m, n}, NEW x \in Asked(k, p)
      PROVE  x \in Found \ {Absent, Any}
  <2>1. x = VersionIn(k, p) /\ x \notin {Absent, Any}
    BY <1>3 DEF Asked, VersionIn, OrElse, Declared
  <2> QED
    BY <1>3, <2>1
<1>4. ~(Cardinality(Found \ {Absent, Any}) > 1)
  BY DEF Mismatches
<1> HIDE DEF Found
<1> QED
  BY <1>2, <1>3, <1>4, TwoElements

(* A check that reports no mismatch can be relied on until a manifest      *)
(* changes, through edits of sources and runs that write nothing new, but  *)
(* for modules that declare a package in both sections with different      *)
(* versions and for the wildcard: checkVersionMismatches.                  *)
THEOREM ConsistentIsOne == Spec => []ConsistentMeansOne
<1>1. ASSUME IInv
      PROVE  ConsistentMeansOne
  <2> SUFFICES ASSUME verdict = "consistent", NEW m \in Names, NEW n \in Names,
                      NEW p \in Packages \ Internal,
                      NEW v \in Asked(m, p), NEW w \in Asked(n, p),
                      \A k \in {m, n} : Declared(dev[k], p) => deps[k][p] \in {Absent, dev[k][p]}
               PROVE  v = w
    BY DEF ConsistentMeansOne
  <2>1. Mismatches = {}
    BY <1>1 DEF IInv, CheckedInv
  <2> QED
    BY <2>1, NoMismatchIsOne
<1> QED
  BY <1>1, SyncInvariant, PTL

(* A module that nobody edited is written once in each mode: a second run  *)
(* of updatePackageJson leaves dependencies and devDependencies alone.     *)
THEOREM SecondSyncQuiet == Spec => SecondRunIsQuiet
<1>1. ASSUME IInv, Sync, synced[Head(run.rest)] = Mode
      PROVE  deps' = deps /\ dev' = dev
  <2>1. PICK m \in Names, strict \in BOOLEAN :
          /\ m = Head(run.rest) /\ strict = run.strict
          /\ Mode = IF strict THEN "strict" ELSE "default"
          /\ source' = source /\ edits' = edits
          /\ verdict' = IF UNCHANGED <<deps, dev>> THEN verdict ELSE "none"
          /\ run' = [run EXCEPT !.rest = Tail(@)]
          /\ \/ UNCHANGED <<deps, dev, synced>>
             \/ /\ synced' = [synced EXCEPT ![m] = Mode]
                /\ ~HasChanges(m, strict) /\ UNCHANGED <<deps, dev>>
             \/ /\ synced' = [synced EXCEPT ![m] = Mode]
                /\ HasChanges(m, strict) /\ Write(m, strict)
    BY <1>1, SyncSteps DEF IInv
  <2>2. synced[m] # "no" /\ strict = (synced[m] = "strict")
    BY <1>1, <2>1
  <2>3. ~HasChanges(m, strict)
    BY <1>1, <2>2 DEF IInv, DoneInv
  <2> QED
    BY <2>1, <2>3
<1>2. IInv /\ [Next]_vars =>
        [Sync => LET m == Head(run.rest) IN
                 synced[m] = Mode => deps'[m] = deps[m] /\ dev'[m] = dev[m]]_vars
  BY <1>1
<1> QED
  BY <1>2, SyncInvariant, PTL DEF Spec, SecondRunIsQuiet

(* updatePackageJson takes nothing from the dependencies of a manifest and *)
(* changes no version, but for moving what is dev-only, for overwriting    *)
(* imported internal packages with the wildcard, and for what --strict     *)
(* drops; devDependencies are never dropped.                               *)
THEOREM SyncKeepsDeclared == Spec => DeclaredIsKept
<1>1. ASSUME IInv, Sync, NEW p \in Packages
      PROVE  LET m == Head(run.rest) IN
             /\ Declared(deps[m], p) =>
                  \/ deps'[m][p] = deps[m][p]
                  \/ p \in DevOnly /\ dev'[m][p] = deps[m][p]
                  \/ p \in InternalImports(m) /\ deps'[m][p] = Any
                  \/ /\ run.strict /\ p \notin KeepDeps[m] \ DevOnly
                     /\ p \notin InternalImports(m) \cup ExternalImports(m)
                                  \cup PeersOfImports(m)
             /\ Declared(dev[m], p) =>
                  \/ dev'[m][p] = dev[m][p]
                  \/ p \in DevOnly /\ Declared(deps[m], p) /\ dev'[m][p] = deps[m][p]
  <2>1. PICK m \in Names, strict \in BOOLEAN :
          /\ m = Head(run.rest) /\ strict = run.strict
          /\ \/ UNCHANGED <<deps, dev>>
             \/ Write(m, strict)
    BY <1>1, SyncSteps DEF IInv
  <2>2. Sections
    BY <1>1, TypesAre DEF IInv
  <2>3. /\ Declared(deps[m], p) =>
             \/ deps'[m][p] = deps[m][p]
             \/ p \in DevOnly /\ dev'[m][p] = deps[m][p]
             \/ p \in InternalImports(m) /\ deps'[m][p] = Any
             \/ /\ strict /\ p \notin KeepDeps[m] \ DevOnly
                /\ p \notin InternalImports(m) \cup ExternalImports(m)
                             \cup PeersOfImports(m)
        /\ Declared(dev[m], p) =>
             \/ dev'[m][p] = dev[m][p]
             \/ p \in DevOnly /\ Declared(deps[m], p) /\ dev'[m][p] = deps[m][p]
    <3>1. CASE UNCHANGED <<deps, dev>>
      BY <3>1
    <3>2. CASE Write(m, strict)
      BY <2>2, <3>2, WrittenKeeps
    <3> QED
      BY <2>1, <3>1, <3>2
  <2> QED
    BY <2>1, <2>3
<1>2. IInv /\ [Next]_vars =>
        [Sync => LET m == Head(run.rest) IN \A p \in Packages :
                 /\ Declared(deps[m], p) =>
                      \/ deps'[m][p] = deps[m][p]
                      \/ p \in DevOnly /\ dev'[m][p] = deps[m][p]
                      \/ p \in InternalImports(m) /\ deps'[m][p] = Any
                      \/ /\ run.strict /\ p \notin KeepDeps[m] \ DevOnly
                         /\ p \notin InternalImports(m) \cup ExternalImports(m)
                                      \cup PeersOfImports(m)
                 /\ Declared(dev[m], p) =>
                      \/ dev'[m][p] = dev[m][p]
                      \/ p \in DevOnly /\ Declared(deps[m], p) /\ dev'[m][p] = deps[m][p]]_vars
  BY <1>1
<1> QED
  BY <1>2, SyncInvariant, PTL DEF Spec, DeclaredIsKept
=============================================================================
