---------------------------- MODULE MCPackageSync ----------------------------
(* Two modules that may import the first one, a package with a peer, and a *)
(* dev-only package.                                                       *)
EXTENDS PackageSync

Packages_ == {"lib", "app", "pkg", "peer", "swc"}

SpecifierPackages ==
    [x \in {"@optimex-pmm/app/x", "pkg/sub", "@swc/core"} |->
        CASE x = "@optimex-pmm/app/x" -> "app"
          [] x = "pkg/sub" -> "pkg"
          [] x = "@swc/core" -> "swc"]

Order == <<"app", "lib">>

NamesOf == [m \in {"app", "lib"} |-> m]

Keeps == [m \in {"app", "lib"} |-> IF m = "app" THEN {"peer"} ELSE {"swc"}]

Peers == [p \in Packages_ |-> IF p = "pkg" THEN {"peer", "lib", "swc"} ELSE {}]

KnownVersions ==
    [p \in Packages_ |-> IF p \in Packages_ \ {"lib", "app"} THEN "1" ELSE Absent]
=============================================================================
