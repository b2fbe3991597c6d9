---------------------------- MODULE ArgoCDDeepCopy ----------------------------
(***************************************************************************)
(* The generated deep copy of the ArgoCD custom resource                   *)
(* (api/v1alpha1/zz_generated.deepcopy.go) and the types it is generated    *)
(* for (api/v1alpha1/argocd_types.go).                                      *)
(*                                                                         *)
(* Each DeepCopyInto begins with *out = *in, which copies every field and   *)
(* so shares every pointer, slice and map with the original, and then      *)
(* gives each such field of the copy storage of its own:                   *)
(*   ptr     if in.X != nil { *out = new(T); ( *in).DeepCopyInto( *out) }     *)
(*   ptrval  if in.X != nil { *out = new(T); **out = **in }                 *)
(*   slice   if in.X != nil { *out = make([]T, len( *in)); copy( *out, *in) } *)
(*   map     if in.X != nil { *out = make(map..); for k, v := range ... }    *)
(*   struct  in.X.DeepCopyInto(&out.X)                                      *)
(*   assign  out.X = in.X                                                   *)
(* A copy plan lists these blocks of one function, in the code's order.    *)
(*                                                                         *)
(* Objects live on a heap.  An address is a sequence: <<"orig">> followed  *)
(* by a path for the cached object and what it points to, <<"copy">>       *)
(* followed by a path for what the deep copy allocates, and <<>> for nil.  *)
(* The cached object is shaped by the types of argocd_types.go, not by    *)
(* the copy plans: a struct is a function from its declared pointer,       *)
(* slice, map and struct fields and "plain" (all its other fields, copied  *)
(* by *out = *in) to entries: an address, a nested struct, or a leaf       *)
(* [leaf |-> d].  Types not declared in argocd_types.go (those of k8s.io,  *)
(* ArgoCDStatus, ArgoCDIngressSpec, ArgoCDRouteSpec, ...) are leaves, and  *)
(* their deep copies are taken to be deep.                                 *)
(*                                                                         *)
(* The generated file is stale (see DeepCopyMatchesTypes): a copy block    *)
(* for a field the type does not declare, or declares with another shape, *)
(* does not compile.  Such fields are left out of the object, and their    *)
(* blocks with them; every other declared field is built, whether or not   *)
(* a block copies it.                                                      *)
(*                                                                         *)
(* The non-nil pointers, slices and maps of the cached object lie on at    *)
(* most MaxChains paths from its root; the reconciler deep-copies it and   *)
(* then writes through the copy.                                           *)
(***************************************************************************)
EXTENDS Naturals, Sequences, FiniteSets, SequencesExt, TLC

CONSTANTS
    MaxChains,      \* bound on the chains of non-nil pointers, slices and maps
    MaxWrites       \* bound on the reconciler's writes through the copy

ASSUME DeepCopyBoundsAssumption == MaxChains \in Nat /\ MaxWrites \in Nat

Addr(q) == [addr |-> q]
Nil == Addr(<<>>)

(* The copy plans of the generated DeepCopyInto functions.                  *)
PlanArgoCD ==
    << <<"TypeMeta", "assign", "TypeMeta">>,
       <<"ObjectMeta", "struct", "ObjectMeta">>,
       <<"Spec", "struct", "ArgoCDSpec">>,
       <<"Status", "assign", "ArgoCDStatus">> >>

PlanApplicationSet ==
    << <<"Resources", "ptr", "ResourceRequirements">>,
       <<"WebhookServer", "struct", "WebhookServerSpec">> >>

PlanDex ==
    << <<"Groups", "slice", "string">>,
       <<"Resources", "ptr", "ResourceRequirements">> >>

PlanHA == << <<"Resources", "ptr", "ResourceRequirements">> >>

PlanImport == << <<"Namespace", "ptrval", "string">> >>

PlanKeycloak ==
    << <<"Resources", "ptr", "ResourceRequirements">>,
       <<"VerifyTLS", "ptrval", "bool">> >>

PlanRedis == << <<"Resources", "ptr", "ResourceRequirements">> >>

PlanSSO ==
    << <<"Resources", "ptr", "ResourceRequirements">>,
       <<"VerifyTLS", "ptrval", "bool">>,
       <<"Dex", "ptr", "ArgoCDDexSpec">>,
       <<"Keycloak", "ptr", "ArgoCDKeycloakSpec">> >>

PlanSpec ==
    << <<"ApplicationSet", "ptr", "ArgoCDApplicationSet">>,
       <<"Controller", "struct", "ArgoCDApplicationControllerSpec">>,
       <<"Dex", "ptr", "ArgoCDDexSpec">>,
       <<"ExtraConfig", "map", "string">>,
       <<"Grafana", "struct", "ArgoCDGrafanaSpec">>,
       <<"HA", "struct", "ArgoCDHASpec">>,
       <<"Import", "ptr", "ArgoCDImportSpec">>,
       <<"InitialSSHKnownHosts", "assign", "SSHHostsSpec">>,
       <<"KustomizeVersions", "slice", "KustomizeVersionSpec">>,
       <<"NodePlacement", "ptr", "ArgoCDNodePlacementSpec">>,
       <<"Notifications", "struct", "ArgoCDNotifications">>,
       <<"Prometheus", "struct", "ArgoCDPrometheusSpec">>,
       <<"RBAC", "struct", "ArgoCDRBACSpec">>,
       <<"Redis", "struct", "ArgoCDRedisSpec">>,
       <<"Repo", "struct", "ArgoCDRepoSpec">>,
       <<"ResourceHealthChecks", "slice", "ResourceHealthCheck">>,
       <<"ResourceIgnoreDifferences", "slice", "ResourceIgnoreDifference">>,
       <<"ResourceActions", "slice", "ResourceAction">>,
       <<"Server", "struct", "ArgoCDServerSpec">>,
       <<"SSO", "ptr", "ArgoCDSSOSpec">>,
       <<"TLS", "struct", "ArgoCDTLSSpec">>,
       <<"Banner", "ptrval", "Banner">> >>

PlanTLS ==
    << <<"CA", "assign", "ArgoCDCASpec">>,
       <<"InitialCerts", "map", "string">> >>

PlanController ==
    << <<"Processors", "assign", "ArgoCDApplicationControllerProcessorsSpec">>,
       <<"Resources", "ptr", "ResourceRequirements">>,
       <<"AppSync", "ptrval", "Duration">>,
       <<"Sharding", "assign", "ArgoCDApplicationControllerShardSpec">>,
       <<"Env", "sliceeach", "EnvVar">> >>

PlanGrafana ==
    << <<"Ingress", "struct", "ArgoCDIngressSpec">>,
       <<"Resources", "ptr", "ResourceRequirements">>,
       <<"Route", "struct", "ArgoCDRouteSpec">>,
       <<"Size", "ptrval", "int32">> >>

PlanNotifications ==
    << <<"Replicas", "ptrval", "int32">>,
       <<"Env", "sliceeach", "EnvVar">>,
       <<"Resources", "ptr", "ResourceRequirements">> >>

PlanPrometheus ==
    << <<"Ingress", "struct", "ArgoCDIngressSpec">>,
       <<"Route", "struct", "ArgoCDRouteSpec">>,
       <<"Size", "ptrval", "int32">> >>

\* Mutant: the block of the Policy pointer left out.
PlanRBACWithoutPolicy ==
    << <<"DefaultPolicy", "ptrval", "string">>,
       <<"Scopes", "ptrval", "string">>,
       <<"PolicyMatcherMode", "ptrval", "string">> >>

PlanRBAC ==
    << <<"DefaultPolicy", "ptrval", "string">>,
       <<"Policy", "ptrval", "string">>,
       <<"Scopes", "ptrval", "string">>,
       <<"PolicyMatcherMode", "ptrval", "string">> >>

PlanRepo ==
    << <<"Replicas", "ptrval", "int32">>,
       <<"Resources", "ptr", "ResourceRequirements">>,
       <<"ExecTimeout", "ptrval", "int">>,
       <<"Env", "sliceeach", "EnvVar">>,
       <<"Volumes", "sliceeach", "Volume">>,
       <<"VolumeMounts", "sliceeach", "VolumeMount">>,
       <<"InitContainers", "sliceeach", "Container">>,
       <<"SidecarContainers", "sliceeach", "Container">> >>

\* Mutant: the block of the Resources pointer left out.
PlanServerWithoutResources ==
    << <<"Autoscale", "struct", "ArgoCDServerAutoscaleSpec">>,
       <<"GRPC", "struct", "ArgoCDServerGRPCSpec">>,
       <<"Ingress", "struct", "ArgoCDIngressSpec">>,
       <<"Replicas", "ptrval", "int32">>,
       <<"Route", "struct", "ArgoCDRouteSpec">>,
       <<"Service", "assign", "ArgoCDServerServiceSpec">>,
       <<"Env", "sliceeach", "EnvVar">>,
       <<"ExtraCommandArgs", "slice", "string">> >>

PlanServer ==
    << <<"Autoscale", "struct", "ArgoCDServerAutoscaleSpec">>,
       <<"GRPC", "struct", "ArgoCDServerGRPCSpec">>,
       <<"Ingress", "struct", "ArgoCDIngressSpec">>,
       <<"Replicas", "ptrval", "int32">>,
       <<"Resources", "ptr", "ResourceRequirements">>,
       <<"Route", "struct", "ArgoCDRouteSpec">>,
       <<"Service", "assign", "ArgoCDServerServiceSpec">>,
       <<"Env", "sliceeach", "EnvVar">>,
       <<"ExtraCommandArgs", "slice", "string">> >>

Plan ==
    [ArgoCD |-> PlanArgoCD, ArgoCDSpec |-> PlanSpec,
     ArgoCDApplicationSet |-> PlanApplicationSet, ArgoCDDexSpec |-> PlanDex,
     ArgoCDHASpec |-> PlanHA, ArgoCDImportSpec |-> PlanImport,
     ArgoCDKeycloakSpec |-> PlanKeycloak, ArgoCDRedisSpec |-> PlanRedis,
     ArgoCDSSOSpec |-> PlanSSO, ArgoCDTLSSpec |-> PlanTLS,
     ArgoCDApplicationControllerSpec |-> PlanController,
     ArgoCDGrafanaSpec |-> PlanGrafana, ArgoCDNotifications |-> PlanNotifications,
     ArgoCDPrometheusSpec |-> PlanPrometheus, ArgoCDRBACSpec |-> PlanRBAC,
     ArgoCDRepoSpec |-> PlanRepo, ArgoCDServerSpec |-> PlanServer]

Modelled == DOMAIN Plan

(* The fields of the types in argocd_types.go that are not plain values,   *)
(* with their shape ("pointer", "slice", "map" or "struct") and the type   *)
(* they hold or point to.                                                  *)
DeclaredArgoCD ==
    {<<"TypeMeta", "struct", "TypeMeta">>, <<"ObjectMeta", "struct", "ObjectMeta">>,
     <<"Spec", "struct", "ArgoCDSpec">>, <<"Status", "struct", "ArgoCDStatus">>}

DeclaredApplicationSet == {<<"Resources", "pointer", "ResourceRequirements">>}

DeclaredDex == {<<"Resources", "pointer", "ResourceRequirements">>}

DeclaredHA == {<<"Resources", "pointer", "ResourceRequirements">>}

DeclaredImport == {<<"Namespace", "pointer", "string">>}

DeclaredRedis == {<<"Resources", "pointer", "ResourceRequirements">>}

DeclaredSSO ==
    {<<"Resources", "pointer", "ResourceRequirements">>, <<"VerifyTLS", "pointer", "bool">>}

DeclaredSpec ==
    {<<"ApplicationSet", "pointer", "ArgoCDApplicationSet">>,
     <<"Controller", "struct", "ArgoCDApplicationControllerSpec">>,
     <<"Dex", "struct", "ArgoCDDexSpec">>, <<"Grafana", "struct", "ArgoCDGrafanaSpec">>,
     <<"HA", "struct", "ArgoCDHASpec">>, <<"Import", "pointer", "ArgoCDImportSpec">>,
     <<"InitialSSHKnownHosts", "struct", "SSHHostsSpec">>,
     <<"KustomizeVersions", "slice", "KustomizeVersionSpec">>,
     <<"Prometheus", "struct", "ArgoCDPrometheusSpec">>,
     <<"RBAC", "struct", "ArgoCDRBACSpec">>, <<"Redis", "struct", "ArgoCDRedisSpec">>,
     <<"Repo", "struct", "ArgoCDRepoSpec">>, <<"Server", "struct", "ArgoCDServerSpec">>,
     <<"SSO", "pointer", "ArgoCDSSOSpec">>, <<"TLS", "struct", "ArgoCDTLSSpec">>}

DeclaredTLS == {<<"CA", "struct", "ArgoCDCASpec">>, <<"InitialCerts", "map", "string">>}

DeclaredController ==
    {<<"Processors", "struct", "ArgoCDApplicationControllerProcessorsSpec">>,
     <<"Resources", "pointer", "ResourceRequirements">>,
     <<"AppSync", "pointer", "Duration">>,
     <<"Sharding", "struct", "ArgoCDApplicationControllerShardSpec">>}

DeclaredGrafana ==
    {<<"Ingress", "struct", "ArgoCDIngressSpec">>,
     <<"Resources", "pointer", "ResourceRequirements">>,
     <<"Route", "struct", "ArgoCDRouteSpec">>, <<"Size", "pointer", "int32">>}

DeclaredPrometheus ==
    {<<"Ingress", "struct", "ArgoCDIngressSpec">>, <<"Route", "struct", "ArgoCDRouteSpec">>,
     <<"Size", "pointer", "int32">>}

DeclaredRBAC ==
    {<<"DefaultPolicy", "pointer", "string">>, <<"Policy", "pointer", "string">>,
     <<"Scopes", "pointer", "string">>}

DeclaredRepo == {<<"Resources", "pointer", "ResourceRequirements">>}

DeclaredServer ==
    {<<"Autoscale", "struct", "ArgoCDServerAutoscaleSpec">>,
     <<"GRPC", "struct", "ArgoCDServerGRPCSpec">>,
     <<"Ingress", "struct", "ArgoCDIngressSpec">>,
     <<"Resources", "pointer", "ResourceRequirements">>,
     <<"Route", "struct", "ArgoCDRouteSpec">>,
     <<"Service", "struct", "ArgoCDServerServiceSpec">>}

\* There is no ArgoCDKeycloakSpec and no ArgoCDNotifications type.
Declared ==
    [ArgoCD |-> DeclaredArgoCD, ArgoCDSpec |-> DeclaredSpec,
     ArgoCDApplicationSet |-> DeclaredApplicationSet, ArgoCDDexSpec |-> DeclaredDex,
     ArgoCDHASpec |-> DeclaredHA, ArgoCDImportSpec |-> DeclaredImport,
     ArgoCDRedisSpec |-> DeclaredRedis, ArgoCDSSOSpec |-> DeclaredSSO,
     ArgoCDTLSSpec |-> DeclaredTLS,
     ArgoCDApplicationControllerSpec |-> DeclaredController,
     ArgoCDGrafanaSpec |-> DeclaredGrafana, ArgoCDPrometheusSpec |-> DeclaredPrometheus,
     ArgoCDRBACSpec |-> DeclaredRBAC, ArgoCDRepoSpec |-> DeclaredRepo,
     ArgoCDServerSpec |-> DeclaredServer]

Types == DOMAIN Declared

\* The shape of the field a copy block handles.
Shape(k) ==
    CASE k \in {"ptr", "ptrval"}      -> "pointer"
      [] k \in {"struct", "assign"}   -> "struct"
      [] k \in {"slice", "sliceeach"} -> "slice"
      [] k = "map"                    -> "map"

\* The fields a deep copy allocates storage for when they are not nil.
PtrKinds == {"ptr", "ptrval", "slice", "sliceeach", "map"}

\* The copy blocks of type T's DeepCopyInto, as a set.
PlanEntries(T) == {Plan[T][j] : j \in DOMAIN Plan[T]}

\* The declared fields of T that a T has in the model: those whose copy
\* block, if there is one, copies a field of the declared shape.
Fields(T) ==
    {d \in Declared[T] : \A e \in PlanEntries(T) : e[1] = d[1] => Shape(e[2]) = d[2]}

OrigAddr(q) == Addr(<<"orig">> \o q)
CopyAddr(q) == Addr(<<"copy">> \o q)
Root == OrigAddr(<<>>)
CopyRoot == CopyAddr(<<>>)

Leaf(d) == [leaf |-> d]
IsLeaf(x) == "leaf" \in DOMAIN x
IsStruct(x) == "plain" \in DOMAIN x
IsAddr(x) == "addr" \in DOMAIN x

-----------------------------------------------------------------------------
(* The cached object.                                                       *)

\* Every pointer, slice or map reachable in a T at path p, with its declared
\* field and the type whose field it is.
RECURSIVE PtrEntries(_, _)
PtrEntries(T, p) ==
    UNION {LET q == p \o <<d[1]>> IN
             (IF d[2] = "struct" THEN {} ELSE {<<q, d, T>>}) \cup
             (IF d[2] \in {"struct", "pointer"} /\ d[3] \in Types
              THEN PtrEntries(d[3], q) ELSE {})
           : d \in Fields(T)}

AllPtrEntries == PtrEntries("ArgoCD", <<>>)
AllPtrPaths == {x[1] : x \in AllPtrEntries}
EntryAt(q) == (CHOOSE x \in AllPtrEntries : x[1] = q)[2]

\* Which pointers are non-nil: those on the way to at most MaxChains chosen
\* ones (a pointer inside a struct that is pointed to is only there when
\* that pointer is).
Closure(T) == {r \in AllPtrPaths : \E q \in T : IsPrefix(r, q)}

Inputs == {{}} \cup {Closure(Range(c)) : c \in [1..MaxChains -> AllPtrPaths]}

\* A T at path p of the cached object whose non-nil pointers are S.
RECURSIVE Build(_, _, _)
Build(T, p, S) ==
    [f \in {"plain"} \cup {d[1] : d \in Fields(T)} |->
        IF f = "plain" THEN Leaf("v")
        ELSE LET d == CHOOSE x \in Fields(T) : x[1] = f
                 q == p \o <<f>>
             IN  IF d[2] # "struct" THEN (IF q \in S THEN OrigAddr(q) ELSE Nil)
                 ELSE IF d[3] \in Types THEN Build(d[3], q, S)
                 ELSE Leaf("v")]

OrigHeap(S) ==
    [a \in {Root} \cup {OrigAddr(q) : q \in S} |->
        IF a = Root THEN Build("ArgoCD", <<>>, S)
        ELSE LET d == EntryAt(Tail(a.addr))
             IN  IF d[2] = "pointer" /\ d[3] \in Types THEN Build(d[3], Tail(a.addr), S)
                 ELSE Leaf("v")]

-----------------------------------------------------------------------------
(* The deep copy.  A copy in progress is [val |-> the struct being filled,  *)
(* heap |-> the storage allocated so far]; v is the struct copied from, p   *)
(* the path of the copy, h the heap.                                        *)

EmptyHeap == [a \in {} |-> Nil]

\* *out = new(T) for the field of block e, holding cell.
Allocate(e, acc, p, cell) ==
    LET a == CopyAddr(p \o <<e[1]>>)
    IN  [val |-> [acc.val EXCEPT ![e[1]] = a], heap |-> acc.heap @@ (a :> cell)]

RECURSIVE CopyInto(_, _, _, _), CopyFrom(_, _, _, _, _, _),
          CopyBlock(_, _, _, _, _), CopyPtr(_, _, _, _, _), CopyStruct(_, _, _, _, _)

\* if in.X != nil { *out = new(T); ( *in).DeepCopyInto( *out) }
CopyPtr(e, acc, v, p, h) ==
    IF v[e[1]] = Nil THEN acc
    ELSE LET in == h[v[e[1]]]
             r  == IF e[3] \in Modelled THEN CopyInto(e[3], in, p \o <<e[1]>>, h)
                   ELSE [val |-> in, heap |-> EmptyHeap]
             n  == Allocate(e, acc, p, r.val)
         IN  [n EXCEPT !.heap = @ @@ r.heap]

\* if in.X != nil { *out = new(T); **out = **in }
CopyPtrVal(e, acc, v, p, h) ==
    IF v[e[1]] = Nil THEN acc ELSE Allocate(e, acc, p, h[v[e[1]]])

\* if in.X != nil { *out = make([]T, len( *in)); copy( *out, *in) }
CopySlice(e, acc, v, p, h) ==
    IF v[e[1]] = Nil THEN acc ELSE Allocate(e, acc, p, h[v[e[1]]])

\* if in.X != nil { *out = make([]T, len( *in)); for i := range *in {
\* ( *in)[i].DeepCopyInto(&( *out)[i]) } }, the elements' copy taken as deep.
CopySliceEach(e, acc, v, p, h) ==
    IF v[e[1]] = Nil THEN acc ELSE Allocate(e, acc, p, h[v[e[1]]])

\* if in.X != nil { *out = make(map[K]V, len( *in)); for key, val := range
\* *in { ( *out)[key] = val } }
CopyMap(e, acc, v, p, h) ==
    IF v[e[1]] = Nil THEN acc ELSE Allocate(e, acc, p, h[v[e[1]]])

\* in.X.DeepCopyInto(&out.X); the copy of a type outside the model is
\* taken to be deep.
CopyStruct(e, acc, v, p, h) ==
    IF e[3] \in Modelled
    THEN LET r == CopyInto(e[3], v[e[1]], p \o <<e[1]>>, h)
         IN  [val |-> [acc.val EXCEPT ![e[1]] = r.val], heap |-> acc.heap @@ r.heap]
    ELSE acc

\* A block for a field the object does not have is left out with it.
CopyBlock(e, acc, v, p, h) ==
    IF e[1] \notin DOMAIN v THEN acc
    ELSE CASE e[2] = "ptr"       -> CopyPtr(e, acc, v, p, h)
           [] e[2] = "ptrval"    -> CopyPtrVal(e, acc, v, p, h)
           [] e[2] = "slice"     -> CopySlice(e, acc, v, p, h)
           [] e[2] = "sliceeach" -> CopySliceEach(e, acc, v, p, h)
           [] e[2] = "map"       -> CopyMap(e, acc, v, p, h)
           [] e[2] = "struct"    -> CopyStruct(e, acc, v, p, h)
           [] e[2] = "assign"    -> acc

\* The blocks of T's DeepCopyInto from the j-th on.
CopyFrom(T, v, p, h, j, acc) ==
    IF j > Len(Plan[T]) THEN acc
    ELSE CopyFrom(T, v, p, h, j + 1, CopyBlock(Plan[T][j], acc, v, p, h))

\* ( *T).DeepCopyInto: *out = *in, then the blocks in order.
CopyInto(T, v, p, h) == CopyFrom(T, v, p, h, 1, [val |-> v, heap |-> EmptyHeap])

-----------------------------------------------------------------------------
(* Reading the heap.                                                        *)

\* The addresses a struct or leaf holds, nested structs included.
RECURSIVE AddrsIn(_)
AddrsIn(x) ==
    IF IsLeaf(x) THEN {}
    ELSE UNION {IF IsAddr(x[f]) THEN {x[f]} \ {Nil} ELSE AddrsIn(x[f]) : f \in DOMAIN x}

\* The storage reachable from address a.
RECURSIVE Reach(_, _)
Reach(h, a) == {a} \cup UNION {Reach(h, b) : b \in AddrsIn(h[a])}

\* The value at a with every pointer followed: what a reader of it sees.
RECURSIVE TreeOf(_, _)
TreeOf(h, x) ==
    CASE IsLeaf(x) -> x
      [] IsAddr(x) -> IF x = Nil THEN Leaf("nil") ELSE TreeOf(h, h[x])
      [] OTHER     -> [f \in DOMAIN x |-> TreeOf(h, x[f])]

-----------------------------------------------------------------------------
VARIABLES
    heap,           \* the cached object, and the copy once it is made
    present,        \* the non-nil pointers, slices and maps of the cached object
    pc,             \* "cached" before the deep copy, "copied" after it
    writes          \* writes made through the copy

vars == <<heap, present, pc, writes>>

Init ==
    /\ present \in Inputs
    /\ heap = OrigHeap(present)
    /\ pc = "cached"
    /\ writes = 0

\* ArgoCD.DeepCopy (and DeepCopyObject): out := new(ArgoCD), then
\* in.DeepCopyInto(out).
DeepCopy ==
    /\ pc = "cached"
    /\ LET r == CopyInto("ArgoCD", heap[Root], <<>>, heap)
       IN  heap' = heap @@ r.heap @@ (CopyRoot :> r.val)
    /\ pc' = "copied"
    /\ UNCHANGED <<present, writes>>

\* The reconciler sets a field of something reachable from its copy.
WriteThroughCopy ==
    /\ pc = "copied"
    /\ writes < MaxWrites
    /\ \E a \in Reach(heap, CopyRoot) :
          heap' = [heap EXCEPT ![a] = IF IsLeaf(@) THEN Leaf("w")
                                      ELSE [@ EXCEPT !["plain"] = Leaf("w")]]
    /\ writes' = writes + 1
    /\ UNCHANGED <<present, pc>>

Next == DeepCopy \/ WriteThroughCopy

Spec == Init /\ [][Next]_vars

-----------------------------------------------------------------------------
(* Properties.                                                              *)

(***************************************************************************)
(* A fresh deep copy reads exactly as the cached object and shares no      *)
(* storage with it: every pointer, slice and map of every nested struct    *)
(* was given storage of its own and filled.                                *)
(***************************************************************************)
DeepCopyIsDeep ==
    pc = "copied" /\ writes = 0 =>
        /\ TreeOf(heap, CopyRoot) = TreeOf(heap, Root)
        /\ Reach(heap, CopyRoot) \cap Reach(heap, Root) = {}

(***************************************************************************)
(* Whatever the reconciler writes through its deep copy, the object in the *)
(* informer cache still reads as it was stored.                            *)
(***************************************************************************)
CacheUntouched == TreeOf(heap, Root) = TreeOf(OrigHeap(present), Root)

(***************************************************************************)
(* The generated code matches the types it belongs to: each DeepCopyInto   *)
(* the reconciler's deep copy ran has a block for a field of its type, of  *)
(* the declared shape, for each of its blocks, and one for each declared   *)
(* pointer, slice and map (one left to *out = *in would be shared).  The   *)
(* file says "Code generated by controller-gen. DO NOT EDIT.": it is meant *)
(* to be regenerated from the types.                                       *)
(***************************************************************************)
DeepCopyMatchesTypes ==
    pc = "copied" =>
        \A T \in Modelled :
            /\ T \in Types
            /\ \A e \in PlanEntries(T) : \E d \in Declared[T] :
                  d[1] = e[1] /\ d[2] = Shape(e[2])
            /\ \A d \in Declared[T] :
                  d[2] # "struct" => \E e \in PlanEntries(T) : e[1] = d[1]

=============================================================================
