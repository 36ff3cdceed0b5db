-------------------------- MODULE Platform_proofs --------------------------
(***************************************************************************)
(* Dispatch on a platform's mux, for any bases, any generated interfaces,  *)
(* any path arguments and any number of registrations.  What is proved     *)
(* from the hypothesis Apart alone is said of the bases and interfaces it  *)
(* describes, among them all the generated ones (see MCPlatform).          *)
(***************************************************************************)
EXTENDS Platform, TLAPS

\* No two routes of the table compete for a request.
NoConflict ==
    \A r, s \in table :
        r.method = s.method /\ Conflict(r.pattern, s.pattern) => r = s

IInv == TypeOK /\ NoConflict

-----------------------------------------------------------------------------
(* The mux.                                                                *)

\* Of two patterns that conflict it does not matter which is registered first.
LEMMA ConflictSymmetric ==
    ASSUME NEW p, NEW q, Conflict(p, q)
    PROVE  Conflict(q, p)
  BY DEF Conflict, Overlap

\* Two patterns that match one path and each other compete for it.
LEMMA EquallySpecific ==
    ASSUME NEW p, NEW q, Matches(p, q), Matches(q, p)
    PROVE  Conflict(p, q)
  BY DEF Conflict, Overlap, Matches

\* Where no patterns conflict, at most one is the most specific for a path.
LEMMA ServedOnce ==
    ASSUME NoConflict, NEW method, NEW path
    PROVE  \A r, s \in Serving(table, method, path) : r = s
  <1> SUFFICES ASSUME NEW r \in Serving(table, method, path),
                      NEW s \in Serving(table, method, path)
               PROVE  r = s
    OBVIOUS
  <1>1. r \in table /\ s \in table /\ r.method = s.method
    BY DEF Serving, Candidates
  <1>2. Matches(r.pattern, s.pattern) /\ Matches(s.pattern, r.pattern)
    BY DEF Serving
  <1>3. Conflict(r.pattern, s.pattern)
    BY <1>2, EquallySpecific
  <1> QED BY <1>1, <1>3 DEF NoConflict

-----------------------------------------------------------------------------
(* Registration.                                                           *)

\* Sequences of one and of two.
LEMMA ShortSequences ==
    /\ \A S : \A x \in S : <<x>> \in Seq(S)
    /\ \A S : \A x, y \in S : <<x, y>> \in Seq(S)
  OBVIOUS

\* The routes of handshake.Mount are an interface.
LEMMA HandshakeTyped == Handshake \in InterfaceRecords
  <1>1. \A n \in Words, path \in Seq(Words \cup PathParams) :
            Get(n, path) \in Operations /\ Ask("POST", n, path) \in Operations
    BY DEF Get, Ask, Operation, Operations
  <1>2. "{version}" \in PathParams
    BY DEF PathParams
  <1> DEFINE versions == Get("GetVersions", <<"versions">>)
             details  == Get("GetDetails", <<"{version}">>)
             post     == Ask("POST", "PostCredentials", <<"{version}", "credentials">>)
  <1>3. versions \in Operations /\ details \in Operations /\ post \in Operations
    <2> DEFINE S == Words \cup PathParams
    <2>1. "versions" \in S /\ "{version}" \in S /\ "credentials" \in S
      BY <1>2, WordsAssumption
    <2> HIDE DEF S
    <2>2. <<"versions">> \in Seq(S) /\ <<"{version}">> \in Seq(S)
      BY <2>1, ShortSequences
    <2>3. <<"{version}", "credentials">> \in Seq(S)
      BY <2>1, ShortSequences
    <2> USE DEF S
    <2>4. /\ "GetVersions" \in Words
          /\ "GetDetails" \in Words
          /\ "PostCredentials" \in Words
      BY WordsAssumption
    <2>5. versions \in Operations
      BY <1>1, <2>2, <2>4
    <2>6. details \in Operations
      BY <1>1, <2>2, <2>4
    <2>7. post \in Operations
      BY <1>1, <2>3, <2>4
    <2> QED BY <2>5, <2>6, <2>7
  <1>4. HandshakeOps \in Seq(Operations)
    <2>1. HandshakeOps = <<versions, details, post>>
      BY DEF HandshakeOps
    <2> HIDE DEF versions, details, post
    <2> QED BY <1>3, <2>1
  <1> QED BY <1>4, WordsAssumption DEF Handshake, Interface, InterfaceRecords

\* An interface mounted at a base is one on the mux.
LEMMA MountsTyped ==
    /\ \A base \in Bases : Mount(base, Handshake) \in MountRecords
    /\ \A base \in Bases, i \in Interfaces :
            Mount(Append(base, i.module), i) \in MountRecords
  <1>1. \A path \in Seq(Words), i \in InterfaceRecords : Mount(path, i) \in MountRecords
    BY DEF Mount, MountRecords, InterfaceRecords
  <1>2. \A i \in InterfaceRecords : i.module \in Words
    BY DEF InterfaceRecords
  <1>3. \A base \in Bases, i \in Interfaces : Append(base, i.module) \in Seq(Words)
    BY <1>2, InterfacesAssumption
  <1> QED BY <1>1, <1>3, HandshakeTyped, InterfacesAssumption

\* A route is its operation at the path it was mounted at.
LEMMA RouteFields ==
    \A m, op : /\ Route(m, op).mount = m
               /\ Route(m, op).op = op
               /\ Route(m, op).method = op.method
               /\ Route(m, op).pattern = m.path \o op.path
  BY DEF Route

\* Registering one interface keeps the invariant.
LEMMA RegisterAtPreserves ==
    ASSUME IInv, NEW mount \in MountRecords, RegisterAt(mount)
    PROVE  IInv'
  <1> DEFINE routes     == RoutesOf(mount)
             upTo(n)    == table \cup {routes[i] : i \in 1 .. n}
             accepts(n) == CanHandle(upTo(n - 1), routes[n])
  <1>1. /\ Len(mounts) < MaxRegistrations
        /\ \/ /\ \A n \in 1 .. Len(routes) : accepts(n)
              /\ table' = upTo(Len(routes))
              /\ mounts' = Append(mounts, mount)
              /\ UNCHANGED failed
           \/ \E n \in 1 .. Len(routes) :
                /\ \A k \in 1 .. n - 1 : accepts(k)
                /\ table' = upTo(n - 1)
                /\ failed' = {routes[n]}
                /\ UNCHANGED mounts
    BY DEF RegisterAt
  <1>2. mount.ops \in Seq(Operations) /\ Len(mount.ops) \in Nat
    BY DEF MountRecords
  <1>3. /\ Len(routes) = Len(mount.ops)
        /\ \A i \in 1 .. Len(routes) : routes[i] = Route(mount, mount.ops[i])
    BY <1>2 DEF RoutesOf
  <1>4. \A i \in 1 .. Len(routes) :
            routes[i].mount = mount /\ routes[i] = Route(routes[i].mount, routes[i].op)
    <2> SUFFICES ASSUME NEW i \in 1 .. Len(routes)
                 PROVE  routes[i].mount = mount /\ routes[i] = Route(routes[i].mount, routes[i].op)
      OBVIOUS
    <2>1. routes[i] = Route(mount, mount.ops[i])
      BY <1>3
    <2> HIDE DEF routes
    <2>2. routes[i].mount = mount /\ routes[i].op = mount.ops[i]
      BY <2>1, RouteFields
    <2> QED BY <2>1, <2>2
  <1>5. ASSUME NEW n \in 1 .. Len(routes), accepts(n), NEW r \in upTo(n - 1),
               r.method = routes[n].method
        PROVE  ~ Conflict(r.pattern, routes[n].pattern)
    BY <1>5 DEF CanHandle
  <1> HIDE DEF routes, accepts
  \* The routes before the first refused one are in no conflict.
  <1>6. ASSUME NEW m \in 0 .. Len(routes), \A n \in 1 .. m : accepts(n)
        PROVE  \A r, s \in upTo(m) :
                  r.method = s.method /\ Conflict(r.pattern, s.pattern) => r = s
    <2>1. \A n \in 1 .. m : n \in 1 .. Len(routes) /\ accepts(n)
      BY <1>6, <1>2, <1>3
    <2>2. ASSUME NEW r \in table, NEW n \in 1 .. m,
                 r.method = routes[n].method
          PROVE  ~ Conflict(r.pattern, routes[n].pattern)
      BY <2>1, <2>2, <1>5
    <2>3. ASSUME NEW i \in 1 .. m, NEW n \in 1 .. m, i < n,
                 routes[i].method = routes[n].method
          PROVE  ~ Conflict(routes[i].pattern, routes[n].pattern)
      <3>1. i \in 1 .. (n - 1)
        BY <2>3
      <3>2. routes[i] \in upTo(n - 1)
        BY <3>1
      <3> QED BY <2>1, <2>3, <3>2, <1>5
    <2> QED
      <3> SUFFICES ASSUME NEW r \in upTo(m), NEW s \in upTo(m),
                          r.method = s.method, Conflict(r.pattern, s.pattern)
                   PROVE  r = s
        OBVIOUS
      <3>1. CASE r \in table /\ s \in table
        BY <3>1 DEF IInv, NoConflict
      <3>2. CASE r \in table /\ s \notin table
        BY <3>2, <2>2
      <3>3. CASE r \notin table /\ s \in table
        BY <3>3, <2>2, ConflictSymmetric
      <3>4. CASE r \notin table /\ s \notin table
        <4>1. PICK i \in 1 .. m : r = routes[i]
          BY <3>4
        <4>2. PICK j \in 1 .. m : s = routes[j]
          BY <3>4
        <4>3. CASE i < j
          BY <4>1, <4>2, <4>3, <2>3
        <4>4. CASE j < i
          BY <4>1, <4>2, <4>4, <2>3, ConflictSymmetric
        <4> QED BY <4>1, <4>2, <4>3, <4>4
      <3> QED BY <3>1, <3>2, <3>3, <3>4
  <1>7. \A r \in table \cup failed : r.mount \in MountRecords /\ r = Route(r.mount, r.op)
    BY DEF IInv, TypeOK
  <1>8. ASSUME \A n \in 1 .. Len(routes) : accepts(n), table' = upTo(Len(routes)),
               mounts' = Append(mounts, mount), UNCHANGED failed
        PROVE  IInv'
    <2>1. NoConflict'
      <3>1. Len(routes) \in 0 .. Len(routes)
        BY <1>2, <1>3
      <3>2. \A r, s \in upTo(Len(routes)) :
                r.method = s.method /\ Conflict(r.pattern, s.pattern) => r = s
        BY <1>6, <1>8, <3>1
      <3> QED BY <1>8, <3>2 DEF NoConflict
    <2>2. mounts \in Seq(MountRecords) /\ Len(mounts) \in Nat
      BY DEF IInv, TypeOK
    <2>3. /\ mounts' \in Seq(MountRecords)
          /\ Len(mounts') = Len(mounts) + 1
          /\ \A i \in 1 .. Len(mounts) : mounts'[i] = mounts[i]
          /\ mounts'[Len(mounts) + 1] = mount
      BY <1>8, <2>2
    <2>4. Len(mounts') <= MaxRegistrations
      BY <2>2, <2>3, <1>1, BoundAssumption
    <2>5. \A r \in (table \cup failed)' : r.mount \in MountRecords /\ r = Route(r.mount, r.op)
      BY <1>4, <1>7, <1>8
    <2>6. ASSUME NEW i \in 1 .. Len(mounts'), NEW k \in 1 .. Len(mounts'[i].ops)
          PROVE  Route(mounts'[i], mounts'[i].ops[k]) \in table'
      <3>1. CASE i = Len(mounts) + 1
        BY <3>1, <2>3, <1>3, <1>8
      <3>2. CASE i # Len(mounts) + 1
        <4>1. i \in 1 .. Len(mounts) /\ mounts'[i] = mounts[i]
          BY <3>2, <2>2, <2>3
        <4> QED BY <4>1, <1>8 DEF IInv, TypeOK
      <3> QED BY <3>1, <3>2
    <2> QED BY <2>1, <2>3, <2>4, <2>5, <2>6 DEF IInv, TypeOK
  <1>9. ASSUME NEW n \in 1 .. Len(routes), \A k \in 1 .. n - 1 : accepts(k),
               table' = upTo(n - 1), failed' = {routes[n]}, UNCHANGED mounts
        PROVE  IInv'
    <2>1. n - 1 \in 0 .. Len(routes)
      BY <1>2, <1>3
    <2>2. NoConflict'
      <3>1. \A r, s \in upTo(n - 1) :
                r.method = s.method /\ Conflict(r.pattern, s.pattern) => r = s
        BY <1>6, <1>9, <2>1
      <3> QED BY <1>9, <3>1 DEF NoConflict
    <2>3. \A r \in (table \cup failed)' : r.mount \in MountRecords /\ r = Route(r.mount, r.op)
      BY <1>4, <1>7, <1>9, <2>1
    <2> QED BY <2>2, <2>3, <1>9 DEF IInv, TypeOK
  <1> QED BY <1>1, <1>8, <1>9

\* The inductive invariant: no two routes of the table conflict.
LEMMA Inductive == Spec => []IInv
  <1>1. Init => IInv
    BY BoundAssumption DEF Init, IInv, TypeOK, NoConflict
  <1>2. ASSUME IInv, [Next]_vars PROVE IInv'
    <2>1. CASE MountHandshake
      BY <1>2, <2>1, MountsTyped, RegisterAtPreserves DEF MountHandshake
    <2>2. CASE RegisterInterface
      BY <1>2, <2>2, MountsTyped, RegisterAtPreserves DEF RegisterInterface
    <2>3. CASE UNCHANGED vars
      BY <1>2, <2>3 DEF vars, IInv, TypeOK, NoConflict
    <2> QED BY <1>2, <2>1, <2>2, <2>3 DEF Next
  <1> QED BY <1>1, <1>2, PTL DEF Spec

-----------------------------------------------------------------------------
(* Calls.                                                                  *)

\* The length of two sequences together.
LEMMA ConcatLength ==
    \A S : \A a, b \in Seq(S) : Len(a \o b) = Len(a) + Len(b)
  OBVIOUS

\* The client's path and the route's pattern, segment by segment.
LEMMA PathAgainstPattern ==
    ASSUME NEW m \in MountRecords, NEW op \in Operations, NEW args
    PROVE  LET path    == ClientPath(m.path, op, args)
               pattern == Route(m, op).pattern
           IN  /\ Len(path) = Len(pattern)
               /\ \A j \in 1 .. Len(pattern) :
                    /\ pattern[j] \notin PathParams => path[j] = pattern[j]
                    /\ pattern[j] \in PathParams =>
                            pattern[j] \in ParamsOf(op) /\ path[j] = args[pattern[j]]
  <1> DEFINE S    == (Words \cup PathParams) \cup {args[p] : p \in ParamsOf(op)}
             base == m.path
             tail == [j \in 1 .. Len(op.path) |->
                        IF op.path[j] \in PathParams THEN args[op.path[j]] ELSE op.path[j]]
             path == base \o tail
             pattern == base \o op.path
  <1>1. /\ base \in Seq(Words)
        /\ op.path \in Seq(Words \cup PathParams)
    BY DEF MountRecords, Operations
  <1>2. \A j \in 1 .. Len(op.path) :
            op.path[j] \in PathParams => op.path[j] \in ParamsOf(op)
    BY DEF ParamsOf
  <1>3. Len(op.path) \in Nat /\ \A j \in 1 .. Len(op.path) : op.path[j] \in Words \cup PathParams
    BY <1>1
  <1>4. tail \in [1 .. Len(op.path) -> S]
    BY <1>2, <1>3
  <1>5. tail \in Seq(S) /\ Len(tail) = Len(op.path)
    BY <1>3, <1>4
  <1>6. base \in Seq(S) /\ op.path \in Seq(S) /\ Len(base) \in Nat
    BY <1>1
  <1>7. ClientPath(m.path, op, args) = path /\ Route(m, op).pattern = pattern
    BY RouteFields DEF ClientPath
  <1>8. \A j \in 1 .. Len(op.path) :
            /\ op.path[j] \notin PathParams => tail[j] = op.path[j]
            /\ op.path[j] \in PathParams =>
                    op.path[j] \in ParamsOf(op) /\ tail[j] = args[op.path[j]]
    BY <1>2
  <1> HIDE DEF S, base, tail
  <1>9. /\ Len(path) = Len(base) + Len(op.path)
        /\ Len(pattern) = Len(base) + Len(op.path)
    BY <1>5, <1>6, ConcatLength
  <1>10. ASSUME NEW j \in 1 .. Len(pattern)
         PROVE  /\ pattern[j] \notin PathParams => path[j] = pattern[j]
                /\ pattern[j] \in PathParams =>
                        pattern[j] \in ParamsOf(op) /\ path[j] = args[pattern[j]]
    <2>1. CASE j <= Len(base)
      <3>1. path[j] = base[j] /\ pattern[j] = base[j] /\ base[j] \in Words
        BY <2>1, <1>1, <1>5, <1>6, <1>9
      <3> QED BY <3>1, WordsAssumption
    <2>2. CASE j > Len(base)
      <3> DEFINE n == j - Len(base)
      <3>1. n \in 1 .. Len(op.path)
        BY <2>2, <1>3, <1>6, <1>9
      <3>2. path[j] = tail[n] /\ pattern[j] = op.path[n]
        BY <2>2, <1>3, <1>5, <1>6, <1>9
      <3> QED BY <3>1, <3>2, <1>8
    <2> QED BY <2>1, <2>2, <1>3, <1>6, <1>9
  <1> HIDE DEF path, pattern
  <1> QED BY <1>7, <1>9, <1>10

\* A call is served by the route of its operation if every other route that
\* matches its path is a more general one.
LEMMA OwnRouteServes ==
    ASSUME IInv, NEW i \in 1 .. Len(mounts), NEW k \in 1 .. Len(mounts[i].ops),
           NEW args,
           \A s \in Candidates(table, mounts[i].ops[k].method,
                               ClientPath(mounts[i].path, mounts[i].ops[k], args)) :
                Matches(s.pattern, Route(mounts[i], mounts[i].ops[k]).pattern)
    PROVE  Reaches([mount |-> mounts[i], op |-> mounts[i].ops[k], args |-> args])
  <1> DEFINE m       == mounts[i]
             op      == m.ops[k]
             call    == [mount |-> m, op |-> op, args |-> args]
             route   == Route(m, op)
             path    == ClientPath(m.path, op, args)
             pattern == route.pattern
  <1>1. m \in MountRecords /\ route \in table
    BY DEF IInv, TypeOK
  <1>2. op \in Operations
    BY <1>1 DEF MountRecords
  <1>3. /\ Len(path) = Len(pattern)
        /\ \A j \in 1 .. Len(pattern) :
            /\ pattern[j] \notin PathParams => path[j] = pattern[j]
            /\ pattern[j] \in PathParams =>
                    pattern[j] \in ParamsOf(op) /\ path[j] = args[pattern[j]]
    BY <1>1, <1>2, PathAgainstPattern
  <1>4. route.method = op.method
    BY RouteFields
  <1>5. \A s \in Candidates(table, op.method, path) : Matches(s.pattern, pattern)
    OBVIOUS
  <1>6. call.mount = m /\ call.op = op /\ call.args = args
    OBVIOUS
  <1>7. NoConflict
    BY DEF IInv
  <1> HIDE DEF m, op, path, route, call
  <1>8. Matches(pattern, path)
    BY <1>3 DEF Matches
  <1>9. Serving(table, op.method, path) = {route}
    <2>1. route \in Candidates(table, op.method, path)
      BY <1>1, <1>4, <1>8 DEF Candidates
    <2>2. route \in Serving(table, op.method, path)
      BY <2>1, <1>5 DEF Serving
    <2>3. \A r, s \in Serving(table, op.method, path) : r = s
      BY <1>7, ServedOnce
    <2> QED BY <2>2, <2>3
  <1>10. ASSUME NEW p \in ParamsOf(op)
         PROVE  PathValues(pattern, path)[p] = args[p]
    <2>1. p \in PathParams /\ \E n \in 1 .. Len(op.path) : op.path[n] = p
      BY DEF ParamsOf
    <2>2. \E j \in 1 .. Len(pattern) : pattern[j] = p
      <3> DEFINE base == m.path
      <3>1. /\ base \in Seq(Words \cup PathParams)
            /\ op.path \in Seq(Words \cup PathParams)
            /\ Len(base) \in Nat /\ Len(op.path) \in Nat
        BY <1>1, <1>2 DEF MountRecords, Operations
      <3>2. pattern = base \o op.path
        BY RouteFields DEF route
      <3>3. PICK n \in 1 .. Len(op.path) : op.path[n] = p
        BY <2>1
      <3> HIDE DEF base
      <3>4. /\ Len(pattern) = Len(base) + Len(op.path)
            /\ pattern[Len(base) + n] = op.path[n]
            /\ Len(base) + n \in 1 .. Len(pattern)
        BY <3>1, <3>2
      <3> QED BY <3>3, <3>4
    <2> DEFINE j == CHOOSE j \in 1 .. Len(pattern) : pattern[j] = p
    <2>3. j \in 1 .. Len(pattern) /\ pattern[j] = p
      BY <2>2
    <2>4. PathValues(pattern, path)[p] = path[j]
      BY <2>1, <2>2 DEF PathValues
    <2> QED BY <2>1, <2>3, <2>4, <1>3
  <1>11. Reaches(call)
    <2>1. PathOf(call) = path /\ Route(call.mount, call.op) = route
      BY <1>6 DEF PathOf, path, route
    <2> QED BY <2>1, <1>6, <1>9, <1>10 DEF Reaches, ReachedBy
  <1> QED BY <1>11 DEF call, m, op

\* A call none of whose arguments is a literal of a route is served by the route
\* of its operation.
LEMMA PlainCallReaches ==
    ASSUME IInv, NEW i \in 1 .. Len(mounts), NEW k \in 1 .. Len(mounts[i].ops),
           NEW args \in [ParamsOf(mounts[i].ops[k]) -> Ids],
           Plain([mount |-> mounts[i], op |-> mounts[i].ops[k], args |-> args])
    PROVE  Reaches([mount |-> mounts[i], op |-> mounts[i].ops[k], args |-> args])
  <1> DEFINE m       == mounts[i]
             op      == m.ops[k]
             path    == ClientPath(m.path, op, args)
             pattern == Route(m, op).pattern
  <1>1. m \in MountRecords /\ op \in Operations
    <2>1. m \in MountRecords
      BY DEF IInv, TypeOK
    <2> QED BY <2>1 DEF MountRecords
  <1>2. /\ Len(path) = Len(pattern)
        /\ \A j \in 1 .. Len(pattern) :
            /\ pattern[j] \notin PathParams => path[j] = pattern[j]
            /\ pattern[j] \in PathParams =>
                    pattern[j] \in ParamsOf(op) /\ path[j] = args[pattern[j]]
    BY <1>1, PathAgainstPattern
  <1>3. \A r \in table : \A j \in 1 .. Len(r.pattern) : \A p \in ParamsOf(op) :
            r.pattern[j] = args[p] => r.pattern[j] \in PathParams
    BY DEF Plain
  <1> HIDE DEF m, op, path, pattern
  <1>4. ASSUME NEW s \in Candidates(table, op.method, path)
        PROVE  Matches(s.pattern, pattern)
    <2>1. s \in table /\ Matches(s.pattern, path)
      BY DEF Candidates
    <2>2. /\ Len(s.pattern) = Len(path)
          /\ \A j \in 1 .. Len(s.pattern) :
                s.pattern[j] = path[j] \/ s.pattern[j] \in PathParams
      BY <2>1 DEF Matches
    <2>3. ASSUME NEW j \in 1 .. Len(s.pattern)
          PROVE  s.pattern[j] = pattern[j] \/ s.pattern[j] \in PathParams
      <3>1. CASE pattern[j] \in PathParams
        BY <3>1, <2>1, <2>2, <1>2, <1>3
      <3>2. CASE pattern[j] \notin PathParams
        BY <3>2, <2>2, <1>2
      <3> QED BY <3>1, <3>2
    <2> QED BY <2>2, <2>3, <1>2 DEF Matches
  <1> QED BY <1>4, OwnRouteServes DEF m, op, path, pattern

-----------------------------------------------------------------------------
(* Mounts apart.                                                           *)

AtBase(m)     == \E base \in Bases : m = Mount(base, Handshake)
AtModule(m)   == \E base \in Bases, i \in Interfaces : m = Mount(Append(base, i.module), i)
MountedOnMux(m) == AtBase(m) \/ AtModule(m)

\* What a mount of the handshake is.
LEMMA HandshakeMount ==
    ASSUME NEW m, AtBase(m)
    PROVE  /\ m \in MountRecords /\ m.path \in Bases
           /\ m.module = "credentials" /\ m.side = "RECEIVER" /\ m.ops = HandshakeOps
  BY MountsTyped DEF AtBase, Mount, Handshake, Interface

\* What a mount of an interface is.
LEMMA InterfaceMount ==
    ASSUME NEW m, AtModule(m)
    PROVE  /\ m \in MountRecords /\ m.module \in Modules
           /\ Len(m.path) >= 1 /\ m.path[Len(m.path)] = m.module
           /\ \E base \in Bases :
                /\ Len(m.path) = Len(base) + 1
                /\ \A n \in 1 .. Len(base) : m.path[n] = base[n]
           /\ \E i \in Interfaces : m.module = i.module /\ m.side = i.side /\ m.ops = i.ops
  <1>1. PICK base \in Bases, i \in Interfaces : m = Mount(Append(base, i.module), i)
    BY DEF AtModule
  <1>2. m \in MountRecords
    BY <1>1, MountsTyped
  <1>3. /\ m.path = Append(base, i.module)
        /\ m.module = i.module /\ m.side = i.side /\ m.ops = i.ops
    BY <1>1 DEF Mount
  <1>4. base \in Seq(Words) /\ i.module \in Words
    BY InterfacesAssumption DEF InterfaceRecords
  <1>5. /\ Len(m.path) = Len(base) + 1 /\ Len(base) \in Nat
        /\ \A n \in 1 .. Len(base) : m.path[n] = base[n]
        /\ m.path[Len(base) + 1] = i.module
    BY <1>3, <1>4
  <1> QED BY <1>2, <1>3, <1>5 DEF Modules

\* The three operations of the handshake.
IsVersions(op) == op.method = "GET" /\ op.path = <<"versions">>
IsDetails(op)  == op.method = "GET" /\ op.path = <<"{version}">>
IsPost(op)     == op.method = "POST" /\ op.path = <<"{version}", "credentials">>

LEMMA HandshakeOperations ==
    /\ Len(HandshakeOps) = 3
    /\ IsVersions(HandshakeOps[1])
    /\ IsDetails(HandshakeOps[2])
    /\ IsPost(HandshakeOps[3])
  <1> DEFINE versions == Operation("GetVersions", "GET", <<"versions">>, "data")
             details  == Operation("GetDetails", "GET", <<"{version}">>, "data")
             post     == Operation("PostCredentials", "POST", <<"{version}", "credentials">>, "data")
  <1>1. HandshakeOps = <<versions, details, post>>
    BY DEF HandshakeOps, Get, Ask
  <1>2. IsVersions(versions) /\ IsDetails(details) /\ IsPost(post)
    BY DEF Operation, IsVersions, IsDetails, IsPost
  <1> HIDE DEF versions, details, post
  <1>3. /\ Len(HandshakeOps) = 3
        /\ HandshakeOps[1] = versions /\ HandshakeOps[2] = details /\ HandshakeOps[3] = post
    BY <1>1
  <1> QED BY <1>2, <1>3

\* The literals in which patterns that overlap agree: as far as both mount paths go.
LEMMA OverlappingSequences ==
    ASSUME NEW u \in Seq(Words), NEW x \in Seq(Words \cup PathParams),
           NEW v \in Seq(Words), NEW y \in Seq(Words \cup PathParams),
           Overlap(u \o x, v \o y)
    PROVE  /\ Len(u) + Len(x) = Len(v) + Len(y)
           /\ \A j \in 1 .. Len(u) : j <= Len(v) => u[j] = v[j]
           /\ Len(u) = Len(v) => u = v /\ Overlap(x, y)
  <1> DEFINE p == u \o x
             q == v \o y
  <1>1. /\ Len(u) \in Nat /\ Len(x) \in Nat /\ Len(v) \in Nat /\ Len(y) \in Nat
        /\ \A j \in 1 .. Len(u) : u[j] \notin PathParams
        /\ \A j \in 1 .. Len(v) : v[j] \notin PathParams
    BY WordsAssumption
  <1>2. /\ Len(p) = Len(u) + Len(x)
        /\ \A j \in 1 .. Len(u) : p[j] = u[j]
        /\ \A j \in 1 .. Len(x) : p[Len(u) + j] = x[j]
    OBVIOUS
  <1>3. /\ Len(q) = Len(v) + Len(y)
        /\ \A j \in 1 .. Len(v) : q[j] = v[j]
        /\ \A j \in 1 .. Len(y) : q[Len(v) + j] = y[j]
    OBVIOUS
  <1>4. /\ Len(p) = Len(q)
        /\ \A j \in 1 .. Len(p) : p[j] = q[j] \/ p[j] \in PathParams \/ q[j] \in PathParams
    BY DEF Overlap
  <1> HIDE DEF p, q
  <1>5. ASSUME NEW j \in 1 .. Len(u), j <= Len(v)
        PROVE  u[j] = v[j]
    <2>1. j \in 1 .. Len(p) /\ j \in 1 .. Len(v)
      BY <1>1, <1>2, <1>5
    <2> QED BY <2>1, <1>1, <1>2, <1>3, <1>4
  <1>6. ASSUME Len(u) = Len(v)
        PROVE  u = v /\ Overlap(x, y)
    <2>1. u = v
      BY <1>1, <1>5, <1>6
    <2>2. Len(x) = Len(y)
      BY <1>1, <1>2, <1>3, <1>4, <1>6
    <2>3. ASSUME NEW j \in 1 .. Len(x)
          PROVE  x[j] = y[j] \/ x[j] \in PathParams \/ y[j] \in PathParams
      <3>1. Len(u) + j \in 1 .. Len(p) /\ j \in 1 .. Len(y)
        BY <1>1, <1>2, <2>2
      <3>2. p[Len(u) + j] = x[j] /\ q[Len(u) + j] = y[j]
        BY <3>1, <1>2, <1>3, <1>6
      <3>3. Len(u) + j \in 1 .. Len(p)
        BY <1>2, <3>1
      <3> QED BY <3>2, <3>3, <1>4
    <2> QED BY <2>1, <2>2, <2>3 DEF Overlap
  <1> QED BY <1>1, <1>2, <1>3, <1>4, <1>5, <1>6

\* So for two routes.
LEMMA OverlappingPaths ==
    ASSUME NEW a \in MountRecords, NEW op \in Operations,
           NEW b \in MountRecords, NEW other \in Operations,
           Overlap(Route(a, op).pattern, Route(b, other).pattern)
    PROVE  /\ Len(a.path) + Len(op.path) = Len(b.path) + Len(other.path)
           /\ \A j \in 1 .. Len(a.path) : j <= Len(b.path) => a.path[j] = b.path[j]
           /\ Len(a.path) = Len(b.path) =>
                a.path = b.path /\ Overlap(op.path, other.path)
  <1> DEFINE u == a.path  x == op.path  v == b.path  y == other.path
  <1>1. /\ u \in Seq(Words) /\ x \in Seq(Words \cup PathParams)
        /\ v \in Seq(Words) /\ y \in Seq(Words \cup PathParams)
    BY DEF MountRecords, Operations
  <1>2. Overlap(u \o x, v \o y)
    BY RouteFields
  <1> HIDE DEF u, x, v, y
  <1>3. /\ Len(u) + Len(x) = Len(v) + Len(y)
        /\ \A j \in 1 .. Len(u) : j <= Len(v) => u[j] = v[j]
        /\ Len(u) = Len(v) => u = v /\ Overlap(x, y)
    BY <1>1, <1>2, OverlappingSequences
  <1> QED BY <1>3 DEF u, x, v, y

\* Where the mount path of the second goes further, and beyond.
LEMMA OverlappingTails ==
    ASSUME NEW a \in MountRecords, NEW op \in Operations,
           NEW b \in MountRecords, NEW other \in Operations,
           Overlap(Route(a, op).pattern, Route(b, other).pattern),
           NEW j \in 1 .. Len(op.path)
    PROVE  /\ Len(a.path) + j <= Len(b.path) =>
                op.path[j] = b.path[Len(a.path) + j] \/ op.path[j] \in PathParams
           /\ \A n \in 1 .. Len(other.path) :
                Len(a.path) + j = Len(b.path) + n =>
                    \/ op.path[j] = other.path[n]
                    \/ op.path[j] \in PathParams \/ other.path[n] \in PathParams
  <1> DEFINE u == a.path  x == op.path  v == b.path  y == other.path
             p == u \o x  q == v \o y
  <1>1. /\ u \in Seq(Words) /\ x \in Seq(Words \cup PathParams)
        /\ v \in Seq(Words) /\ y \in Seq(Words \cup PathParams)
    BY DEF MountRecords, Operations
  <1>2. Overlap(p, q)
    BY RouteFields
  <1>3. j \in 1 .. Len(x)
    OBVIOUS
  <1> HIDE DEF u, x, v, y
  <1>4. /\ Len(u) \in Nat /\ Len(x) \in Nat /\ Len(v) \in Nat /\ Len(y) \in Nat
        /\ \A k \in 1 .. Len(v) : v[k] \notin PathParams
    BY <1>1, WordsAssumption
  <1>5. /\ Len(p) = Len(u) + Len(x)
        /\ \A k \in 1 .. Len(x) : p[Len(u) + k] = x[k]
    BY <1>1
  <1>6. /\ Len(q) = Len(v) + Len(y)
        /\ \A k \in 1 .. Len(v) : q[k] = v[k]
        /\ \A k \in 1 .. Len(y) : q[Len(v) + k] = y[k]
    BY <1>1
  <1>7. \A k \in 1 .. Len(p) : p[k] = q[k] \/ p[k] \in PathParams \/ q[k] \in PathParams
    BY <1>2 DEF Overlap
  <1> HIDE DEF p, q
  <1>8. Len(u) + j \in 1 .. Len(p) /\ p[Len(u) + j] = x[j]
    BY <1>3, <1>4, <1>5
  <1>9. \/ x[j] = q[Len(u) + j]
        \/ x[j] \in PathParams \/ q[Len(u) + j] \in PathParams
    BY <1>7, <1>8
  <1>10. ASSUME Len(u) + j <= Len(v)
         PROVE  x[j] = v[Len(u) + j] \/ x[j] \in PathParams
    <2>1. Len(u) + j \in 1 .. Len(v)
      BY <1>3, <1>4, <1>10
    <2> QED BY <2>1, <1>4, <1>6, <1>9
  <1>11. ASSUME NEW n \in 1 .. Len(y), Len(u) + j = Len(v) + n
         PROVE  x[j] = y[n] \/ x[j] \in PathParams \/ y[n] \in PathParams
    BY <1>6, <1>9, <1>11
  <1> QED BY <1>10, <1>11 DEF u, x, v, y

\* The operations of a mount.
LEMMA OperationsTyped ==
    ASSUME NEW m \in MountRecords, NEW op \in OpsOf(m)
    PROVE  op \in Operations /\ Len(op.path) \in Nat
  <1>1. op \in Operations
    BY DEF OpsOf, MountRecords
  <1> QED BY <1>1 DEF Operations

LEMMA MountFields ==
    ASSUME NEW m, MountedOnMux(m)
    PROVE  m \in MountRecords /\ Len(m.path) \in Nat
  <1>1. m \in MountRecords
    BY HandshakeMount, InterfaceMount DEF MountedOnMux
  <1> QED BY <1>1 DEF MountRecords

\* The operations of a mount of the handshake.
LEMMA HandshakeCases ==
    ASSUME NEW m, AtBase(m), NEW op \in OpsOf(m)
    PROVE  IsVersions(op) \/ IsDetails(op) \/ IsPost(op)
  <1>1. m.ops = HandshakeOps
    BY HandshakeMount
  <1>2. PICK k \in 1 .. 3 : op = HandshakeOps[k]
    BY <1>1, HandshakeOperations DEF OpsOf
  <1>3. k = 1 \/ k = 2 \/ k = 3
    OBVIOUS
  <1> QED BY <1>2, <1>3, HandshakeOperations

LEMMA HandshakeShapes ==
    /\ \A op : IsVersions(op) =>
            op.method = "GET" /\ Len(op.path) = 1 /\ op.path[1] = "versions"
    /\ \A op : IsDetails(op) =>
            op.method = "GET" /\ Len(op.path) = 1 /\ op.path[1] \in PathParams
    /\ \A op : IsPost(op) =>
            /\ op.method = "POST" /\ Len(op.path) = 2
            /\ op.path[1] \in PathParams /\ op.path[2] = "credentials"
  <1>1. /\ \A s, x : s = <<x>> => Len(s) = 1 /\ s[1] = x
        /\ \A s, x, y : s = <<x, y>> => Len(s) = 2 /\ s[1] = x /\ s[2] = y
    OBVIOUS
  <1>2. ASSUME NEW op, IsVersions(op)
        PROVE  op.method = "GET" /\ Len(op.path) = 1 /\ op.path[1] = "versions"
    BY <1>1, <1>2, Zenon DEF IsVersions
  <1>3. PICK w \in PathParams : w = "{version}"
    BY DEF PathParams
  <1>4. ASSUME NEW op, IsDetails(op)
        PROVE  op.method = "GET" /\ Len(op.path) = 1 /\ op.path[1] \in PathParams
    <2>1. op.method = "GET" /\ op.path = <<w>>
      BY <1>3, <1>4, Zenon DEF IsDetails
    <2> QED BY <1>1, <2>1
  <1>5. ASSUME NEW op, IsPost(op)
        PROVE  /\ op.method = "POST" /\ Len(op.path) = 2
               /\ op.path[1] \in PathParams /\ op.path[2] = "credentials"
    <2>1. op.method = "POST" /\ op.path = <<w, "credentials">>
      BY <1>3, <1>5, Zenon DEF IsPost
    <2> QED BY <1>1, <2>1
  <1> QED BY <1>2, <1>4, <1>5, Zenon

\* No interface is mounted at a base, and none below another.
LEMMA NotBelowAModule ==
    ASSUME BasesApart, NEW a, AtModule(a), NEW b, MountedOnMux(b),
           Len(a.path) <= Len(b.path), b.path[Len(a.path)] = a.path[Len(a.path)]
    PROVE  AtModule(b) /\ Len(a.path) = Len(b.path)
  <1>1. a.module \in Modules /\ Len(a.path) >= 1 /\ a.path[Len(a.path)] = a.module
    BY InterfaceMount
  <1>2. Len(a.path) \in Nat /\ Len(b.path) \in Nat
    BY MountFields DEF MountedOnMux
  <1>3. CASE AtBase(b)
    <2>1. b.path \in Bases
      BY <1>3, HandshakeMount
    <2> QED BY <2>1, <1>1, <1>2 DEF BasesApart
  <1>4. CASE AtModule(b)
    <2>1. PICK base \in Bases :
            /\ Len(b.path) = Len(base) + 1
            /\ \A n \in 1 .. Len(base) : b.path[n] = base[n]
      BY <1>4, InterfaceMount
    <2>2. Len(base) \in Nat
      BY InterfacesAssumption
    <2>3. CASE Len(a.path) = Len(b.path)
      BY <2>3, <1>4
    <2>4. CASE Len(a.path) # Len(b.path)
      <3>1. Len(a.path) \in 1 .. Len(base)
        BY <2>1, <2>2, <2>4, <1>1, <1>2
      <3>2. base[Len(a.path)] = a.module
        BY <3>1, <2>1, <1>1
      <3> QED BY <3>1, <3>2, <1>1 DEF BasesApart
    <2> QED BY <2>3, <2>4
  <1> QED BY <1>3, <1>4 DEF MountedOnMux

\* The one way a route overlaps one that is mounted further down: the version
\* details of a base, and a list at a module below it.
Under(a, op, b, other) ==
    /\ AtBase(a) /\ IsDetails(op)
    /\ AtModule(b) /\ Len(other.path) = 0
    /\ Len(b.path) = Len(a.path) + 1

LEMMA OverlapFurtherDown ==
    ASSUME BasesApart, NamesApart, PostsApart,
           NEW a, MountedOnMux(a), NEW op \in OpsOf(a),
           NEW b, MountedOnMux(b), NEW other \in OpsOf(b),
           op.method = other.method, Len(a.path) < Len(b.path),
           Overlap(Route(a, op).pattern, Route(b, other).pattern)
    PROVE  Under(a, op, b, other)
  <1>1. /\ a \in MountRecords /\ Len(a.path) \in Nat
        /\ b \in MountRecords /\ Len(b.path) \in Nat
    BY MountFields
  <1>2. /\ op \in Operations /\ Len(op.path) \in Nat
        /\ other \in Operations /\ Len(other.path) \in Nat
    BY <1>1, OperationsTyped
  <1>3. /\ Len(a.path) + Len(op.path) = Len(b.path) + Len(other.path)
        /\ \A j \in 1 .. Len(a.path) : j <= Len(b.path) => a.path[j] = b.path[j]
        /\ Len(a.path) = Len(b.path) =>
                a.path = b.path /\ Overlap(op.path, other.path)
    BY <1>1, <1>2, OverlappingPaths
  <1> DEFINE la == Len(a.path)  lo == Len(op.path)
             lb == Len(b.path)  lr == Len(other.path)
  <1>4. la \in Nat /\ lo \in Nat /\ lb \in Nat /\ lr \in Nat /\ la < lb /\ la + lo = lb + lr
    BY <1>1, <1>2, <1>3
  <1> HIDE DEF la, lo, lb, lr
  <1>5. /\ lo = 1 => lb = la + 1 /\ lr = 0
        /\ lo = 2 => lb = la + 2 \/ (lb = la + 1 /\ lr = 1)
        /\ lo # lr
    BY <1>4
  <1>6. /\ Len(op.path) = 1 => Len(b.path) = Len(a.path) + 1 /\ Len(other.path) = 0
        /\ Len(op.path) = 2 =>
               \/ Len(b.path) = Len(a.path) + 2
               \/ Len(b.path) = Len(a.path) + 1 /\ Len(other.path) = 1
        /\ Len(op.path) # Len(other.path)
    BY <1>5 DEF la, lo, lb, lr
  <1>7. AtBase(a)
    <2>1. CASE AtModule(a)
      <3>1. Len(a.path) >= 1
        BY <2>1, InterfaceMount
      <3>2. a.path[Len(a.path)] = b.path[Len(a.path)]
        BY <3>1, <1>1, <1>3
      <3> QED BY <2>1, <3>2, <1>1, NotBelowAModule
    <2> QED BY <2>1 DEF MountedOnMux
  <1>8. IsVersions(op) \/ IsDetails(op) \/ IsPost(op)
    BY <1>7, HandshakeCases
  <1>9. AtModule(b)
    <2>1. CASE AtBase(b)
      <3>1. IsVersions(other) \/ IsDetails(other) \/ IsPost(other)
        BY <2>1, HandshakeCases
      <3>2. Len(op.path) = Len(other.path)
        BY <3>1, <1>8, HandshakeShapes
      <3> QED BY <3>2, <1>6
    <2> QED BY <2>1 DEF MountedOnMux
  <1>10. b.path[Len(b.path)] = b.module /\ b.module \in Modules
    BY <1>9, InterfaceMount
  <1>11. "versions" \notin PathParams /\ "credentials" \notin PathParams
    BY WordsAssumption
  <1>12. CASE IsVersions(op)
    <2>1. Len(op.path) = 1 /\ op.path[1] = "versions"
      BY <1>12, HandshakeShapes
    <2>2. Len(b.path) = Len(a.path) + 1
      BY <2>1, <1>6
    <2>3. 1 \in 1 .. Len(op.path)
      BY <2>1
    <2>4. "versions" = b.module
      BY <2>1, <2>2, <2>3, <1>1, <1>2, <1>10, <1>11, OverlappingTails
    <2> QED BY <2>4, <1>10 DEF NamesApart
  <1>13. CASE IsDetails(op)
    <2>1. Len(op.path) = 1
      BY <1>13, HandshakeShapes
    <2> QED BY <2>1, <1>7, <1>9, <1>6, <1>13 DEF Under
  <1>14. CASE IsPost(op)
    <2>1. op.method = "POST" /\ Len(op.path) = 2 /\ op.path[2] = "credentials"
      BY <1>14, HandshakeShapes
    <2>2. 2 \in 1 .. Len(op.path)
      BY <2>1
    <2>3. CASE Len(b.path) = Len(a.path) + 2
      <3>1. "credentials" = b.module
        BY <2>1, <2>2, <2>3, <1>1, <1>2, <1>10, <1>11, OverlappingTails
      <3> QED BY <3>1, <1>10 DEF NamesApart
    <2>4. CASE Len(b.path) = Len(a.path) + 1 /\ Len(other.path) = 1
      <3>1. Len(other.path) = 1
        BY <2>4
      <3>2. other.path[1] \in PathParams \cup {"credentials"}
        <4>1. 1 \in 1 .. Len(other.path) /\ Len(a.path) + 2 = Len(b.path) + 1
          BY <3>1, <2>4, <1>1
        <4> QED BY <4>1, <2>1, <2>2, <1>1, <1>2, <1>11, OverlappingTails
      <3>3. PICK i \in Interfaces : b.ops = i.ops
        BY <1>9, InterfaceMount
      <3>4. other \in OpsOf(i)
        BY <3>3 DEF OpsOf
      <3> QED BY <3>1, <3>2, <3>4, <2>1 DEF PostsApart
    <2> QED BY <2>1, <2>3, <2>4, <1>6
  <1> QED BY <1>8, <1>12, <1>13, <1>14

\* Routes of two mounts that overlap are mounted at one path, or are the version
\* details of a base and a list at a module below it.
AtOnePath(a, op, b, other) ==
    /\ a.path = b.path /\ a.module = b.module
    /\ Overlap(op.path, other.path)
    /\ (AtBase(a) /\ AtBase(b)) \/ (AtModule(a) /\ AtModule(b))

LEMMA OverlapSymmetric ==
    ASSUME NEW p, NEW q, Overlap(p, q)
    PROVE  Overlap(q, p)
  BY DEF Overlap

LEMMA OverlapsOfMounts ==
    ASSUME BasesApart, NamesApart, PostsApart,
           NEW a, MountedOnMux(a), NEW op \in OpsOf(a),
           NEW b, MountedOnMux(b), NEW other \in OpsOf(b),
           op.method = other.method,
           Overlap(Route(a, op).pattern, Route(b, other).pattern)
    PROVE  \/ AtOnePath(a, op, b, other)
           \/ Under(a, op, b, other)
           \/ Under(b, other, a, op)
  <1>1. /\ a \in MountRecords /\ Len(a.path) \in Nat
        /\ b \in MountRecords /\ Len(b.path) \in Nat
    BY MountFields
  <1>2. op \in Operations /\ other \in Operations
    BY <1>1, OperationsTyped
  <1>3. CASE Len(a.path) < Len(b.path)
    BY <1>3, OverlapFurtherDown
  <1>4. CASE Len(b.path) < Len(a.path)
    <2>1. Overlap(Route(b, other).pattern, Route(a, op).pattern)
      BY OverlapSymmetric
    <2> QED BY <2>1, <1>4, OverlapFurtherDown
  <1>5. CASE Len(a.path) = Len(b.path)
    <2>1. /\ Len(a.path) + Len(op.path) = Len(b.path) + Len(other.path)
          /\ \A j \in 1 .. Len(a.path) : j <= Len(b.path) => a.path[j] = b.path[j]
          /\ Len(a.path) = Len(b.path) =>
                a.path = b.path /\ Overlap(op.path, other.path)
      BY <1>1, <1>2, OverlappingPaths
    <2>2. a.path = b.path /\ Overlap(op.path, other.path)
      BY <2>1, <1>5
    <2>3. /\ Len(a.path) <= Len(b.path) /\ b.path[Len(a.path)] = a.path[Len(a.path)]
          /\ Len(b.path) <= Len(a.path) /\ a.path[Len(b.path)] = b.path[Len(b.path)]
      BY <2>2, <1>1
    <2>4. CASE AtModule(a)
      <3>1. AtModule(b)
        BY <2>3, <2>4, NotBelowAModule
      <3>2. a.module = a.path[Len(a.path)] /\ b.module = b.path[Len(b.path)]
        BY <3>1, <2>4, InterfaceMount
      <3>3. a.module = b.module
        BY <3>2, <2>2
      <3> QED BY <3>1, <3>3, <2>2, <2>4 DEF AtOnePath
    <2>5. CASE AtModule(b)
      <3>1. AtModule(a)
        BY <2>3, <2>5, NotBelowAModule
      <3> QED BY <3>1, <2>4
    <2>6. CASE AtBase(a) /\ AtBase(b)
      <3>1. a.module = b.module
        BY <2>6, HandshakeMount
      <3> QED BY <3>1, <2>2, <2>6 DEF AtOnePath
    <2> QED BY <2>4, <2>5, <2>6 DEF MountedOnMux
  <1> QED BY <1>1, <1>3, <1>4, <1>5

\* The pattern of a route: the literals of the mount path, then the operation's.
LEMMA PatternSegments ==
    ASSUME NEW m \in MountRecords, NEW op \in Operations
    PROVE  LET p == Route(m, op).pattern
           IN  /\ Len(p) = Len(m.path) + Len(op.path)
               /\ \A j \in 1 .. Len(m.path) : p[j] = m.path[j] /\ p[j] \notin PathParams
               /\ \A j \in 1 .. Len(op.path) : p[Len(m.path) + j] = op.path[j]
  <1> DEFINE u == m.path  x == op.path  p == u \o x
  <1>1. u \in Seq(Words) /\ x \in Seq(Words \cup PathParams)
    BY DEF MountRecords, Operations
  <1>2. Route(m, op).pattern = p
    BY RouteFields
  <1> HIDE DEF u, x
  <1>3. \A j \in 1 .. Len(u) : u[j] \notin PathParams
    BY <1>1, WordsAssumption
  <1>4. /\ Len(p) = Len(u) + Len(x)
        /\ \A j \in 1 .. Len(u) : p[j] = u[j]
        /\ \A j \in 1 .. Len(x) : p[Len(u) + j] = x[j]
    BY <1>1
  <1> HIDE DEF p
  <1>5. /\ Len(p) = Len(u) + Len(x)
        /\ \A j \in 1 .. Len(u) : p[j] = u[j] /\ p[j] \notin PathParams
        /\ \A j \in 1 .. Len(x) : p[Len(u) + j] = x[j]
    BY <1>3, <1>4
  <1> QED BY <1>2, <1>5 DEF u, x

\* What goes before two patterns alike does not matter to which matches which.
LEMMA SamePrefix ==
    ASSUME NEW u \in Seq(Words), NEW x \in Seq(Words \cup PathParams),
           NEW y \in Seq(Words \cup PathParams)
    PROVE  Matches(u \o x, u \o y) <=> Matches(x, y)
  <1> DEFINE p == u \o x
             q == u \o y
  <1>1. Len(u) \in Nat /\ Len(x) \in Nat /\ Len(y) \in Nat
    OBVIOUS
  <1>2. /\ Len(p) = Len(u) + Len(x)
        /\ \A j \in 1 .. Len(u) : p[j] = u[j]
        /\ \A j \in 1 .. Len(x) : p[Len(u) + j] = x[j]
    OBVIOUS
  <1>3. /\ Len(q) = Len(u) + Len(y)
        /\ \A j \in 1 .. Len(u) : q[j] = u[j]
        /\ \A j \in 1 .. Len(y) : q[Len(u) + j] = y[j]
    OBVIOUS
  <1> HIDE DEF p, q
  <1>4. ASSUME Matches(p, q)
        PROVE  Matches(x, y)
    <2>1. \A j \in 1 .. Len(p) : p[j] = q[j] \/ p[j] \in PathParams
      BY <1>4 DEF Matches
    <2>2. Len(x) = Len(y)
      <3>1. Len(p) = Len(q)
        BY <1>4 DEF Matches
      <3>2. Len(p) = Len(u) + Len(x) /\ Len(q) = Len(u) + Len(y)
        BY <1>2, <1>3
      <3>3. \A k, m, n \in Nat : k + m = k + n => m = n
        OBVIOUS
      <3> QED BY <3>1, <3>2, <3>3, <1>1, Zenon
    <2>3. ASSUME NEW j \in 1 .. Len(x)
          PROVE  x[j] = y[j] \/ x[j] \in PathParams
      <3>1. Len(u) + j \in 1 .. Len(p) /\ j \in 1 .. Len(y)
        BY <2>2, <1>1, <1>2
      <3> QED BY <3>1, <2>1, <1>2, <1>3
    <2> QED BY <2>2, <2>3 DEF Matches
  <1>5. ASSUME Matches(x, y)
        PROVE  Matches(p, q)
    <2>1. Len(x) = Len(y) /\ \A j \in 1 .. Len(x) : x[j] = y[j] \/ x[j] \in PathParams
      BY <1>5 DEF Matches
    <2>2. ASSUME NEW j \in 1 .. Len(p)
          PROVE  p[j] = q[j] \/ p[j] \in PathParams
      <3>1. CASE j <= Len(u)
        BY <3>1, <1>1, <1>2, <1>3
      <3>2. CASE j > Len(u)
        <4> DEFINE n == j - Len(u)
        <4>1. n \in 1 .. Len(x) /\ n \in 1 .. Len(y) /\ j = Len(u) + n
          BY <3>2, <2>1, <1>1, <1>2
        <4> HIDE DEF n
        <4>2. p[j] = x[n] /\ q[j] = y[n]
          BY <4>1, <1>2, <1>3
        <4> QED BY <4>1, <4>2, <2>1
      <3> QED BY <3>1, <3>2, <1>1, <1>2
    <2>3. Len(p) = Len(q)
      BY <2>1, <1>2, <1>3
    <2> QED BY <2>2, <2>3 DEF Matches
  <1> QED BY <1>4, <1>5 DEF p, q

LEMMA SameMountPath ==
    ASSUME NEW a \in MountRecords, NEW op \in Operations,
           NEW b \in MountRecords, NEW other \in Operations, a.path = b.path
    PROVE  Matches(Route(a, op).pattern, Route(b, other).pattern)
                <=> Matches(op.path, other.path)
  <1> DEFINE u == a.path  x == op.path  y == other.path
  <1>1. u \in Seq(Words) /\ x \in Seq(Words \cup PathParams) /\ y \in Seq(Words \cup PathParams)
    BY DEF MountRecords, Operations
  <1>2. Route(a, op).pattern = a.path \o x /\ Route(b, other).pattern = b.path \o y
    BY RouteFields
  <1> HIDE DEF u, x, y
  <1>3. Matches(u \o x, u \o y) <=> Matches(x, y)
    BY <1>1, SamePrefix
  <1> QED BY <1>2, <1>3, Zenon DEF u, x, y

\* The list at a module is more specific than the version details of the base.
LEMMA UnderIsMoreGeneral ==
    ASSUME NEW a, NEW op \in OpsOf(a), NEW b, NEW other \in OpsOf(b),
           Under(a, op, b, other),
           Overlap(Route(a, op).pattern, Route(b, other).pattern)
    PROVE  ~ Conflict(Route(a, op).pattern, Route(b, other).pattern)
  <1> DEFINE p == Route(a, op).pattern
             q == Route(b, other).pattern
  <1>1. /\ a \in MountRecords /\ Len(a.path) \in Nat
        /\ b \in MountRecords /\ Len(b.path) = Len(a.path) + 1
    BY MountFields DEF Under, MountedOnMux
  <1>2. op \in Operations /\ other \in Operations /\ Len(other.path) = 0
    BY <1>1, OperationsTyped DEF Under
  <1>3. Len(op.path) = 1 /\ op.path[1] \in PathParams
    BY HandshakeShapes DEF Under
  <1>4. /\ Len(p) = Len(a.path) + 1
        /\ \A j \in 1 .. Len(a.path) : p[j] = a.path[j] /\ p[j] \notin PathParams
        /\ p[Len(a.path) + 1] \in PathParams
    <2>1. 1 \in 1 .. Len(op.path)
      BY <1>3
    <2>2. /\ Len(p) = Len(a.path) + Len(op.path)
          /\ \A j \in 1 .. Len(a.path) : p[j] = a.path[j] /\ p[j] \notin PathParams
          /\ \A j \in 1 .. Len(op.path) : p[Len(a.path) + j] = op.path[j]
      BY <1>1, <1>2, PatternSegments
    <2> QED BY <2>1, <2>2, <1>3
  <1>5. /\ Len(q) = Len(a.path) + 1
        /\ \A j \in 1 .. Len(a.path) + 1 : q[j] \notin PathParams
    <2>1. /\ Len(q) = Len(b.path) + Len(other.path)
          /\ \A j \in 1 .. Len(b.path) : q[j] = b.path[j] /\ q[j] \notin PathParams
          /\ \A j \in 1 .. Len(other.path) : q[Len(b.path) + j] = other.path[j]
      BY <1>1, <1>2, PatternSegments
    <2> QED BY <2>1, <1>1, <1>2
  <1>6. \A j \in 1 .. Len(p) : p[j] = q[j] \/ p[j] \in PathParams \/ q[j] \in PathParams
    BY DEF Overlap
  <1> HIDE DEF p, q
  <1>7. Matches(p, q)
    BY <1>1, <1>4, <1>5, <1>6 DEF Matches
  <1>8. ~ Matches(q, p)
    <2>1. Len(a.path) + 1 \in 1 .. Len(q)
      BY <1>1, <1>5
    <2> QED BY <2>1, <1>4, <1>5 DEF Matches
  <1> QED BY <1>7, <1>8 DEF Conflict, p, q

\* Mounts whose routes compete are one interface twice, or twins.
LEMMA MountsThatCollide ==
    ASSUME Apart,
           NEW a, MountedOnMux(a), NEW op \in OpsOf(a),
           NEW b, MountedOnMux(b), NEW other \in OpsOf(b),
           op.method = other.method,
           Conflict(Route(a, op).pattern, Route(b, other).pattern)
    PROVE  a.path = b.path /\ Alike(a, b)
  <1>1. Overlap(Route(a, op).pattern, Route(b, other).pattern)
    BY DEF Conflict
  <1>2. a \in MountRecords /\ b \in MountRecords
    BY MountFields
  <1>3. op \in Operations /\ other \in Operations
    BY <1>2, OperationsTyped
  <1>4. CASE Under(a, op, b, other)
    BY <1>4, <1>1, UnderIsMoreGeneral
  <1>5. CASE Under(b, other, a, op)
    <2>1. Overlap(Route(b, other).pattern, Route(a, op).pattern)
      BY <1>1, OverlapSymmetric
    <2>2. ~ Conflict(Route(b, other).pattern, Route(a, op).pattern)
      BY <2>1, <1>5, UnderIsMoreGeneral
    <2> QED BY <2>2, ConflictSymmetric
  <1>6. CASE AtOnePath(a, op, b, other)
    <2>1. CASE AtBase(a) /\ AtBase(b)
      BY <2>1, <1>6, HandshakeMount DEF AtOnePath, Alike
    <2>2. CASE AtModule(a) /\ AtModule(b)
      <3>1. PICK i \in Interfaces : a.module = i.module /\ a.side = i.side /\ a.ops = i.ops
        BY <2>2, InterfaceMount
      <3>2. PICK j \in Interfaces : b.module = j.module /\ b.side = j.side /\ b.ops = j.ops
        BY <2>2, InterfaceMount
      <3>3. a.path = b.path /\ i.module = j.module /\ Overlap(op.path, other.path)
        BY <1>6, <3>1, <3>2 DEF AtOnePath
      <3>4. op \in OpsOf(i) /\ other \in OpsOf(j)
        BY <3>1, <3>2 DEF OpsOf
      <3>5. Conflict(op.path, other.path)
        BY <3>3, <1>2, <1>3, SameMountPath DEF Conflict
      <3>6. Alike(i, j)
        BY <3>3, <3>4, <3>5 DEF Apart, SidesApart
      <3> QED BY <3>1, <3>2, <3>3, <3>6 DEF Alike
    <2> QED BY <2>1, <2>2, <1>6 DEF AtOnePath
  <1> QED BY <1>1, <1>4, <1>5, <1>6, OverlapsOfMounts DEF Apart

\* No interface competes with itself.
LEMMA NoOwnCollision ==
    ASSUME OperationsApart, NEW m, MountedOnMux(m),
           NEW k \in 1 .. Len(m.ops), NEW n \in 1 .. Len(m.ops),
           m.ops[k].method = m.ops[n].method,
           Conflict(Route(m, m.ops[k]).pattern, Route(m, m.ops[n]).pattern)
    PROVE  k = n
  <1>1. m \in MountRecords /\ m.ops[k] \in OpsOf(m) /\ m.ops[n] \in OpsOf(m)
    BY MountFields DEF OpsOf
  <1>2. m.ops[k] \in Operations /\ m.ops[n] \in Operations
    BY <1>1, OperationsTyped
  <1>3. Conflict(m.ops[k].path, m.ops[n].path)
    <2>1. /\ Len(m.path) + Len(m.ops[k].path) = Len(m.path) + Len(m.ops[n].path)
          /\ \A j \in 1 .. Len(m.path) : j <= Len(m.path) => m.path[j] = m.path[j]
          /\ Len(m.path) = Len(m.path) =>
                m.path = m.path /\ Overlap(m.ops[k].path, m.ops[n].path)
      BY <1>1, <1>2, OverlappingPaths DEF Conflict
    <2> QED BY <2>1, <1>1, <1>2, SameMountPath DEF Conflict
  <1>4. CASE AtModule(m)
    <2>1. PICK i \in Interfaces : m.ops = i.ops
      BY <1>4, InterfaceMount
    <2> QED BY <2>1, <1>3 DEF OperationsApart
  <1>5. CASE AtBase(m)
    <2>1. /\ m.ops = HandshakeOps /\ k \in {1, 2, 3} /\ n \in {1, 2, 3}
      BY <1>5, HandshakeMount, HandshakeOperations
    <2>2. /\ IsVersions(HandshakeOps[1]) /\ IsDetails(HandshakeOps[2])
          /\ IsPost(HandshakeOps[3])
      BY HandshakeOperations
    <2>3. ASSUME NEW x, NEW y, IsVersions(x), IsDetails(y)
          PROVE  ~ Conflict(x.path, y.path) /\ ~ Conflict(y.path, x.path)
      <3>1. /\ Len(x.path) = 1 /\ x.path[1] = "versions"
            /\ Len(y.path) = 1 /\ y.path[1] \in PathParams
        BY <2>3, HandshakeShapes
      <3>2. "versions" \notin PathParams
        BY WordsAssumption
      <3> DEFINE p == x.path  q == y.path
      <3>3. Matches(q, p) /\ ~ Matches(p, q)
        <4>1. 1 .. Len(p) = {1} /\ 1 .. Len(q) = {1} /\ p[1] # q[1] /\ Len(p) = Len(q)
          BY <3>1, <3>2
        <4> QED BY <4>1, <3>1, <3>2 DEF Matches
      <3> QED BY <3>3 DEF Conflict
    <2>4. ASSUME NEW x, IsPost(x) PROVE x.method = "POST"
      BY <2>4 DEF IsPost
    <2>5. ASSUME NEW x, IsVersions(x) \/ IsDetails(x) PROVE x.method = "GET"
      BY <2>5 DEF IsVersions, IsDetails
    <2> QED BY <2>1, <2>2, <2>3, <2>4, <2>5, <1>3
  <1> QED BY <1>4, <1>5 DEF MountedOnMux

\* Where the routes come from.
Origins ==
    /\ \A i \in 1 .. Len(mounts) : MountedOnMux(mounts[i])
    /\ \A r \in table \cup failed : MountedOnMux(r.mount) /\ r.op \in OpsOf(r.mount)
    /\ \A r \in table : \/ \E i \in 1 .. Len(mounts) : r.mount = mounts[i]
                        \/ \E bad \in failed : r.mount = bad.mount

LEMMA RegisterAtCollides ==
    ASSUME Apart, IInv, Origins, NEW mount, MountedOnMux(mount), RegisterAt(mount)
    PROVE  Origins' /\ OnlyTwinsCollide'
  <1> DEFINE routes     == RoutesOf(mount)
             upTo(n)    == table \cup {routes[i] : i \in 1 .. n}
             accepts(n) == CanHandle(upTo(n - 1), routes[n])
  <1>1. /\ failed = {}
        /\ \/ /\ table' = upTo(Len(routes))
              /\ mounts' = Append(mounts, mount)
              /\ UNCHANGED failed
           \/ \E n \in 1 .. Len(routes) :
                /\ ~ accepts(n)
                /\ table' = upTo(n - 1)
                /\ failed' = {routes[n]}
                /\ UNCHANGED mounts
    BY DEF RegisterAt
  <1>2. mount \in MountRecords
    BY MountFields
  <1>3. mount.ops \in Seq(Operations) /\ Len(mount.ops) \in Nat
    BY <1>2 DEF MountRecords
  <1>4. /\ Len(routes) = Len(mount.ops)
        /\ \A i \in 1 .. Len(routes) : routes[i] = Route(mount, mount.ops[i])
    BY <1>3 DEF RoutesOf
  <1>5. \A i \in 1 .. Len(routes) : CanHandle(upTo(i - 1), routes[i]) <=> accepts(i)
    OBVIOUS
  <1>6. mounts \in Seq(MountRecords) /\ Len(mounts) \in Nat
    BY DEF IInv, TypeOK
  <1> HIDE DEF routes, accepts
  <1>7. \A i \in 1 .. Len(routes) :
            routes[i].mount = mount /\ routes[i].op \in OpsOf(mount)
    BY <1>4, RouteFields DEF OpsOf
  <1>8. \A r \in table : /\ MountedOnMux(r.mount) /\ r.op \in OpsOf(r.mount)
                         /\ \E i \in 1 .. Len(mounts) : r.mount = mounts[i]
    BY <1>1 DEF Origins
  <1>9. \A i \in 1 .. Len(mounts) : MountedOnMux(mounts[i])
    BY DEF Origins
  <1>10. CASE /\ table' = upTo(Len(routes))
              /\ mounts' = Append(mounts, mount)
              /\ UNCHANGED failed
    <2>1. /\ Len(mounts') = Len(mounts) + 1
          /\ \A i \in 1 .. Len(mounts) : mounts'[i] = mounts[i]
          /\ mounts'[Len(mounts) + 1] = mount
      BY <1>2, <1>6, <1>10
    <2>2. \A i \in 1 .. Len(mounts') : MountedOnMux(mounts'[i])
      BY <2>1, <1>6, <1>9
    <2>3. failed' = {}
      BY <1>1, <1>10
    <2>4. ASSUME NEW r \in table'
          PROVE  /\ MountedOnMux(r.mount) /\ r.op \in OpsOf(r.mount)
                 /\ \E i \in 1 .. Len(mounts') : r.mount = mounts'[i]
      <3>1. CASE r \in table
        BY <3>1, <2>1, <1>6, <1>8
      <3>2. CASE r \notin table
        <4>1. PICK n \in 1 .. Len(routes) : r = routes[n]
          BY <3>2, <1>10
        <4>2. r.mount = mounts'[Len(mounts) + 1] /\ Len(mounts) + 1 \in 1 .. Len(mounts')
          BY <4>1, <2>1, <1>6, <1>7
        <4> QED BY <4>1, <4>2, <1>7
      <3> QED BY <3>1, <3>2
    <2>5. Origins'
      BY <2>2, <2>3, <2>4 DEF Origins, MountedOnMux, AtBase, AtModule
    <2> QED BY <2>3, <2>5 DEF OnlyTwinsCollide
  <1>11. ASSUME NEW n \in 1 .. Len(routes), ~ accepts(n), table' = upTo(n - 1),
                failed' = {routes[n]}, UNCHANGED mounts
         PROVE  Origins' /\ OnlyTwinsCollide'
    <2>1. ASSUME NEW r \in table'
          PROVE  /\ MountedOnMux(r.mount) /\ r.op \in OpsOf(r.mount)
                 /\ \/ \E i \in 1 .. Len(mounts) : r.mount = mounts[i]
                    \/ r.mount = routes[n].mount
      <3>1. CASE r \in table
        BY <3>1, <1>8
      <3>2. CASE r \notin table
        <4>1. PICK k \in 1 .. (n - 1) : r = routes[k]
          BY <3>2, <1>11
        <4>2. k \in 1 .. Len(routes)
          BY <1>3, <1>4
        <4> QED BY <4>1, <4>2, <1>7
      <3> QED BY <3>1, <3>2
    <2>2. Origins'
      BY <2>1, <1>7, <1>9, <1>11 DEF Origins, MountedOnMux, AtBase, AtModule
    <2>3. routes[n].pattern # <<>>
      <3> DEFINE op == mount.ops[n]
      <3>1. routes[n] = Route(mount, op) /\ op \in OpsOf(mount)
        BY <1>4 DEF OpsOf
      <3> HIDE DEF op
      <3>2. op \in Operations /\ Len(op.path) \in Nat /\ Len(mount.path) \in Nat
        BY <3>1, <1>2, OperationsTyped, MountFields
      <3>3. /\ Len(routes[n].pattern) = Len(mount.path) + Len(op.path)
        BY <3>1, <3>2, <1>2, PatternSegments
      <3>4. Len(op.path) >= 1 \/ Len(mount.path) >= 1
        <4>1. ASSUME AtBase(mount) PROVE Len(op.path) >= 1
          BY <3>1, <4>1, HandshakeCases, HandshakeShapes
        <4>2. ASSUME AtModule(mount) PROVE Len(mount.path) >= 1
          BY <4>2, InterfaceMount
        <4> QED BY <4>1, <4>2 DEF MountedOnMux
      <3>5. Len(routes[n].pattern) # 0
        <4>1. \A j, k \in Nat : j >= 1 \/ k >= 1 => k + j # 0
          OBVIOUS
        <4> QED BY <4>1, <3>2, <3>3, <3>4, Zenon
      <3>6. Len(<<>>) = 0
        OBVIOUS
      <3> QED BY <3>5, <3>6, Zenon
    <2>4. PICK r \in upTo(n - 1) :
            r.method = routes[n].method /\ Conflict(r.pattern, routes[n].pattern)
      BY <2>3, <1>5, <1>11 DEF CanHandle
    <2>5. r \in table
      <3> SUFFICES ASSUME r \notin table
                   PROVE  FALSE
        OBVIOUS
      <3>1. PICK k \in 1 .. (n - 1) : r = routes[k]
        OBVIOUS
      <3>2. /\ k \in 1 .. Len(mount.ops) /\ n \in 1 .. Len(mount.ops) /\ k # n
            /\ r = Route(mount, mount.ops[k]) /\ routes[n] = Route(mount, mount.ops[n])
        BY <3>1, <1>3, <1>4
      <3>3. mount.ops[k].method = mount.ops[n].method
        BY <3>2, <2>4, RouteFields
      <3> QED BY <3>2, <3>3, <2>4, NoOwnCollision DEF Apart
    <2>6. PICK i \in 1 .. Len(mounts) : r.mount = mounts[i]
      BY <2>5, <1>8
    <2>7. r.mount.path = mount.path /\ Alike(r.mount, mount)
      <3> DEFINE a == r.mount  op == r.op  other == mount.ops[n]
      <3>1. /\ r = Route(a, op) /\ MountedOnMux(a) /\ op \in OpsOf(a)
            /\ routes[n] = Route(mount, other) /\ other \in OpsOf(mount)
        BY <2>5, <1>4, <1>8 DEF IInv, TypeOK, OpsOf
      <3> HIDE DEF a, op, other
      <3>2. op.method = other.method
        BY <3>1, <2>4, RouteFields
      <3>3. Conflict(Route(a, op).pattern, Route(mount, other).pattern)
        BY <3>1, <2>4
      <3>4. a.path = mount.path /\ Alike(a, mount)
        BY <3>1, <3>2, <3>3, MountsThatCollide
      <3> QED BY <3>4 DEF a
    <2>8. OnlyTwinsCollide'
      BY <2>6, <2>7, <1>7, <1>11 DEF OnlyTwinsCollide, Alike
    <2> QED BY <2>2, <2>8
  <1> QED BY <1>1, <1>10, <1>11

LEMMA InductiveApart ==
    ASSUME Apart
    PROVE  Spec => [](IInv /\ Origins /\ OnlyTwinsCollide)
  <1> DEFINE OInv == IInv /\ Origins /\ OnlyTwinsCollide
  <1>1. Init => OInv
    <2> SUFFICES ASSUME Init PROVE Origins /\ OnlyTwinsCollide
      BY BoundAssumption DEF Init, IInv, TypeOK, NoConflict
    <2> QED BY DEF Init, Origins, OnlyTwinsCollide
  <1>2. ASSUME OInv, [Next]_vars
        PROVE  OInv'
    <2>1. CASE MountHandshake
      <3>1. PICK base \in Bases : RegisterAt(Mount(base, Handshake))
        BY <2>1 DEF MountHandshake
      <3>2. MountedOnMux(Mount(base, Handshake))
        BY DEF MountedOnMux, AtBase
      <3> QED BY <1>2, <3>1, <3>2, MountsTyped, RegisterAtPreserves, RegisterAtCollides
    <2>2. CASE RegisterInterface
      <3>1. PICK base \in Bases, i \in Interfaces :
                RegisterAt(Mount(Append(base, i.module), i))
        BY <2>2 DEF RegisterInterface
      <3>2. MountedOnMux(Mount(Append(base, i.module), i))
        BY DEF MountedOnMux, AtModule
      <3> QED BY <1>2, <3>1, <3>2, MountsTyped, RegisterAtPreserves, RegisterAtCollides
    <2>3. CASE UNCHANGED vars
      BY <1>2, <2>3 DEF vars, IInv, TypeOK, NoConflict, Origins, OnlyTwinsCollide,
                        MountedOnMux, AtBase, AtModule
    <2> QED BY <1>2, <2>1, <2>2, <2>3 DEF Next
  <1> QED BY <1>1, <1>2, PTL DEF Spec

\* Where a route matches the path of a call, it overlaps the route of its operation.
LEMMA CandidatesOverlap ==
    ASSUME NEW m \in MountRecords, NEW op \in Operations, NEW args, NEW pattern,
           Matches(pattern, ClientPath(m.path, op, args))
    PROVE  /\ Overlap(pattern, Route(m, op).pattern)
           /\ \A j \in 1 .. Len(op.path) :
                op.path[j] \in PathParams =>
                    \/ pattern[Len(m.path) + j] = args[op.path[j]] /\ op.path[j] \in ParamsOf(op)
                    \/ pattern[Len(m.path) + j] \in PathParams
           /\ (\A j \in 1 .. Len(op.path) : op.path[j] \notin PathParams)
                => Matches(pattern, Route(m, op).pattern)
  <1> DEFINE path == ClientPath(m.path, op, args)
             own  == Route(m, op).pattern
  <1>1. /\ Len(path) = Len(own)
        /\ \A j \in 1 .. Len(own) :
            /\ own[j] \notin PathParams => path[j] = own[j]
            /\ own[j] \in PathParams => own[j] \in ParamsOf(op) /\ path[j] = args[own[j]]
    BY PathAgainstPattern
  <1>2. /\ Len(own) = Len(m.path) + Len(op.path)
        /\ \A j \in 1 .. Len(m.path) : own[j] = m.path[j] /\ own[j] \notin PathParams
        /\ \A j \in 1 .. Len(op.path) : own[Len(m.path) + j] = op.path[j]
    BY PatternSegments
  <1> DEFINE lp == Len(m.path)
             lo == Len(op.path)
  <1>3. lp \in Nat /\ lo \in Nat
    BY DEF MountRecords, Operations
  <1>4. /\ Len(pattern) = Len(path)
        /\ \A j \in 1 .. Len(pattern) : pattern[j] = path[j] \/ pattern[j] \in PathParams
    BY DEF Matches
  <1>5. /\ Len(own) = lp + lo
        /\ \A j \in 1 .. lp : own[j] \notin PathParams
        /\ \A j \in 1 .. lo : own[lp + j] = op.path[j]
    BY <1>2
  <1> HIDE DEF path, own, lp, lo
  <1>6. Overlap(pattern, own)
    BY <1>1, <1>4 DEF Overlap
  <1>7. ASSUME NEW j \in 1 .. lo, op.path[j] \in PathParams
        PROVE  \/ pattern[lp + j] = args[op.path[j]] /\ op.path[j] \in ParamsOf(op)
               \/ pattern[lp + j] \in PathParams
    <2> DEFINE n == lp + j
    <2>1. n \in 1 .. Len(own) /\ own[n] = op.path[j]
      BY <1>3, <1>5
    <2> HIDE DEF n
    <2>2. path[n] = args[op.path[j]] /\ op.path[j] \in ParamsOf(op)
      BY <2>1, <1>1, <1>7
    <2>3. pattern[n] = path[n] \/ pattern[n] \in PathParams
      BY <2>1, <1>1, <1>4
    <2> QED BY <2>2, <2>3 DEF n
  <1>8. ASSUME \A j \in 1 .. lo : op.path[j] \notin PathParams
        PROVE  Matches(pattern, own)
    <2>1. ASSUME NEW n \in 1 .. Len(own)
          PROVE  own[n] \notin PathParams
      <3>1. CASE n <= lp
        BY <3>1, <1>3, <1>5
      <3>2. CASE n > lp
        <4> DEFINE j == n - lp
        <4>1. j \in 1 .. lo /\ n = lp + j
          BY <3>2, <1>3, <1>5
        <4> HIDE DEF j
        <4> QED BY <4>1, <1>5, <1>8
      <3> QED BY <3>1, <3>2, <1>3, <1>5
    <2> QED BY <2>1, <1>1, <1>4 DEF Matches
  <1> QED BY <1>6, <1>7, <1>8 DEF own, lp, lo

\* A mount alone at its path: nothing that overlaps its routes there is unlike it.
Alone(i) == \A j \in 1 .. Len(mounts) : mounts[j].path = mounts[i].path => j = i

LEMMA AloneAtItsPath ==
    ASSUME Origins, OnlyTwinsCollide,
           NEW i \in 1 .. Len(mounts), Alone(i),
           NEW r \in table, r.mount.path = mounts[i].path
    PROVE  Alike(mounts[i], r.mount)
  <1>1. CASE \E j \in 1 .. Len(mounts) : r.mount = mounts[j]
    BY <1>1 DEF Alone, Alike
  <1>2. CASE \E bad \in failed : r.mount = bad.mount
    <2>1. PICK bad \in failed : r.mount = bad.mount
      BY <1>2
    <2>2. PICK j \in 1 .. Len(mounts) :
            /\ mounts[j].path = bad.mount.path
            /\ mounts[j].module = bad.mount.module
            /\ mounts[j].side = bad.mount.side \/ bad.mount.module \in Twins
      BY <2>1 DEF OnlyTwinsCollide
    <2>3. j = i
      BY <2>1, <2>2 DEF Alone
    <2> QED BY <2>1, <2>2, <2>3 DEF Alike
  <1> QED BY <1>1, <1>2 DEF Origins

\* Whatever its arguments, a call is not diverted from a mount alone at its path,
\* if the versions asked of a handshake are version numbers.
LEMMA AloneReaches ==
    ASSUME Apart, IInv, Origins, OnlyTwinsCollide,
           NEW i \in 1 .. Len(mounts), Alone(i),
           NEW k \in 1 .. Len(mounts[i].ops), NEW args,
           AtBase(mounts[i]) =>
                \A p \in ParamsOf(mounts[i].ops[k]) : args[p] \in VersionNumbers
    PROVE  Reaches([mount |-> mounts[i], op |-> mounts[i].ops[k], args |-> args])
  <1> DEFINE m    == mounts[i]
             op   == m.ops[k]
             path == ClientPath(m.path, op, args)
             own  == Route(m, op).pattern
  <1>1. MountedOnMux(m) /\ m \in MountRecords /\ op \in OpsOf(m)
    BY MountFields DEF Origins, OpsOf
  <1>2. op \in Operations
    BY <1>1, OperationsTyped
  <1>3. AtBase(m) => \A p \in ParamsOf(op) : args[p] \in VersionNumbers
    OBVIOUS
  <1>4. \A r \in table : r.mount.path = m.path => Alike(m, r.mount)
    BY AloneAtItsPath
  <1> HIDE DEF m, op, path, own
  <1>5. ASSUME NEW s \in Candidates(table, op.method, path)
        PROVE  Matches(s.pattern, own)
    <2> DEFINE a == s.mount
               x == s.op
    <2>1. s \in table /\ s.method = op.method /\ Matches(s.pattern, path)
      BY DEF Candidates
    <2>2. s = Route(a, x) /\ MountedOnMux(a) /\ x \in OpsOf(a)
      BY <2>1 DEF IInv, TypeOK, Origins
    <2>3. a.path = m.path => Alike(m, a)
      BY <2>1, <1>4
    <2> HIDE DEF a, x
    <2>4. a \in MountRecords /\ x \in Operations
      BY <2>2, MountFields, OperationsTyped
    <2>5. x.method = op.method
      BY <2>1, <2>2, RouteFields
    <2>6. /\ Overlap(s.pattern, own)
          /\ \A j \in 1 .. Len(op.path) :
                op.path[j] \in PathParams =>
                    \/ s.pattern[Len(m.path) + j] = args[op.path[j]] /\ op.path[j] \in ParamsOf(op)
                    \/ s.pattern[Len(m.path) + j] \in PathParams
          /\ (\A j \in 1 .. Len(op.path) : op.path[j] \notin PathParams)
                => Matches(s.pattern, own)
      BY <2>1, <1>1, <1>2, CandidatesOverlap DEF path, own
    <2>7. Overlap(Route(a, x).pattern, Route(m, op).pattern)
      BY <2>2, <2>6 DEF own
    <2>8. CASE Under(a, x, m, op)
      <3>1. Len(op.path) = 0
        BY <2>8 DEF Under
      <3> QED BY <3>1, <2>6
    <2>9. CASE Under(m, op, a, x)
      <3>1. Len(op.path) = 1 /\ op.path[1] \in PathParams /\ AtBase(m)
        BY <2>9, HandshakeShapes DEF Under
      <3>2. /\ AtModule(a) /\ Len(a.path) = Len(m.path) + 1
        BY <2>9 DEF Under
      <3>3. /\ a.path[Len(a.path)] = a.module /\ a.module \in Modules /\ Len(a.path) >= 1
        BY <3>2, InterfaceMount
      <3>4. s.pattern[Len(a.path)] = a.module /\ a.module \notin PathParams
        <4>1. /\ Len(Route(a, x).pattern) = Len(a.path) + Len(x.path)
              /\ \A j \in 1 .. Len(a.path) : Route(a, x).pattern[j] = a.path[j]
                                              /\ Route(a, x).pattern[j] \notin PathParams
          BY <2>4, PatternSegments
        <4>2. Len(a.path) \in 1 .. Len(a.path)
          BY <3>3, <2>2, MountFields
        <4> QED BY <4>1, <4>2, <3>3, <2>2
      <3>5. 1 \in 1 .. Len(op.path)
        BY <3>1
      <3>6. a.module = args[op.path[1]] /\ op.path[1] \in ParamsOf(op)
        BY <3>1, <3>2, <3>4, <3>5, <2>6
      <3>7. a.module \in VersionNumbers
        BY <3>1, <3>6, <1>3
      <3> QED BY <3>3, <3>7 DEF Apart, NamesApart
    <2>10. CASE AtOnePath(a, x, m, op)
      <3>1. a.path = m.path /\ Overlap(x.path, op.path)
        BY <2>10 DEF AtOnePath
      <3>2. SUFFICES Matches(x.path, op.path) \/ Matches(s.pattern, own)
        BY <3>1, <2>2, <2>4, <1>1, <1>2, SameMountPath DEF own
      <3>3. CASE AtModule(a) /\ AtModule(m)
        <4>1. PICK v \in Interfaces : m.module = v.module /\ m.side = v.side /\ m.ops = v.ops
          BY <3>3, InterfaceMount
        <4>2. PICK w \in Interfaces : a.module = w.module /\ a.side = w.side /\ a.ops = w.ops
          BY <3>3, InterfaceMount
        <4>3. Alike(v, w)
          BY <4>1, <4>2, <3>1, <2>3 DEF Alike
        <4>4. op \in OpsOf(v) /\ x \in OpsOf(w)
          BY <4>1, <4>2, <2>2, <1>1 DEF OpsOf
        <4>5. Overlap(op.path, x.path)
          BY <3>1, OverlapSymmetric
        <4> QED BY <4>3, <4>4, <4>5, <2>5 DEF Apart, ShapesAlike
      <3>4. CASE AtBase(a) /\ AtBase(m)
        <4>1. IsVersions(x) \/ IsDetails(x) \/ IsPost(x)
          BY <3>4, <2>2, HandshakeCases
        <4>2. IsVersions(op) \/ IsDetails(op) \/ IsPost(op)
          BY <3>4, <1>1, HandshakeCases
        <4>3. \A p : Matches(p, p)
          BY DEF Matches
        <4>4. CASE x.path = op.path
          BY <4>3, <4>4
        <4>5. CASE IsVersions(op)
          <5>1. Len(op.path) = 1 /\ op.path[1] = "versions" /\ "versions" \notin PathParams
            BY <4>5, HandshakeShapes, WordsAssumption
          <5>2. \A j \in 1 .. Len(op.path) : op.path[j] \notin PathParams
            BY <5>1
          <5> QED BY <5>2, <2>6
        <4>6. CASE IsVersions(x) /\ IsDetails(op)
          <5>1. /\ Len(x.path) = 1 /\ x.path[1] = "versions" /\ "versions" \notin PathParams
                /\ Len(op.path) = 1 /\ op.path[1] \in PathParams
            BY <4>6, HandshakeShapes, WordsAssumption
          <5>2. 1 \in 1 .. Len(op.path) /\ 1 \in 1 .. Len(x.path)
            BY <5>1
          <5>3. s.pattern[Len(m.path) + 1] = "versions"
            <6>1. \A j \in 1 .. Len(x.path) :
                    Route(a, x).pattern[Len(a.path) + j] = x.path[j]
              BY <2>4, PatternSegments
            <6> QED BY <6>1, <5>1, <5>2, <3>1, <2>2
          <5>4. "versions" = args[op.path[1]] /\ op.path[1] \in ParamsOf(op)
            BY <5>1, <5>2, <5>3, <2>6
          <5> QED BY <5>4, <3>4, <1>3 DEF Apart, NamesApart
        <4>7. CASE (IsDetails(x) /\ IsDetails(op)) \/ (IsPost(x) /\ IsPost(op))
          <5>1. \A p, q : IsDetails(p) /\ IsDetails(q) => p.path = q.path
            BY Zenon DEF IsDetails
          <5>2. \A p, q : IsPost(p) /\ IsPost(q) => p.path = q.path
            BY Zenon DEF IsPost
          <5> QED BY <5>1, <5>2, <4>4, <4>7
        <4>8. ~ (IsPost(x) /\ IsDetails(op)) /\ ~ (~ IsPost(x) /\ IsPost(op))
          BY <4>1, <2>5, HandshakeShapes
        <4> QED BY <4>1, <4>2, <4>5, <4>6, <4>7, <4>8
      <3> QED BY <3>3, <3>4, <2>10 DEF AtOnePath
    <2> QED BY <2>2, <2>5, <2>7, <2>8, <2>9, <2>10, <1>1, OverlapsOfMounts DEF Apart
  <1> QED BY <1>5, OwnRouteServes DEF m, op, path, own

\* What serves a call of a client of the other side, or of another version,
\* of a mounted module.
LEMMA WrongSideUnanswered ==
    ASSUME Apart, IInv, Origins, NEW i \in 1 .. Len(mounts), NEW caller \in Interfaces,
           caller.module = mounts[i].module, caller.module \notin Mistakable,
           NEW op \in OpsOf(caller), NEW args,
           NEW r \in Serving(table, op.method, ClientPath(mounts[i].path, op, args))
    PROVE  \/ r.mount.module = caller.module /\ r.mount.side = caller.side
           \/ r.mount.module = "credentials" /\ op.path = <<>>
  <1> DEFINE a == r.mount
             x == r.op
             m == mounts[i]
  <1>1. MountedOnMux(m) /\ caller.module \in Modules /\ "credentials" \notin Modules
    BY DEF Origins, Modules, Apart, NamesApart
  <1>2. PICK base \in Bases, j \in Interfaces : m = Mount(Append(base, j.module), j)
    BY <1>1, HandshakeMount DEF MountedOnMux, AtModule
  <1> DEFINE v == Mount(Append(base, caller.module), caller)
  <1>3. /\ v.path = m.path /\ v.module = caller.module /\ v.side = caller.side
        /\ v.ops = caller.ops
    BY <1>2 DEF Mount
  <1>4. AtModule(v) /\ MountedOnMux(v) /\ ~ AtBase(v)
    BY <1>1, <1>3, HandshakeMount DEF AtModule, MountedOnMux
  <1>5. r \in table /\ r.method = op.method /\ Matches(r.pattern, ClientPath(m.path, op, args))
    BY DEF Serving, Candidates
  <1>6. r = Route(a, x) /\ MountedOnMux(a) /\ x \in OpsOf(a)
    BY <1>5 DEF IInv, TypeOK, Origins
  <1>7. op \in OpsOf(v) /\ v \in MountRecords
    BY <1>3, <1>4, MountFields DEF OpsOf
  <1> HIDE DEF a, x, m, v
  <1>8. op \in Operations /\ x.method = op.method
    BY <1>5, <1>6, <1>7, OperationsTyped, RouteFields
  <1>9. Overlap(Route(a, x).pattern, Route(v, op).pattern)
    BY <1>3, <1>5, <1>6, <1>7, <1>8, CandidatesOverlap
  <1>10. CASE AtOnePath(a, x, v, op)
    <2>1. AtModule(a) /\ a.module = caller.module /\ Overlap(x.path, op.path)
      BY <1>3, <1>4, <1>10 DEF AtOnePath
    <2>2. PICK w \in Interfaces : a.module = w.module /\ a.side = w.side /\ a.ops = w.ops
      BY <2>1, InterfaceMount
    <2>3. x \in OpsOf(w)
      BY <1>6, <2>2 DEF OpsOf
    <2>4. w.side = caller.side
      BY <1>8, <2>1, <2>2, <2>3 DEF Apart, SidesDistinct
    <2> QED BY <2>1, <2>2, <2>4 DEF a
  <1>11. CASE Under(a, x, v, op)
    <2>1. a.module = "credentials" /\ Len(op.path) = 0
      BY <1>11, HandshakeMount DEF Under
    <2>2. op.path = <<>>
      BY <1>8, <2>1 DEF Operations
    <2> QED BY <2>1, <2>2 DEF a
  <1>12. ~ Under(v, op, a, x)
    BY <1>4 DEF Under
  <1> QED BY <1>4, <1>6, <1>7, <1>8, <1>9, <1>10, <1>11, <1>12, OverlapsOfMounts DEF Apart

-----------------------------------------------------------------------------
(* The theorems.                                                           *)

(* The mux serves, for every interface registered in full, routes that     *)
(* have the shape of its operations.                                       *)
THEOREM TypeCorrect == Spec => []TypeOK
  <1>1. IInv => TypeOK
    BY DEF IInv
  <1> QED BY <1>1, Inductive, PTL

(* Any call of a generated client with arguments that are no literal of    *)
(* the platform's routes reaches the operation of that name, with those    *)
(* arguments, next to whatever else is mounted.                            *)
THEOREM Dispatch == Spec => []CallsReachTheirHandler
  <1>1. IInv => CallsReachTheirHandler
    <2> SUFFICES ASSUME IInv, NEW call \in Calls, Plain(call)
                 PROVE  Reaches(call)
      BY DEF CallsReachTheirHandler
    <2>1. PICK i \in 1 .. Len(mounts) :
            \E k \in 1 .. Len(mounts[i].ops) :
                \E args \in [ParamsOf(mounts[i].ops[k]) -> Ids] :
                    call = [mount |-> mounts[i], op |-> mounts[i].ops[k], args |-> args]
      BY DEF Calls
    <2>2. PICK k \in 1 .. Len(mounts[i].ops) :
                \E args \in [ParamsOf(mounts[i].ops[k]) -> Ids] :
                    call = [mount |-> mounts[i], op |-> mounts[i].ops[k], args |-> args]
      BY <2>1
    <2>3. PICK args \in [ParamsOf(mounts[i].ops[k]) -> Ids] :
                call = [mount |-> mounts[i], op |-> mounts[i].ops[k], args |-> args]
      BY <2>2
    <2> QED BY <2>3, PlainCallReaches
  <1> QED BY <1>1, Inductive, PTL

(* Assembling a platform panics only for one interface twice at one path,  *)
(* or for the two sides of locations, charging profiles or payments: for   *)
(* any number of registrations in any order, of generated interfaces of    *)
(* any versions, at bases no segment of which is named like a module.      *)
(* (core.Mux.Handle, handshake.Mount, the generated RegisterXxx.)          *)
THEOREM Collisions ==
    ASSUME Apart
    PROVE  Spec => []OnlyTwinsCollide
  <1>1. IInv /\ Origins /\ OnlyTwinsCollide => OnlyTwinsCollide
    OBVIOUS
  <1> QED BY <1>1, InductiveApart, PTL

\* Calls with arguments of any kind, to interfaces alone at their path.
AnyArgumentsReach(V) ==
    \A i \in 1 .. Len(mounts) :
        mounts[i].module \in Modules /\ Alone(i) =>
            \A k \in 1 .. Len(mounts[i].ops) : \A args \in [ParamsOf(mounts[i].ops[k]) -> V] :
                Reaches([mount |-> mounts[i], op |-> mounts[i].ops[k], args |-> args])

(* On such a platform a call to an interface that is alone at its path     *)
(* reaches its operation with its arguments, whatever these are: segments  *)
(* of its own routes, names of other modules, version numbers.             *)
THEOREM AnyArguments ==
    ASSUME Apart, NEW CONSTANT V
    PROVE  Spec => []AnyArgumentsReach(V)
  <1>1. ASSUME IInv /\ Origins /\ OnlyTwinsCollide,
               NEW i \in 1 .. Len(mounts), mounts[i].module \in Modules, Alone(i),
               NEW k \in 1 .. Len(mounts[i].ops),
               NEW args \in [ParamsOf(mounts[i].ops[k]) -> V]
        PROVE  Reaches([mount |-> mounts[i], op |-> mounts[i].ops[k], args |-> args])
    <2>1. ~ AtBase(mounts[i])
      BY <1>1, HandshakeMount DEF Apart, NamesApart
    <2> QED BY <1>1, <2>1, AloneReaches
  <1>2. IInv /\ Origins /\ OnlyTwinsCollide => AnyArgumentsReach(V)
    BY <1>1 DEF AnyArgumentsReach
  <1> QED BY <1>2, InductiveApart, PTL

(* Likewise the handshake, for every version number it is asked for.       *)
THEOREM Lookalikes ==
    ASSUME Apart
    PROVE  Spec => []IdsMayLookLikeRoutes
  <1>1. ASSUME IInv /\ Origins /\ OnlyTwinsCollide,
               NEW i \in 1 .. Len(mounts), NEW k \in 1 .. Len(mounts[i].ops), Alone(i),
               NEW V, NEW args \in [ParamsOf(mounts[i].ops[k]) -> V],
               mounts[i].module = "credentials" => V = VersionNumbers
        PROVE  Reaches([mount |-> mounts[i], op |-> mounts[i].ops[k], args |-> args])
    <2>1. AtBase(mounts[i]) =>
            \A p \in ParamsOf(mounts[i].ops[k]) : args[p] \in VersionNumbers
      BY <1>1, HandshakeMount
    <2> QED BY <1>1, <2>1, AloneReaches
  <1>2. IInv /\ Origins /\ OnlyTwinsCollide => IdsMayLookLikeRoutes
    BY <1>1 DEF IdsMayLookLikeRoutes, Alone
  <1> QED BY <1>2, InductiveApart, PTL

(* On such a platform a call of a client of the other side of a module, or *)
(* of another version, made at a mounted URL as handshake.Peer.Endpoint    *)
(* may return it, is answered by no operation of the wrong side, unless    *)
(* the module is locations, charging profiles, payments or bookings.       *)
THEOREM WrongSide ==
    ASSUME Apart
    PROVE  Spec => []WrongSideNeverAnswers
  <1>1. IInv /\ Origins /\ OnlyTwinsCollide => WrongSideNeverAnswers
    BY WrongSideUnanswered DEF WrongSideNeverAnswers
  <1> QED BY <1>1, InductiveApart, PTL
=============================================================================
