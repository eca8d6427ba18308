---------------------------- MODULE StartupProofs ----------------------------
(***************************************************************************)
(* What is proved about Startup and Configuration: every gateway and every *)
(* provider is built from its own entry of the configuration, and main     *)
(* returns only when no gateway runs, unless it cannot listen for signals. *)
(*                                                                         *)
(* Resolve and LookUp are recursive functions.  That they are what their   *)
(* definitions say has to be proved first: a function of that kind exists, *)
(* because the depth of values decreases from a table to its fields, and   *)
(* because a path is finite.                                               *)
(***************************************************************************)
EXTENDS Startup, WellFoundedInduction, TLAPS

Section(section) == LookUp(values, section, <<"">>)

(* values is what the file says.                                           *)
Loaded == values = Resolve(external, file)

(* Each provider and each gateway is one of its section.                   *)
ProvidersBuilt ==
    \A name \in DOMAIN providers :
        /\ Loaded
        /\ IsSection(Section(<<"provider">>))
        /\ name \in DOMAIN Section(<<"provider">>).fields
        /\ providers[name] = OpenAISettings(values, Scoped(<<"provider">>, name))

GatewaysBuilt ==
    \A name \in DOMAIN gateways :
        /\ Loaded
        /\ IsSection(Section(<<"gateway">>))
        /\ name \in DOMAIN Section(<<"gateway">>).fields
        /\ gateways[name] = DiscordSettings(values, Scoped(<<"gateway">>, name))

(* Where main is, and what the gateways may do then.                       *)
Before == {"boot", "providers", "model", "loading"}
Begun == {"started", "serving", "deaf"}
Places == Before \cup Begun \cup
    {"starting", "stopping", "exited", "failed", "killed"}

MayBe ==
    {it \in {"starting", "running", "closing", "failed", "ended", "gone"} :
        /\ it = "starting" => main = "starting"
        /\ it = "running" => main \in {"starting"} \cup Begun
        /\ it = "closing" => main = "stopping"
        /\ it \in {"failed", "ended"} => main \notin Before \cup {"killed"}
        /\ it = "gone" => main = "killed"}

MainInv ==
    /\ file \in Files
    /\ main \in Places
    /\ main = "boot" => DOMAIN providers = {} /\ DOMAIN gateways = {}
    /\ main \in (Before \ {"boot"}) \cup {"starting"} \cup Begun => Loaded
    /\ \A name \in DOMAIN state : state[name] \in MayBe
    /\ main \in {"starting"} \cup Begun =>
        /\ IsSection(Section(<<"gateway">>))
        /\ DOMAIN state = Names(<<"gateway">>)
    /\ main \in Begun => \E name \in DOMAIN state : state[name] # "failed"

IInv == MainInv /\ ProvidersBuilt /\ GatewaysBuilt

-----------------------------------------------------------------------------
(* Recursive functions.                                                    *)

(* A set of numbers that is not empty has a smallest member.               *)
LEMMA SmallestMember ==
    ASSUME NEW T \in SUBSET Nat, T # {}
    PROVE  \E n \in T : \A m \in T : n <= m
<1> DEFINE less == {p \in Nat \X Nat : p[1] < p[2]}
<1>1. OpToRel(<, Nat) = less
  BY Zenon DEF OpToRel
<1>2. IsWellFoundedOn(less, Nat)
  BY <1>1, NatLessThanWellFounded
<1> HIDE DEF less
<1>3. PICK n \in T : \A m \in T : ~(<<m, n>> \in less)
  BY <1>2, WFMin
<1>4. ASSUME NEW m \in T PROVE n <= m
  <2>1. <<m, n>> \in Nat \X Nat /\ <<m, n>>[1] = m /\ <<m, n>>[2] = n
    OBVIOUS
  <2>2. ~(m < n)
    BY <1>3, <2>1 DEF less
  <2> QED
    BY <2>2
<1> QED
  BY <1>4

(* What the first n of the parts lead to.                                  *)
Reaches(root, parts, n, f) ==
    f = [i \in 0 .. n |-> IF i = 0 THEN root ELSE Into(f[i - 1], parts[i])]

(* Any number of parts leads somewhere.                                    *)
LEMMA ReachesSome ==
    ASSUME NEW root, NEW parts, NEW n \in Nat
    PROVE  \E f : Reaches(root, parts, n, f)
<1> DEFINE Bad == {m \in Nat : ~\E f : Reaches(root, parts, m, f)}
<1>1. ASSUME Bad # {} PROVE FALSE
  <2>1. PICK m \in Bad : \A k \in Bad : m <= k
    BY <1>1, SmallestMember
  <2>2. CASE m = 0
    <3>1. Reaches(root, parts, 0, [i \in 0 .. 0 |-> root])
      BY DEF Reaches
    <3> QED
      BY <2>1, <2>2, <3>1
  <2>3. CASE m # 0
    <3>1. m - 1 \in Nat /\ m - 1 \notin Bad
      BY <2>1, <2>3
    <3>2. PICK f : Reaches(root, parts, m - 1, f)
      BY <3>1
    <3> DEFINE g == [i \in 0 .. m |->
                        IF i = m THEN Into(f[m - 1], parts[m]) ELSE f[i]]
    <3>3. ASSUME NEW i \in 0 .. m
          PROVE  g[i] = IF i = 0 THEN root ELSE Into(g[i - 1], parts[i])
      <4>1. CASE i = m
        BY <2>1, <2>3, <4>1
      <4>2. CASE i # m
        <5>1. i \in 0 .. m - 1 /\ (i # 0 => i - 1 \in 0 .. m - 1 /\ i - 1 # m)
          BY <2>1, <4>2
        <5>2. f[i] = IF i = 0 THEN root ELSE Into(f[i - 1], parts[i])
          BY <3>2, <5>1 DEF Reaches
        <5> QED
          BY <4>2, <5>1, <5>2
      <4> QED
        BY <4>1, <4>2
    <3>4. Reaches(root, parts, m, g)
      <4> HIDE DEF g
      <4>1. g = [i \in 0 .. m |-> g[i]]
        BY DEF g
      <4>2. g = [i \in 0 .. m |-> IF i = 0 THEN root ELSE Into(g[i - 1], parts[i])]
        BY <3>3, <4>1
      <4> QED
        BY <4>2 DEF Reaches
    <3> QED
      BY <2>1, <3>4
  <2> QED
    BY <2>2, <2>3
<1> QED
  BY <1>1

(* Part by part, from the root.                                            *)
LEMMA ReachesPart ==
    ASSUME NEW root, NEW parts, NEW n \in Nat, NEW f, Reaches(root, parts, n, f)
    PROVE  /\ f[0] = root
           /\ \A i \in 1 .. n : f[i] = Into(f[i - 1], parts[i])
<1>1. \A i \in 0 .. n : f[i] = IF i = 0 THEN root ELSE Into(f[i - 1], parts[i])
  BY DEF Reaches
<1>2. 0 \in 0 .. n
  OBVIOUS
<1>3. \A i \in 1 .. n : i \in 0 .. n /\ i # 0
  OBVIOUS
<1> QED
  BY <1>1, <1>2, <1>3

(* A path is looked up part by part.                                       *)
LEMMA LookUpReaches ==
    ASSUME NEW root, NEW scope, NEW path, Len(scope \o path) \in Nat
    PROVE  \E f : /\ Reaches(root, scope \o path, Len(scope \o path), f)
                  /\ LookUp(root, scope, path) = f[Len(scope \o path)]
<1> DEFINE parts == scope \o path
           reached == CHOOSE f : f = [i \in 0 .. Len(parts) |->
                         IF i = 0 THEN root ELSE Into(f[i - 1], parts[i])]
<1>1. \E f : Reaches(root, parts, Len(parts), f)
  BY ReachesSome
<1>2. Reaches(root, parts, Len(parts), reached)
  BY <1>1 DEF Reaches
<1>3. LookUp(root, scope, path) = reached[Len(parts)]
  BY DEF LookUp
<1> QED
  BY <1>2, <1>3

(* A path of one part.                                                     *)
LEMMA LookUpOne ==
    ASSUME NEW root, NEW scope, NEW path, Len(scope \o path) = 1
    PROVE  LET parts == scope \o path IN
           LookUp(root, scope, path) = Into(root, parts[1])
<1> DEFINE parts == scope \o path
<1>1. PICK f : /\ Reaches(root, parts, Len(parts), f)
               /\ LookUp(root, scope, path) = f[Len(parts)]
  BY LookUpReaches
<1>2. Len(parts) = 1
  OBVIOUS
<1> HIDE DEF parts
<1>3. f[0] = root /\ \A i \in 1 .. 1 : f[i] = Into(f[i - 1], parts[i])
  BY <1>1, <1>2, ReachesPart
<1>4. f[1] = Into(f[0], parts[1])
  <2>1. 1 - 1 = 0 /\ 1 \in 1 .. 1
    OBVIOUS
  <2> QED
    BY <1>3, <2>1
<1>5. LookUp(root, scope, path) = Into(root, parts[1])
  BY <1>1, <1>2, <1>3, <1>4
<1> QED
  BY <1>5 DEF parts

(* A path of two parts.                                                    *)
LEMMA LookUpTwo ==
    ASSUME NEW root, NEW scope, NEW path, Len(scope \o path) = 2
    PROVE  LET parts == scope \o path IN
           LookUp(root, scope, path) = Into(Into(root, parts[1]), parts[2])
<1> DEFINE parts == scope \o path
<1>1. PICK f : /\ Reaches(root, parts, Len(parts), f)
               /\ LookUp(root, scope, path) = f[Len(parts)]
  BY LookUpReaches
<1>2. Len(parts) = 2
  OBVIOUS
<1> HIDE DEF parts
<1>3. f[0] = root /\ \A i \in 1 .. 2 : f[i] = Into(f[i - 1], parts[i])
  BY <1>1, <1>2, ReachesPart
<1>4. f[1] = Into(f[0], parts[1]) /\ f[2] = Into(f[1], parts[2])
  <2>1. 1 - 1 = 0 /\ 1 \in 1 .. 2 /\ 2 - 1 = 1 /\ 2 \in 1 .. 2
    OBVIOUS
  <2> QED
    BY <1>3, <2>1
<1>5. LookUp(root, scope, path) = Into(Into(root, parts[1]), parts[2])
  BY <1>1, <1>2, <1>3, <1>4
<1> QED
  BY <1>5 DEF parts

(* A path of three parts.                                                  *)
LEMMA LookUpThree ==
    ASSUME NEW root, NEW scope, NEW path, Len(scope \o path) = 3
    PROVE  LET parts == scope \o path IN
           LookUp(root, scope, path) = Into(Into(Into(root, parts[1]), parts[2]), parts[3])
<1> DEFINE parts == scope \o path
<1>1. PICK f : /\ Reaches(root, parts, Len(parts), f)
               /\ LookUp(root, scope, path) = f[Len(parts)]
  BY LookUpReaches
<1>2. Len(parts) = 3
  OBVIOUS
<1> HIDE DEF parts
<1>3. f[0] = root /\ \A i \in 1 .. 3 : f[i] = Into(f[i - 1], parts[i])
  BY <1>1, <1>2, ReachesPart
<1>4. f[1] = Into(f[0], parts[1]) /\ f[2] = Into(f[1], parts[2]) /\ f[3] = Into(f[2], parts[3])
  <2>1. 1 - 1 = 0 /\ 1 \in 1 .. 3 /\ 2 - 1 = 1 /\ 2 \in 1 .. 3 /\ 3 - 1 = 2 /\ 3 \in 1 .. 3
    OBVIOUS
  <2> QED
    BY <1>3, <2>1
<1>5. LookUp(root, scope, path) = Into(Into(Into(root, parts[1]), parts[2]), parts[3])
  BY <1>1, <1>2, <1>3, <1>4
<1> QED
  BY <1>5 DEF parts

-----------------------------------------------------------------------------
(* Resolve.                                                                *)

(* A value resolves alike if its parts do.                                 *)
LEMMA ResolutionOfParts ==
    ASSUME NEW e, NEW f, NEW g, NEW v, \A part \in Parts(v) : f[part] = g[part]
    PROVE  Resolution(e, f, v) = Resolution(e, g, v)
<1>1. CASE v.kind = "array"
  <2>1. [i \in DOMAIN v.items |-> f[v.items[i]]] = [i \in DOMAIN v.items |-> g[v.items[i]]]
    BY <1>1 DEF Parts
  <2> QED
    BY <1>1, <2>1 DEF Resolution
<1>2. CASE v.kind = "table"
  <2>1. [k \in DOMAIN v.fields |-> f[v.fields[k]]] = [k \in DOMAIN v.fields |-> g[v.fields[k]]]
    BY <1>2 DEF Parts
  <2> QED
    BY <1>2, <2>1 DEF Resolution
<1>3. CASE v.kind # "array" /\ v.kind # "table"
  BY <1>3 DEF Resolution
<1> QED
  BY <1>1, <1>2, <1>3

(* The values that are less than n deep, and what they resolve to.         *)
Shallow(n) == {v \in Values : Depth[v] < n}
Resolves(e, n, f) == f = [v \in Shallow(n) |-> Resolution(e, f, v)]

(* For every depth there is a function that resolves what is less deep.    *)
LEMMA ResolvesSome ==
    ASSUME NEW e, NEW n \in Nat
    PROVE  \E f : Resolves(e, n, f)
<1> DEFINE Bad == {m \in Nat : ~\E f : Resolves(e, m, f)}
<1>1. ASSUME Bad # {} PROVE FALSE
  <2>1. PICK m \in Bad : \A k \in Bad : m <= k
    BY <1>1, SmallestMember
  <2>2. CASE m = 0
    <3>1. Shallow(0) = {}
      BY ValuesAssumption DEF Shallow
    <3>2. Resolves(e, 0, [v \in {} |-> {}])
      BY <3>1 DEF Resolves
    <3> QED
      BY <2>1, <2>2, <3>2
  <2>3. CASE m # 0
    <3>1. m - 1 \in Nat /\ m - 1 \notin Bad
      BY <2>1, <2>3
    <3>2. PICK f : Resolves(e, m - 1, f)
      BY <3>1
    <3> DEFINE g == [v \in Shallow(m) |-> Resolution(e, f, v)]
    <3>3. ASSUME NEW v \in Shallow(m), NEW part \in Parts(v)
          PROVE  f[part] = g[part]
      <4>1. part \in Values /\ Depth[part] \in Nat /\ Depth[v] \in Nat
            /\ Depth[part] < Depth[v] /\ Depth[v] < m
        BY ValuesAssumption DEF Shallow
      <4>2. part \in Shallow(m - 1) /\ part \in Shallow(m)
        BY <2>1, <4>1 DEF Shallow
      <4> QED
        BY <3>2, <4>2 DEF Resolves
    <3>4. ASSUME NEW v \in Shallow(m)
          PROVE  Resolution(e, f, v) = Resolution(e, g, v)
      <4> HIDE DEF g
      <4> QED
        BY <3>3, ResolutionOfParts
    <3>5. [v \in Shallow(m) |-> Resolution(e, f, v)] = [v \in Shallow(m) |-> Resolution(e, g, v)]
      <4> HIDE DEF g
      <4> QED
        BY <3>4
    <3>6. Resolves(e, m, g)
      BY <3>5 DEF Resolves
    <3> QED
      BY <2>1, <3>6
  <2> QED
    BY <2>2, <2>3
<1> QED
  BY <1>1

(* What a value resolves to does not depend on how deep the others are.    *)
LEMMA ResolvesAlike ==
    ASSUME NEW e, NEW m \in Nat, NEW n \in Nat, NEW f, NEW g,
           Resolves(e, m, f), Resolves(e, n, g),
           NEW v \in Shallow(m) \cap Shallow(n)
    PROVE  f[v] = g[v]
<1> DEFINE Both == Shallow(m) \cap Shallow(n)
           Bad == {d \in Nat : \E w \in Both : Depth[w] = d /\ f[w] # g[w]}
<1>1. \A w \in Both : Depth[w] \in Nat
  BY ValuesAssumption DEF Shallow
<1>2. ASSUME Bad # {} PROVE FALSE
  <2>1. PICK d \in Bad : \A k \in Bad : d <= k
    BY <1>2, SmallestMember
  <2>2. PICK w \in Both : Depth[w] = d /\ f[w] # g[w]
    BY <2>1
  <2>3. ASSUME NEW part \in Parts(w) PROVE f[part] = g[part]
    <3>1. w \in Values /\ Depth[w] < m /\ Depth[w] < n
      BY <2>2 DEF Shallow
    <3>2. part \in Values /\ Depth[part] \in Nat /\ Depth[part] < d
      BY <2>2, <3>1, ValuesAssumption
    <3>3. part \in Both
      BY <1>1, <2>2, <3>1, <3>2 DEF Shallow
    <3>4. Depth[part] \notin Bad
      BY <2>1, <3>2
    <3> QED
      BY <3>2, <3>3, <3>4
  <2>4. Resolution(e, f, w) = Resolution(e, g, w)
    BY <2>3, ResolutionOfParts
  <2>5. f[w] = Resolution(e, f, w) /\ g[w] = Resolution(e, g, w)
    BY <2>2 DEF Resolves
  <2> QED
    BY <2>2, <2>4, <2>5
<1> QED
  BY <1>1, <1>2

(* Resolve is what its definition says: the text a directive names, or the *)
(* same array or table with its parts resolved.                            *)
LEMMA ResolveDefined ==
    ASSUME NEW e, NEW v \in Values
    PROVE  Resolve(e, v) = Resolution(e, [w \in Values |-> Resolve(e, w)], v)
<1> DEFINE Sol(n) == CHOOSE f : Resolves(e, n, f)
           r == [w \in Values |-> Sol(Depth[w] + 1)[w]]
           resolved == CHOOSE f : f = [w \in Values |-> Resolution(e, f, w)]
<1>1. ASSUME NEW n \in Nat PROVE Resolves(e, n, Sol(n))
  BY ResolvesSome
<1>2. ASSUME NEW w \in Values
      PROVE  Depth[w] + 1 \in Nat /\ w \in Shallow(Depth[w] + 1)
  BY ValuesAssumption DEF Shallow
<1> HIDE DEF Sol
<1>3. ASSUME NEW w \in Values
      PROVE  r[w] = Resolution(e, r, w)
  <2> DEFINE d == Depth[w] + 1
             f == Sol(d)
  <2>1. d \in Nat /\ w \in Shallow(d)
    BY <1>2
  <2>2. Resolves(e, d, f)
    BY <1>1, <2>1
  <2>3. ASSUME NEW part \in Parts(w) PROVE f[part] = r[part]
    <3> DEFINE c == Depth[part] + 1
               g == Sol(c)
    <3>1. part \in Values /\ Depth[part] < Depth[w] /\ Depth[part] \in Nat /\ Depth[w] \in Nat
      BY ValuesAssumption
    <3>2. c \in Nat /\ part \in Shallow(c) /\ part \in Shallow(d)
      BY <3>1 DEF Shallow
    <3>3. Resolves(e, c, g)
      BY <1>1, <3>2
    <3>4. r[part] = g[part]
      BY <3>1
    <3> HIDE DEF c, g, d, f, r
    <3>5. f[part] = g[part]
      BY <2>1, <2>2, <3>2, <3>3, ResolvesAlike
    <3> QED
      BY <3>4, <3>5
  <2>4. r[w] = f[w]
    OBVIOUS
  <2> HIDE DEF d, f, r
  <2>5. f[w] = Resolution(e, f, w)
    BY <2>1, <2>2 DEF Resolves
  <2>6. Resolution(e, f, w) = Resolution(e, r, w)
    BY <2>3, ResolutionOfParts
  <2> QED
    BY <2>4, <2>5, <2>6
<1>4. r = [w \in Values |-> r[w]]
  OBVIOUS
<1> HIDE DEF r
<1>5. r = [w \in Values |-> Resolution(e, r, w)]
  BY <1>3, <1>4
<1>6. resolved = [w \in Values |-> Resolution(e, resolved, w)]
  BY <1>5
<1>7. \A w : Resolve(e, w) = resolved[w]
  BY DEF Resolve
<1> HIDE DEF resolved
<1>8. ASSUME NEW part \in Parts(v)
      PROVE  resolved[part] = [w \in Values |-> Resolve(e, w)][part]
  BY <1>7, ValuesAssumption
<1>9. Resolution(e, resolved, v) = Resolution(e, [w \in Values |-> Resolve(e, w)], v)
  BY <1>8, ResolutionOfParts
<1> QED
  BY <1>6, <1>7, <1>9

(* What resolves to a table is a table with the same keys, and each of its *)
(* fields is resolved.                                                     *)
LEMMA ResolveTable ==
    ASSUME NEW e, NEW v \in Values, Resolve(e, v).kind = "table"
    PROVE  /\ v.kind = "table"
           /\ DOMAIN Resolve(e, v).fields = DOMAIN v.fields
           /\ \A k \in DOMAIN v.fields :
                /\ v.fields[k] \in Values
                /\ Resolve(e, v).fields[k] = Resolve(e, v.fields[k])
<1> DEFINE resolved == [w \in Values |-> Resolve(e, w)]
           it == Resolution(e, resolved, v)
<1>1. Resolve(e, v) = it
  BY ResolveDefined
<1> HIDE DEF resolved
<1>2. it.kind = "table"
  BY <1>1
<1>3. ~IsDirective(v)
  BY <1>2 DEF Resolution, Fetch, Text, Error
<1>4. it = IF \E part \in Parts(v) : resolved[part] = Error THEN Error
           ELSE IF v.kind = "array" THEN Array([i \in DOMAIN v.items |-> resolved[v.items[i]]])
           ELSE IF v.kind = "table" THEN Table([k \in DOMAIN v.fields |-> resolved[v.fields[k]]])
           ELSE v
  BY <1>3 DEF Resolution
<1> HIDE DEF it
<1>5. ~\E part \in Parts(v) : resolved[part] = Error
  BY <1>2, <1>4 DEF Error
<1>6. v.kind # "array"
  BY <1>2, <1>4, <1>5 DEF Array
<1>7. v.kind = "table"
  BY <1>2, <1>4, <1>5, <1>6
<1>8. it = Table([k \in DOMAIN v.fields |-> resolved[v.fields[k]]])
  BY <1>4, <1>5, <1>7
<1>9. it.fields = [k \in DOMAIN v.fields |-> resolved[v.fields[k]]]
  BY <1>8 DEF Table
<1>10. ASSUME NEW k \in DOMAIN v.fields
       PROVE  v.fields[k] \in Values /\ it.fields[k] = Resolve(e, v.fields[k])
  <2>1. v.fields[k] \in Values
    BY <1>7, ValuesAssumption DEF Parts
  <2>2. resolved[v.fields[k]] = Resolve(e, v.fields[k])
    BY <2>1 DEF resolved
  <2> QED
    BY <1>9, <2>1, <2>2
<1> QED
  BY <1>1, <1>7, <1>9, <1>10

-----------------------------------------------------------------------------
(* Sections of the configuration, and their entries.                       *)

Nonempty(part) == part # ""

(* What is looked up in a section.                                         *)
LEMMA LookUpSection ==
    ASSUME NEW root, NEW p, NEW q
    PROVE  LookUp(root, <<p>>, <<q>>) = Into(Into(root, p), q)
<1> DEFINE scope == <<p>>
           path == <<q>>
<1>1. Len(scope \o path) = 2 /\ (scope \o path)[1] = p /\ (scope \o path)[2] = q
  OBVIOUS
<1> HIDE DEF scope, path
<1>2. LookUp(root, scope, path) = Into(Into(root, p), q)
  BY <1>1, LookUpTwo
<1> QED
  BY <1>2 DEF scope, path

(* What is looked up in an entry of a section.                             *)
LEMMA LookUpEntry ==
    ASSUME NEW root, NEW p, NEW q, NEW r
    PROVE  LookUp(root, Scoped(<<p>>, <<q>>), <<r>>) = Into(Into(Into(root, p), q), r)
<1> DEFINE scope == Scoped(<<p>>, <<q>>)
           path == <<r>>
           parts == scope \o path
<1>1. Len(parts) = 3 /\ parts[1] = p /\ parts[2] = q /\ parts[3] = r
  BY DEF Scoped
<1> HIDE DEF scope, path
<1>2. LookUp(root, scope, path) = Into(Into(Into(root, p), q), r)
  BY <1>1, LookUpThree
<1> QED
  BY <1>2 DEF scope, path

(* What is looked up in a value by itself.                                 *)
LEMMA LookUpKey ==
    ASSUME NEW root, NEW p
    PROVE  LookUp(root, <<>>, <<p>>) = Into(root, p)
<1> DEFINE scope == <<>>
           path == <<p>>
<1>1. Len(scope \o path) = 1 /\ (scope \o path)[1] = p
  OBVIOUS
<1> HIDE DEF scope, path
<1>2. LookUp(root, scope, path) = Into(root, p)
  BY <1>1, LookUpOne
<1> QED
  BY <1>2 DEF scope, path

(* A sequence of one part is that part.                                    *)
LEMMA OnePart ==
    ASSUME NEW S, NEW name \in Seq(S), Len(name) = 1
    PROVE  name = <<name[1]>>
OBVIOUS

(* A section that is a table is one in the file, its entries are those of  *)
(* the file, and each of them is resolved by itself.                       *)
LEMMA SectionOfFile ==
    ASSUME NEW s, Nonempty(s), file \in Files, Loaded,
           Section(<<s>>).kind = "table"
    PROVE  /\ Section(<<s>>) = Into(values, s)
           /\ file.fields[<<s>>] \in Values
           /\ file.fields[<<s>>].kind = "table"
           /\ DOMAIN Section(<<s>>).fields = DOMAIN file.fields[<<s>>].fields
           /\ \A name \in DOMAIN Section(<<s>>).fields :
                Section(<<s>>).fields[name] = Resolve(external, file.fields[<<s>>].fields[name])
<1>2. Section(<<s>>) = Into(values, s)
  <2> DEFINE none == ""
  <2>1. Into(Into(values, s), none) = Into(values, s)
    BY DEF Into, none
  <2> HIDE DEF none
  <2>2. Section(<<s>>) = LookUp(values, <<s>>, <<none>>)
    BY DEF Section, none
  <2> QED
    BY <2>1, <2>2, LookUpSection
<1>3. values.kind = "table" /\ <<s>> \in DOMAIN values.fields /\ Into(values, s) = values.fields[<<s>>]
  <2>1. CASE values.kind = "table" /\ <<s>> \in DOMAIN values.fields
    BY <2>1 DEF Into, Nonempty
  <2>2. CASE ~(values.kind = "table" /\ <<s>> \in DOMAIN values.fields)
    <3>1. Into(values, s) = Error
      BY <2>2 DEF Into, Nonempty
    <3>2. Error.kind # "table"
      BY DEF Error
    <3> QED
      BY <1>2, <3>1, <3>2
  <2> QED
    BY <2>1, <2>2
<1>4. file \in Values /\ Resolve(external, file).kind = "table"
  BY <1>3, FilesAssumption DEF Loaded
<1>5. /\ <<s>> \in DOMAIN file.fields
      /\ file.fields[<<s>>] \in Values
      /\ values.fields[<<s>>] = Resolve(external, file.fields[<<s>>])
  BY <1>3, <1>4, ResolveTable DEF Loaded
<1>6. Section(<<s>>) = Resolve(external, file.fields[<<s>>])
  BY <1>2, <1>3, <1>5
<1>7. /\ file.fields[<<s>>].kind = "table"
      /\ DOMAIN Section(<<s>>).fields = DOMAIN file.fields[<<s>>].fields
      /\ \A name \in DOMAIN file.fields[<<s>>].fields :
            Section(<<s>>).fields[name] = Resolve(external, file.fields[<<s>>].fields[name])
  <2> DEFINE own == file.fields[<<s>>]
  <2>1. own \in Values /\ Section(<<s>>) = Resolve(external, own)
    BY <1>5, <1>6
  <2> HIDE DEF own
  <2>2. /\ own.kind = "table"
        /\ DOMAIN Resolve(external, own).fields = DOMAIN own.fields
        /\ \A name \in DOMAIN own.fields :
            Resolve(external, own).fields[name] = Resolve(external, own.fields[name])
    BY <2>1, ResolveTable
  <2> QED
    BY <2>1, <2>2 DEF own
<1> QED
  BY <1>2, <1>5, <1>7

(* What is looked up within the scope of an entry with a plain name is     *)
(* looked up in that entry.                                                *)
LEMMA EntryLookUp ==
    ASSUME NEW s, Nonempty(s), file \in Files, Loaded,
           Section(<<s>>).kind = "table",
           NEW p, Nonempty(p), <<p>> \in DOMAIN Section(<<s>>).fields,
           NEW key
    PROVE  LookUp(values, Scoped(<<s>>, <<p>>), <<key>>)
             = LookUp(Section(<<s>>).fields[<<p>>], <<>>, <<key>>)
<1> DEFINE entry == Section(<<s>>).fields[<<p>>]
<1>2. LookUp(values, Scoped(<<s>>, <<p>>), <<key>>) = Into(Into(Into(values, s), p), key)
  BY LookUpEntry
<1>3. Into(values, s) = Section(<<s>>)
  BY SectionOfFile
<1>4. Into(Section(<<s>>), p) = entry
  BY DEF Into, Nonempty
<1>6. LookUp(entry, <<>>, <<key>>) = Into(entry, key)
  BY LookUpKey
<1> QED
  BY <1>2, <1>3, <1>4, <1>6

(* So what is built from the configuration in that scope is built from the *)
(* entry.                                                                  *)
LEMMA EntrySettings ==
    ASSUME NEW s, Nonempty(s), file \in Files, Loaded,
           Section(<<s>>).kind = "table",
           NEW name \in DOMAIN Section(<<s>>).fields, IsPlain(name)
    PROVE  LET own == Resolve(external, file.fields[<<s>>].fields[name]) IN
           /\ DiscordSettings(values, Scoped(<<s>>, name)) = DiscordSettings(own, <<>>)
           /\ OpenAISettings(values, Scoped(<<s>>, name)) = OpenAISettings(own, <<>>)
<1> DEFINE own == Resolve(external, file.fields[<<s>>].fields[name])
<1>1. /\ file.fields[<<s>>] \in Values
      /\ file.fields[<<s>>].kind = "table"
      /\ name \in DOMAIN file.fields[<<s>>].fields
      /\ Section(<<s>>).fields[name] = own
  BY SectionOfFile
<1>2. name \in Seq(STRING)
  BY <1>1, ValuesAssumption
<1>3. PICK p : Nonempty(p) /\ name = <<p>>
  <2>1. name = <<name[1]>>
    BY <1>2, OnePart DEF IsPlain
  <2>2. Nonempty(name[1])
    BY DEF IsPlain, Nonempty
  <2> QED
    BY <2>1, <2>2
<1> HIDE DEF own
<1>4. \A key : LookUp(values, Scoped(<<s>>, name), <<key>>) = LookUp(own, <<>>, <<key>>)
  BY <1>1, <1>3, EntryLookUp
<1> DEFINE scope == Scoped(<<s>>, name)
<1>5. DiscordSettings(values, scope) = DiscordSettings(own, <<>>)
  <2>1. /\ LookUp(values, scope, <<"token">>) = LookUp(own, <<>>, <<"token">>)
        /\ LookUp(values, scope, <<"allowed-channels">>) = LookUp(own, <<>>, <<"allowed-channels">>)
    BY <1>4
  <2> HIDE DEF scope
  <2> QED
    BY <2>1, Zenon DEF DiscordSettings, Read
<1>6. OpenAISettings(values, scope) = OpenAISettings(own, <<>>)
  <2>1. /\ LookUp(values, scope, <<"base-url">>) = LookUp(own, <<>>, <<"base-url">>)
        /\ LookUp(values, scope, <<"api-key">>) = LookUp(own, <<>>, <<"api-key">>)
    BY <1>4
  <2> HIDE DEF scope
  <2> QED
    BY <2>1, Zenon DEF OpenAISettings, Read
<1> QED
  BY <1>5, <1>6 DEF own

-----------------------------------------------------------------------------
(* The invariant.                                                          *)

(* It holds when the program starts.                                       *)
LEMMA InitIInv == Init => IInv
<1> SUFFICES ASSUME Init PROVE IInv
  OBVIOUS
<1>1. DOMAIN Empty = {}
  BY DEF Empty
<1>2. MainInv
  BY <1>1 DEF Init, MainInv, Places, Before, Begun
<1>3. ProvidersBuilt /\ GatewaysBuilt
  BY <1>1 DEF Init, ProvidersBuilt, GatewaysBuilt
<1> QED
  BY <1>2, <1>3 DEF IInv

(* A step that leaves the configuration alone leaves a section as it is.   *)
LEMMA SameSection ==
    ASSUME UNCHANGED <<inputs, values>>, NEW section
    PROVE  /\ Section(section)' = Section(section)
           /\ Names(section)' = Names(section)
           /\ Loaded' = Loaded
BY DEF inputs, Section, Names, Loaded

(* Every step of main but Boot leaves the configuration alone, and so do   *)
(* the steps of the gateways.                                              *)
LEMMA BuiltStep ==
    ASSUME IInv, UNCHANGED <<inputs, values>>
    PROVE  /\ UNCHANGED providers => ProvidersBuilt'
           /\ UNCHANGED gateways => GatewaysBuilt'
<1>1. ASSUME UNCHANGED providers PROVE ProvidersBuilt'
  BY <1>1, SameSection DEF IInv, ProvidersBuilt
<1>2. ASSUME UNCHANGED gateways PROVE GatewaysBuilt'
  BY <1>2, SameSection DEF IInv, GatewaysBuilt
<1> QED
  BY <1>1, <1>2

(* The file is read: nothing is built yet.                                 *)
LEMMA BootStep == IInv /\ Boot => IInv'
<1> SUFFICES ASSUME IInv, Boot PROVE IInv'
  OBVIOUS
<1>1. DOMAIN providers = {} /\ DOMAIN gateways = {} /\ DOMAIN state = {}
  BY DEF IInv, MainInv, MayBe, Before, Begun, Boot
<1>2. /\ main' \in {"providers", "failed"}
      /\ Loaded'
      /\ UNCHANGED <<inputs, providers, gateways, state>>
  BY DEF Boot, Loaded, inputs
<1>3. MainInv'
  BY <1>1, <1>2 DEF IInv, MainInv, Places, Before, Begun, inputs
<1>4. ProvidersBuilt' /\ GatewaysBuilt'
  BY <1>1, <1>2 DEF ProvidersBuilt, GatewaysBuilt
<1> QED
  BY <1>3, <1>4 DEF IInv

(* Main goes on, or fails, before any gateway is started.                  *)
LEMMA BeforeStep ==
    ASSUME IInv, main \in Before \ {"boot"}, main' \in (Before \ {"boot"}) \cup {"failed"},
           UNCHANGED <<inputs, values, state>>
    PROVE  MainInv'
<1>1. DOMAIN state = {}
  BY DEF IInv, MainInv, MayBe, Before, Begun
<1>2. Loaded'
  BY SameSection DEF IInv, MainInv
<1> QED
  BY <1>1, <1>2 DEF IInv, MainInv, Places, Before, Begun, inputs

(* A provider is built from its entry, or nothing changes.                 *)
LEMMA ApplyProvidersStep == IInv /\ ApplyProviders => IInv'
<1> SUFFICES ASSUME IInv, ApplyProviders PROVE IInv'
  OBVIOUS
<1> DEFINE section == Section(<<"provider">>)
           built == [name \in DOMAIN section.fields |->
                        OpenAISettings(values, Scoped(<<"provider">>, name))]
<1>1. /\ main = "providers"
      /\ main' \in {"model", "failed"}
      /\ UNCHANGED <<inputs, values, gateways, state>>
      /\ \/ UNCHANGED providers
         \/ IsSection(section) /\ providers' = built
  BY DEF ApplyProviders, Section
<1>2. MainInv'
  BY <1>1, BeforeStep DEF Before
<1>3. GatewaysBuilt'
  BY <1>1, BuiltStep
<1>4. ProvidersBuilt'
  <2>1. CASE UNCHANGED providers
    BY <1>1, <2>1, BuiltStep
  <2>2. CASE IsSection(section) /\ providers' = built
    <3>1. Loaded
      BY <1>1 DEF IInv, MainInv, Before
    <3>2. /\ Loaded' /\ Section(<<"provider">>)' = section
          /\ values' = values
      BY <1>1, <3>1, SameSection
    <3> HIDE DEF section
    <3>3. \A name \in DOMAIN providers' :
            /\ name \in DOMAIN section.fields
            /\ providers'[name] = OpenAISettings(values, Scoped(<<"provider">>, name))
      BY <2>2
    <3> QED
      BY <2>2, <3>2, <3>3 DEF ProvidersBuilt
  <2> QED
    BY <1>1, <2>1, <2>2
<1> QED
  BY <1>2, <1>3, <1>4 DEF IInv

(* The model is read: what is built stays.                                 *)
LEMMA ReadModelStep == IInv /\ ReadModel => IInv'
<1> SUFFICES ASSUME IInv, ReadModel PROVE IInv'
  OBVIOUS
<1>1. /\ main = "model"
      /\ main' \in {"loading", "failed"}
      /\ UNCHANGED <<inputs, values, providers, gateways, state>>
  BY DEF ReadModel
<1>2. MainInv'
  BY <1>1, BeforeStep DEF Before
<1> QED
  BY <1>1, <1>2, BuiltStep DEF IInv

(* A gateway is built from its entry, or main fails.                       *)
LEMMA LoadGatewayStep == IInv /\ LoadGateway => IInv'
<1> SUFFICES ASSUME IInv, LoadGateway PROVE IInv'
  OBVIOUS
<1> DEFINE section == Section(<<"gateway">>)
           settings(name) == DiscordSettings(values, Scoped(<<"gateway">>, name))
<1>1. /\ main = "loading"
      /\ main' \in {"loading", "failed"}
      /\ UNCHANGED <<inputs, values, providers, state>>
      /\ \/ UNCHANGED gateways
         \/ /\ IsSection(section)
            /\ \E name \in DOMAIN section.fields \ DOMAIN gateways :
                gateways' = Insert(gateways, name, settings(name))
  BY DEF LoadGateway, Section, Names
<1>2. MainInv'
  BY <1>1, BeforeStep DEF Before
<1>3. ProvidersBuilt'
  BY <1>1, BuiltStep
<1>4. GatewaysBuilt'
  <2>1. CASE UNCHANGED gateways
    BY <1>1, <2>1, BuiltStep
  <2>2. ASSUME IsSection(section),
               NEW name \in DOMAIN section.fields \ DOMAIN gateways,
               gateways' = Insert(gateways, name, settings(name))
        PROVE  GatewaysBuilt'
    <3>1. Loaded
      BY <1>1 DEF IInv, MainInv, Before
    <3>2. /\ Loaded' /\ Section(<<"gateway">>)' = section
          /\ values' = values
      BY <1>1, <3>1, SameSection
    <3>3. \A n \in DOMAIN gateways : n \in DOMAIN section.fields /\ gateways[n] = settings(n)
      BY DEF IInv, GatewaysBuilt
    <3> HIDE DEF section, settings
    <3>4. \A n \in DOMAIN gateways' : n \in DOMAIN section.fields /\ gateways'[n] = settings(n)
      BY <2>2, <3>3 DEF Insert
    <3> QED
      BY <2>2, <3>2, <3>4 DEF GatewaysBuilt, settings
  <2> QED
    BY <1>1, <2>1, <2>2
<1> QED
  BY <1>2, <1>3, <1>4 DEF IInv

(* All the gateways of the section start.                                  *)
LEMMA RunAllStep == IInv /\ RunAll => IInv'
<1> SUFFICES ASSUME IInv, RunAll PROVE IInv'
  OBVIOUS
<1>1. /\ main = "loading" /\ main' = "starting"
      /\ UNCHANGED <<inputs, values, providers, gateways>>
      /\ IsSection(Section(<<"gateway">>))
      /\ Names(<<"gateway">>) = DOMAIN gateways
      /\ state' = [name \in DOMAIN gateways |-> "starting"]
  BY DEF RunAll, Section
<1>2. MainInv'
  <2>1. Loaded'
    BY <1>1, SameSection DEF IInv, MainInv, Before
  <2>2. IsSection(Section(<<"gateway">>))' /\ Names(<<"gateway">>)' = Names(<<"gateway">>)
    BY <1>1, SameSection
  <2>3. \A name \in DOMAIN state' : state'[name] \in MayBe'
    BY <1>1 DEF MayBe, Before, Begun
  <2> QED
    BY <1>1, <2>1, <2>2, <2>3 DEF IInv, MainInv, Places, Before, Begun, inputs
<1> QED
  BY <1>1, <1>2, BuiltStep DEF IInv

(* A gateway moves to a state that main allows.                            *)
LEMMA MoveStep ==
    ASSUME IInv, NEW name \in DOMAIN state, NEW from, NEW to,
           Move(name, from, to), to \in MayBe, main \in Begun => to # "failed"
    PROVE  IInv'
<1>1. /\ UNCHANGED <<inputs, values, main, providers, gateways>>
      /\ DOMAIN state' = DOMAIN state
      /\ \A n \in DOMAIN state : state'[n] = IF n = name THEN to ELSE state[n]
  BY DEF Move
<1>2. MainInv'
  <2>1. Loaded' = Loaded
    BY <1>1, SameSection
  <2>2. /\ Section(<<"gateway">>)' = Section(<<"gateway">>)
        /\ Names(<<"gateway">>)' = Names(<<"gateway">>)
    BY <1>1, SameSection
  <2>3. MayBe' = MayBe
    BY <1>1 DEF MayBe, Begun
  <2>4. \A n \in DOMAIN state' : state'[n] \in MayBe'
    BY <1>1, <2>3 DEF IInv, MainInv
  <2>5. main' \in Begun => \E n \in DOMAIN state' : state'[n] # "failed"
    BY <1>1 DEF IInv, MainInv
  <2> QED
    BY <1>1, <2>1, <2>2, <2>4, <2>5 DEF IInv, MainInv, inputs
<1> QED
  BY <1>1, <1>2, BuiltStep DEF IInv

(* A gateway starts or fails to while main waits for it, ends at any time, *)
(* and is closed while main waits for that.                                *)
LEMMA GatewaySteps ==
    ASSUME IInv, NEW name \in DOMAIN state,
           Started(name) \/ StartFails(name) \/ ShardEnds(name) \/ Closed(name)
    PROVE  IInv'
<1>1. state[name] \in MayBe
  BY DEF IInv, MainInv
<1>2. CASE Started(name)
  <2>1. Move(name, "starting", "running") /\ state[name] = "starting"
    BY <1>2 DEF Started, Move
  <2>2. main = "starting" /\ "running" \in MayBe
    BY <1>1, <2>1 DEF MayBe
  <2> QED
    BY <2>1, <2>2, MoveStep DEF Begun
<1>3. CASE StartFails(name)
  <2>1. Move(name, "starting", "failed") /\ state[name] = "starting"
    BY <1>3 DEF StartFails, Move
  <2>2. main = "starting" /\ "failed" \in MayBe
    BY <1>1, <2>1 DEF MayBe, Before, Begun
  <2> QED
    BY <2>1, <2>2, MoveStep DEF Begun
<1>4. CASE ShardEnds(name)
  <2>1. Move(name, "running", "ended") /\ state[name] = "running"
    BY <1>4 DEF ShardEnds, Move
  <2>2. "ended" \in MayBe
    BY <1>1, <2>1 DEF MayBe, Before, Begun
  <2> QED
    BY <2>1, <2>2, MoveStep DEF Begun
<1>5. CASE Closed(name)
  <2>1. Move(name, "closing", "ended") /\ state[name] = "closing"
    BY <1>5 DEF Closed, Move
  <2>2. "ended" \in MayBe
    BY <1>1, <2>1 DEF MayBe, Before, Begun
  <2> QED
    BY <2>1, <2>2, MoveStep DEF Begun
<1> QED
  BY <1>2, <1>3, <1>4, <1>5

(* All starts are settled: the gateways are what main allows in its next   *)
(* place.                                                                  *)
LEMMA RunReturnsStep == IInv /\ RunReturns => IInv'
<1> SUFFICES ASSUME IInv, RunReturns PROVE IInv'
  OBVIOUS
<1>1. /\ main = "starting"
      /\ \A name \in DOMAIN state : state[name] # "starting"
      /\ UNCHANGED <<inputs, values, providers, gateways, state>>
      /\ main' = IF \E name \in DOMAIN state : state[name] # "failed"
                 THEN "started" ELSE "failed"
  BY DEF RunReturns
<1>2. MainInv'
  <2>1. Loaded' /\ IsSection(Section(<<"gateway">>))'
        /\ Names(<<"gateway">>)' = Names(<<"gateway">>)
    BY <1>1, SameSection DEF IInv, MainInv
  <2>2. \A name \in DOMAIN state' : state'[name] \in MayBe'
    BY <1>1 DEF IInv, MainInv, MayBe, Before, Begun
  <2> QED
    BY <1>1, <2>1, <2>2 DEF IInv, MainInv, Places, Before, Begun, inputs
<1> QED
  BY <1>1, <1>2, BuiltStep DEF IInv

(* main listens for signals, or cannot: nothing changes for the gateways.  *)
LEMMA ListenStep == IInv /\ Listen => IInv'
<1> SUFFICES ASSUME IInv, Listen PROVE IInv'
  OBVIOUS
<1>1. /\ main = "started" /\ main' \in {"serving", "deaf"}
      /\ UNCHANGED <<inputs, values, providers, gateways, state>>
  BY DEF Listen
<1>2. MainInv'
  <2>1. Loaded' /\ IsSection(Section(<<"gateway">>))'
        /\ Names(<<"gateway">>)' = Names(<<"gateway">>)
    BY <1>1, SameSection DEF IInv, MainInv, Begun
  <2>2. \A name \in DOMAIN state' : state'[name] \in MayBe'
    BY <1>1 DEF IInv, MainInv, MayBe, Before, Begun
  <2> QED
    BY <1>1, <2>1, <2>2 DEF IInv, MainInv, Places, Before, Begun, inputs
<1> QED
  BY <1>1, <1>2, BuiltStep DEF IInv

(* A signal, the end of the process, the return of main: all the gateways  *)
(* stop, or are gone.                                                      *)
LEMMA EndSteps == IInv /\ (Signal \/ Killed \/ Exit) => IInv'
<1> SUFFICES ASSUME IInv, Signal \/ Killed \/ Exit PROVE IInv'
  OBVIOUS
<1>1. UNCHANGED <<inputs, values, providers, gateways>>
  BY DEF Signal, Killed, Exit
<1>2. main' \in {"stopping", "killed", "exited"}
  BY DEF Signal, Killed, Exit
<1>3. \A name \in DOMAIN state' : state'[name] \in MayBe'
  <2>1. CASE Signal
    BY <2>1 DEF Signal, IInv, MainInv, MayBe, Before, Begun
  <2>2. CASE Killed
    BY <2>2 DEF Killed, IInv, MainInv, MayBe, Before, Begun
  <2>3. CASE Exit
    BY <2>3 DEF Exit, IInv, MainInv, MayBe, Before, Begun
  <2> QED
    BY <2>1, <2>2, <2>3
<1>4. MainInv'
  BY <1>1, <1>2, <1>3 DEF IInv, MainInv, Places, Before, Begun, inputs
<1> QED
  BY <1>1, <1>4, BuiltStep DEF IInv

(* Every step preserves the invariant.                                     *)
LEMMA NextIInv == IInv /\ [Next]_vars => IInv'
<1> SUFFICES ASSUME IInv, [Next]_vars PROVE IInv'
  OBVIOUS
<1>1. CASE UNCHANGED vars
  <2>1. UNCHANGED <<inputs, values, main, providers, gateways, state>>
    BY <1>1 DEF vars
  <2>2. MainInv'
    BY <2>1, SameSection DEF IInv, MainInv, MayBe, Begun, inputs
  <2> QED
    BY <2>1, <2>2, BuiltStep DEF IInv
<1>2. CASE Main
  BY <1>2, BootStep, ApplyProvidersStep, ReadModelStep, LoadGatewayStep,
     RunAllStep, RunReturnsStep, ListenStep, EndSteps DEF Main
<1>3. CASE Signal \/ Killed
  BY <1>3, EndSteps
<1>4. CASE \E name \in DOMAIN state :
            Started(name) \/ StartFails(name) \/ ShardEnds(name) \/ Closed(name)
  BY <1>4, GatewaySteps
<1> QED
  BY <1>1, <1>2, <1>3, <1>4 DEF Next

(* main.rs and gateway.rs: in every reachable state main and the gateways  *)
(* are where the invariant says, and what is built comes from its section. *)
THEOREM StartupInvariance == Spec => []IInv
BY InitIInv, NextIInv, PTL DEF Spec

-----------------------------------------------------------------------------
(* The properties.                                                         *)

(* gateway.rs:65-101, main.rs:151-164: once gateways were started, main    *)
(* returns only when each has failed or ended, in all ways but one: when   *)
(* it cannot listen for signals they may run.  It serves, or tries to,     *)
(* only if one of the gateways of the file has started.                    *)
THEOREM StartupNoOrphan == Spec => []NoOrphan
<1>1. ASSUME IInv PROVE NoOrphan
  <2>1. ASSUME main \in {"failed", "exited"}, NEW name \in DOMAIN state
        PROVE  state[name] \in {"failed", "ended"}
    BY <1>1, <2>1 DEF IInv, MainInv, MayBe, Begun
  <2>2. ASSUME main = "deaf", NEW name \in DOMAIN state
        PROVE  state[name] \in {"running", "failed", "ended"}
    BY <1>1, <2>2 DEF IInv, MainInv, MayBe
  <2>3. ASSUME main \in {"started", "serving", "deaf"}
        PROVE  /\ \E name \in DOMAIN state : state[name] \in {"running", "ended"}
               /\ DOMAIN state = DOMAIN file.fields[<<"gateway">>].fields
    <3> DEFINE g == "gateway"
    <3>1. \E name \in DOMAIN state : state[name] \in {"running", "ended"}
      BY <1>1, <2>3 DEF IInv, MainInv, MayBe, Begun
    <3>2. /\ Nonempty(g) /\ file \in Files /\ Loaded
          /\ Section(<<g>>).kind = "table"
          /\ DOMAIN state = DOMAIN Section(<<g>>).fields
      BY <1>1, <2>3 DEF IInv, MainInv, Begun, Nonempty, Names, Section, IsSection
    <3> HIDE DEF g
    <3>3. DOMAIN Section(<<g>>).fields = DOMAIN file.fields[<<g>>].fields
      BY <3>2, SectionOfFile
    <3> QED
      BY <3>1, <3>2, <3>3 DEF g
  <2> QED
    BY <2>1, <2>2, <2>3 DEF NoOrphan
<1> QED
  BY <1>1, StartupInvariance, PTL

(* config.rs:53-68, gateway.rs:44-63, providers.rs:31-58: a gateway or a   *)
(* provider with a plain name is built from its own entry, directives      *)
(* replaced, whatever the configuration is.                                *)
THEOREM StartupOwnSection == Spec => []OwnSection
<1>1. ASSUME IInv PROVE OwnSection
  <2>1. ASSUME NEW name \in DOMAIN gateways, IsPlain(name)
        PROVE  gateways[name] = DiscordSettings(
                    Resolve(external, file.fields[<<"gateway">>].fields[name]), <<>>)
    <3> DEFINE g == "gateway"
    <3>1. /\ Nonempty(g) /\ file \in Files /\ Loaded
          /\ Section(<<g>>).kind = "table"
          /\ name \in DOMAIN Section(<<g>>).fields
          /\ gateways[name] = DiscordSettings(values, Scoped(<<g>>, name))
      BY <1>1 DEF IInv, MainInv, GatewaysBuilt, Nonempty, IsSection
    <3> HIDE DEF g
    <3>2. gateways[name] = DiscordSettings(Resolve(external, file.fields[<<g>>].fields[name]), <<>>)
      BY <2>1, <3>1, EntrySettings
    <3> QED
      BY <3>2 DEF g
  <2>2. ASSUME NEW name \in DOMAIN providers, IsPlain(name)
        PROVE  providers[name] = OpenAISettings(
                    Resolve(external, file.fields[<<"provider">>].fields[name]), <<>>)
    <3> DEFINE p == "provider"
    <3>1. /\ Nonempty(p) /\ file \in Files /\ Loaded
          /\ Section(<<p>>).kind = "table"
          /\ name \in DOMAIN Section(<<p>>).fields
          /\ providers[name] = OpenAISettings(values, Scoped(<<p>>, name))
      BY <1>1 DEF IInv, MainInv, ProvidersBuilt, Nonempty, IsSection
    <3> HIDE DEF p
    <3>2. providers[name] = OpenAISettings(Resolve(external, file.fields[<<p>>].fields[name]), <<>>)
      BY <2>2, <3>1, EntrySettings
    <3> QED
      BY <3>2 DEF p
  <2> QED
    BY <2>1, <2>2 DEF OwnSection
<1> QED
  BY <1>1, StartupInvariance, PTL
=============================================================================
