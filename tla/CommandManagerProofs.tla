-------------------------- MODULE CommandManagerProofs -------------------------
(***************************************************************************)
(* What a name leads to, for any addons, names, aliases, depth of handlers *)
(* and number of interpreters made.                                        *)
(*                                                                         *)
(* The descriptors are a table with one entry under a layer, a component   *)
(* and a name; those of an interpreter that is there are its handlers.     *)
(* While nothing is broken, the handlers under way are of interpreters     *)
(* that are there: so a tag that is not expired is alive, though a handler *)
(* under way keeps its tag from expiring.                                  *)
(***************************************************************************)
EXTENDS CommandManager, FiniteSetTheorems, SequenceTheorems, TLAPS

-----------------------------------------------------------------------------
(***************************************************************************)
(* The invariant                                                           *)
(***************************************************************************)
AnyTag == [owner : Interpreters \cup {"client", "core"}, gen : Nat]

AnyDescriptor ==
    [layer : {"client", "core", "addon", "script"}, component : Components, command : Names,
     tag : AnyTag]

Descriptor(i, n) ==
    [layer |-> LayerOf(i), component |-> i, command |-> n, tag |-> TagOf(i)]

InLayer(layer) == {d \in commands : d.layer = layer}

Shape ==
    /\ commands \subseteq AnyDescriptor
    /\ handlers \in [Interpreters -> SUBSET Names]
    /\ live \subseteq Interpreters
    /\ gen \in [Interpreters -> Nat]
    /\ calls \in Seq(AnyTag)
    /\ IsFiniteSet(InLayer("addon"))

\* A descriptor is filed under the interpreter that registered it.
FiledAs(d) ==
    /\ d.tag.owner \in Interpreters => d.layer = LayerOf(d.tag.owner) /\ d.component = d.tag.owner
    /\ d.tag.owner \notin Interpreters => d.layer = d.tag.owner /\ d.component = ""

Filed == \A d \in commands : FiledAs(d)

\* One under a layer, a component and a name.
Single ==
    \A d, e \in commands :
        d.layer = e.layer /\ d.component = e.component /\ d.command = e.command => d = e

\* No tag is of an interpreter yet to be made.
Past == \A d \in commands : d.tag.owner \in Interpreters => d.tag.gen <= gen[d.tag.owner]

Registered == \A i \in live : \A n \in handlers[i] : Descriptor(i, n) \in commands

Handled ==
    \A d \in commands :
        Alive(d.tag) /\ d.tag.owner \in Interpreters => d.command \in handlers[d.tag.owner]

CallsAlive == ~broken => \A k \in 1 .. Len(calls) : Alive(calls[k])

CommandInvariant ==
    Shape /\ Filed /\ Single /\ Past /\ Registered /\ Handled /\ CallsAlive

-----------------------------------------------------------------------------
(***************************************************************************)
(* Names, layers, tags                                                     *)
(***************************************************************************)
LEMMA NamesApart ==
    /\ "client" \notin Interpreters /\ "core" \notin Interpreters
    /\ "" \notin Interpreters /\ NoComponent \notin Interpreters /\ NoComponent \notin Components
BY CommandAssumption DEF Interpreters, Components, NoComponent

LEMMA LayersAre ==
    /\ DOMAIN Layers = 1 .. 4
    /\ Layers[1] = "client" /\ Layers[2] = "core" /\ Layers[3] = "addon" /\ Layers[4] = "script"
    /\ ToSet(Layers) = {"client", "core", "addon", "script"}
BY DEF Layers, ToSet

LEMMA LayerHasPlace ==
    ASSUME NEW layer \in {"client", "core", "addon", "script"}
    PROVE  \E k \in 1 .. 4 : Layers[k] = layer
<1>1. 1 \in 1 .. 4 /\ 2 \in 1 .. 4 /\ 3 \in 1 .. 4 /\ 4 \in 1 .. 4
  OBVIOUS
<1> QED
  BY <1>1, LayersAre

LEMMA LayersDiffer ==
    ASSUME NEW k \in 1 .. 4, NEW m \in 1 .. 4, Layers[k] = Layers[m]
    PROVE  k = m
<1>1. k \in {1, 2, 3, 4} /\ m \in {1, 2, 3, 4}
  OBVIOUS
<1> QED
  BY <1>1, LayersAre

\* The tag of an interpreter that is there is alive.
LEMMA OwnTagAlive ==
    ASSUME NEW i \in live
    PROVE  Alive(TagOf(i)) /\ TagOf(i).owner = i
BY DEF Alive, TagOf

\* What is alive is not expired.
LEMMA AliveNotExpired ==
    ASSUME NEW tag, Alive(tag)
    PROVE  ~Expired(tag, live)
BY DEF Alive, Expired

\* While nothing is broken, what is not expired is alive.
LEMMA NotExpiredAlive ==
    ASSUME CommandInvariant, ~broken, NEW tag, ~Expired(tag, live)
    PROVE  Alive(tag)
<1>1. CASE tag \in ToSet(calls)
  <2>1. PICK k \in DOMAIN calls : calls[k] = tag
    BY <1>1 DEF ToSet
  <2>2. k \in 1 .. Len(calls)
    BY <2>1 DEF CommandInvariant, Shape
  <2> QED
    BY <2>1, <2>2 DEF CommandInvariant, CallsAlive
<1>2. CASE tag \notin ToSet(calls)
  BY <1>2 DEF Expired
<1> QED
  BY <1>1, <1>2

\* The calls but the innermost.
LEMMA FrontOf ==
    ASSUME NEW S, NEW s \in Seq(S), s # <<>>
    PROVE  /\ Front(s) \in Seq(S) /\ Len(Front(s)) = Len(s) - 1
           /\ \A k \in 1 .. Len(Front(s)) : k \in 1 .. Len(s) /\ Front(s)[k] = s[k]
           /\ Last(s) \in S /\ Last(s) = s[Len(s)] /\ Len(s) \in Nat \ {0}
<1>1. Len(s) \in Nat \ {0}
  BY EmptySeq
<1>2. Front(s) = [k \in 1 .. Len(s) - 1 |-> s[k]]
  BY <1>1 DEF Front
<1> QED
  BY <1>1, <1>2 DEF Last

-----------------------------------------------------------------------------
(***************************************************************************)
(* What find comes to                                                      *)
(***************************************************************************)
\* The matches of a layer are finitely many: only addons are many components.
LEMMA BoundsFinite ==
    ASSUME CommandInvariant, NEW layer, NEW typed
    PROVE  IsFiniteSet(Bounds(commands, layer, typed))
<1> DEFINE matches == Bounds(commands, layer, typed)
<1>1. CASE layer = "addon"
  <2>1. matches \subseteq InLayer("addon")
    BY <1>1 DEF Bounds, InLayer
  <2> QED
    BY <2>1, FS_Subset DEF CommandInvariant, Shape
<1>2. CASE layer # "addon"
  <2>1. \A d, e \in matches : d = e
    <3> SUFFICES ASSUME NEW d \in matches, NEW e \in matches
                 PROVE  d.layer = e.layer /\ d.component = e.component /\ d.command = e.command
      BY DEF Bounds, CommandInvariant, Single
    <3>1. d \in commands /\ e \in commands /\ d.layer = layer /\ e.layer = layer
      BY DEF Bounds
    <3>2. FiledAs(d) /\ FiledAs(e)
      BY <3>1 DEF CommandInvariant, Filed
    <3>3. d.command = e.command
      BY DEF Bounds, Matches
    <3> QED
      BY <1>2, <3>1, <3>2, <3>3, NamesApart DEF FiledAs, LayerOf
  <2>2. matches = {} \/ \E d : matches = {d}
    BY <2>1
  <2> HIDE DEF matches
  <2>3. IsFiniteSet(matches)
    <3>1. CASE matches = {}
      BY <3>1, FS_EmptySet
    <3>2. CASE \E d : matches = {d}
      BY <3>2, FS_Singleton
    <3> QED
      BY <2>2, <3>1, <3>2
  <2> QED
    BY <2>3 DEF matches
<1> QED
  BY <1>1, <1>2

\* find stops at the first layer that is not passed over, or at the last layer.
LEMMA StopsAt ==
    ASSUME NEW typed
    PROVE  LET m == Max(Reached(typed))
           IN  /\ m \in 1 .. 4
               /\ \A k \in 1 .. 4 : k < m => PassedOver(Layers[k], typed)
               /\ PassedOver(Layers[m], typed) => \A k \in 1 .. 4 : PassedOver(Layers[k], typed)
               /\ Reached(typed) = 1 .. m
<1> DEFINE last == {k \in DOMAIN Layers : ~PassedOver(Layers[k], typed)}
<1>1. last \subseteq {1, 2, 3, 4}
  BY LayersAre
<1>2. \E m \in {1, 2, 3, 4} : /\ \A k \in {1, 2, 3, 4} : k < m => k \notin last
                              /\ m \in last \/ (m = 4 /\ last = {})
  <2> HIDE DEF last
  <2>1. 1 \in last \/ 2 \in last \/ 3 \in last \/ 4 \in last \/ last = {}
    BY <1>1
  <2> QED
    BY <2>1
<1>3. PICK m \in {1, 2, 3, 4} : /\ \A k \in {1, 2, 3, 4} : k < m => k \notin last
                                /\ m \in last \/ (m = 4 /\ last = {})
  BY <1>2
<1>4. Reached(typed) = 1 .. m
  <2>1. Reached(typed) = {k \in 1 .. 4 : \A l \in last : k <= l}
    BY LayersAre DEF Reached
  <2> HIDE DEF last
  <2>2. \A k \in 1 .. 4 : (\A l \in last : k <= l) <=> k <= m
    BY <1>1, <1>3
  <2>3. {k \in 1 .. 4 : \A l \in last : k <= l} = 1 .. m
    BY <2>2, <1>3
  <2> QED
    BY <2>1, <2>3
<1>5. Max(1 .. m) = m
  <2>1. m \in 1 .. m /\ \A y \in 1 .. m : m >= y
    BY <1>3
  <2>2. \A x \in 1 .. m : (\A y \in 1 .. m : x >= y) => x = m
    BY <1>3
  <2> QED
    BY <2>1, <2>2 DEF Max
<1>6. \A k \in 1 .. 4 : k \in last <=> ~PassedOver(Layers[k], typed)
  BY LayersAre
<1> HIDE DEF last
<1>7. /\ m \in 1 .. 4
      /\ \A k \in 1 .. 4 : k < m => PassedOver(Layers[k], typed)
      /\ PassedOver(Layers[m], typed) => \A k \in 1 .. 4 : PassedOver(Layers[k], typed)
  BY <1>1, <1>3, <1>6
<1> QED
  BY <1>4, <1>5, <1>7

\* The place of a descriptor's layer.
LEMMA PlaceOf ==
    ASSUME CommandInvariant, NEW d \in commands
    PROVE  \E k \in 1 .. 4 : Layers[k] = d.layer
BY LayerHasPlace DEF CommandInvariant, Shape, AnyDescriptor

\* In a layer that is passed over every match is expired.
LEMMA PassedOverExpired ==
    ASSUME NEW layer, NEW typed, PassedOver(layer, typed), NEW d \in commands,
           d.layer = layer, Matches(d, typed)
    PROVE  Expired(d.tag, live)
BY DEF PassedOver, Bounds

\* What is not expired is in the layer find stops at, or further down.
LEMMA StopsBefore ==
    ASSUME CommandInvariant, NEW typed, NEW d \in commands, Matches(d, typed),
           ~Expired(d.tag, live), NEW k \in 1 .. 4, Layers[k] = d.layer
    PROVE  k >= Max(Reached(typed))
<1>1. ~PassedOver(Layers[k], typed)
  BY PassedOverExpired
<1> QED
  BY <1>1, StopsAt

\* Nothing is found only where everything is expired.
LEMMA FoundNone ==
    ASSUME CommandInvariant, NEW typed, Found(typed) = {}, NEW d \in commands, Matches(d, typed)
    PROVE  Expired(d.tag, live)
<1> DEFINE m == Max(Reached(typed))
           matches == Bounds(commands, Layers[m], typed)
<1>1. matches = {} \/ (Cardinality(matches) = 1 /\ \A e \in matches : Expired(e.tag, live))
  BY DEF Found
<1>2. Cardinality(matches) <= 1
  BY <1>1, FS_EmptySet
<1>3. PassedOver(Layers[m], typed)
  BY <1>1, <1>2 DEF PassedOver
<1>4. \A k \in 1 .. 4 : PassedOver(Layers[k], typed)
  BY <1>3, StopsAt
<1> QED
  BY <1>4, PlaceOf, PassedOverExpired

\* What is found is what matches in the layer find stops at.
LEMMA FoundSome ==
    ASSUME NEW typed, Found(typed) # {}
    PROVE  /\ Found(typed) = Bounds(commands, Layers[Max(Reached(typed))], typed)
           /\ Cardinality(Found(typed)) = 1 => \E d \in Found(typed) : ~Expired(d.tag, live)
BY DEF Found

LEMMA FoundOne ==
    ASSUME CommandInvariant, NEW typed, Cardinality(Found(typed)) = 1, NEW d \in Found(typed)
    PROVE  /\ Found(typed) = {d} /\ ~Expired(d.tag, live) /\ d \in commands /\ Matches(d, typed)
           /\ d.layer = Layers[Max(Reached(typed))]
<1>1. Found(typed) = Bounds(commands, Layers[Max(Reached(typed))], typed)
  BY FoundSome
<1>2. \E x : Found(typed) = {x}
  BY <1>1, BoundsFinite, FS_Singleton
<1>3. Found(typed) = {d}
  BY <1>2
<1>4. ~Expired(d.tag, live)
  BY <1>3, FoundSome
<1>5. d \in commands /\ Matches(d, typed) /\ d.layer = Layers[Max(Reached(typed))]
  BY <1>1 DEF Bounds
<1> QED
  BY <1>3, <1>4, <1>5

\* Only what is expired is removed on the way.
LEMMA RemovedExpired ==
    ASSUME NEW typed, NEW d \in Removed(typed)
    PROVE  d \in commands /\ Expired(d.tag, live)
BY PassedOverExpired DEF Removed

-----------------------------------------------------------------------------
(***************************************************************************)
(* The two properties                                                      *)
(***************************************************************************)
LEMMA ReachableFollows ==
    ASSUME CommandInvariant
    PROVE  Reachable
<1>1. ASSUME NEW i \in live, NEW n \in handlers[i]
      PROVE  {d.tag : d \in Found([component |-> i, command |-> n])} = {TagOf(i)}
  <2> DEFINE typed == [component |-> i, command |-> n]
             own == Descriptor(i, n)
             m == Max(Reached(typed))
  <2>1. i \in Interpreters
    BY DEF CommandInvariant, Shape
  <2>2. own \in commands /\ own.tag = TagOf(i)
    BY DEF CommandInvariant, Registered, Descriptor
  <2>3. Matches(own, typed)
    BY DEF Matches, Descriptor
  <2>4. Alive(own.tag) /\ ~Expired(own.tag, live)
    BY <2>2, OwnTagAlive, AliveNotExpired
  <2>5. Found(typed) # {}
    BY <2>2, <2>3, <2>4, FoundNone
  <2>6. \A d \in commands : Matches(d, typed) => d = own
    <3> SUFFICES ASSUME NEW d \in commands, Matches(d, typed)
                 PROVE  d = own
      OBVIOUS
    <3>1. d.command = n /\ d.component = i
      BY <2>1, NamesApart DEF Matches
    <3>2. d.layer = LayerOf(i)
      BY <2>1, <3>1, NamesApart DEF CommandInvariant, Filed, FiledAs
    <3>3. own.layer = LayerOf(i) /\ own.component = i /\ own.command = n
      BY DEF Descriptor
    <3> HIDE DEF own
    <3> QED
      BY <2>2, <3>1, <3>2, <3>3 DEF CommandInvariant, Single
  <2> HIDE DEF own, typed
  <2>7. \A d \in Found(typed) : d = own
    BY <2>5, <2>6, FoundSome DEF Bounds
  <2>8. Found(typed) = {own}
    BY <2>5, <2>7
  <2>9. {d.tag : d \in Found(typed)} = {TagOf(i)}
    BY <2>2, <2>8
  <2> QED
    BY <2>9 DEF typed
<1> QED
  BY <1>1 DEF Reachable, CommandInvariant, Handled

\* A descriptor of the first layer with a match is ranked before the others.
LEMMA RankOf ==
    ASSUME NEW d, NEW k \in 1 .. 4, Layers[k] = d.layer
    PROVE  Rank(d) = k
<1>1. \E j \in DOMAIN Layers : Layers[j] = d.layer
  BY LayersAre
<1>2. \A j \in DOMAIN Layers : Layers[j] = d.layer => j = k
  BY LayersAre, LayersDiffer
<1> QED
  BY <1>1, <1>2 DEF Rank

LEMMA AnsweredRightFollows ==
    ASSUME CommandInvariant, ~broken, NEW typed, NEW a,
           \/ a = [kind |-> "unknown", typed |-> typed] /\ Found(Expand(typed)) = {}
           \/ /\ a = [kind |-> "ambiguous", typed |-> typed]
              /\ Cardinality(Found(Expand(typed))) > 1
           \/ /\ Cardinality(Found(Expand(typed))) = 1
              /\ \E d \in Found(Expand(typed)) :
                    a = [kind |-> "called", typed |-> typed, descriptor |-> d]
    PROVE  AnsweredRight(a)
<1> DEFINE name == Expand(typed)
           m == Max(Reached(name))
<1>0. \A d \in AliveMatches(typed) :
         d \in commands /\ Matches(d, name) /\ Alive(d.tag) /\ ~Expired(d.tag, live)
  BY AliveNotExpired DEF AliveMatches
<1>1. m \in 1 .. 4
  BY StopsAt
<1>2. \A d \in AliveMatches(typed) : Rank(d) >= m
  <2> SUFFICES ASSUME NEW d \in AliveMatches(typed)
               PROVE  Rank(d) >= m
    OBVIOUS
  <2>1. PICK k \in 1 .. 4 : Layers[k] = d.layer
    BY <1>0, PlaceOf
  <2>2. k >= m
    BY <1>0, <2>1, StopsBefore
  <2> QED
    BY <2>1, <2>2, RankOf
<1> HIDE DEF name
<1>3. CASE a = [kind |-> "unknown", typed |-> typed] /\ Found(name) = {}
  <2>1. AliveMatches(typed) = {}
    BY <1>0, <1>3, FoundNone
  <2> QED
    BY <1>3, <2>1 DEF AnsweredRight
<1>4. CASE a = [kind |-> "ambiguous", typed |-> typed] /\ Cardinality(Found(name)) > 1
  <2>1. Found(name) # {}
    BY <1>4, FS_EmptySet
  <2>2. Found(name) = Bounds(commands, Layers[m], name)
    BY <2>1, FoundSome
  <2>3. name.component = NoComponent
    <3> SUFFICES ASSUME name.component # NoComponent
                 PROVE  FALSE
      OBVIOUS
    <3>1. \A d, e \in Found(name) : d = e
      <4> SUFFICES ASSUME NEW d \in Found(name), NEW e \in Found(name)
                   PROVE  d = e
        OBVIOUS
      <4>1. d \in commands /\ e \in commands /\ d.layer = e.layer
        BY <2>2 DEF Bounds
      <4>2. d.component = e.component /\ d.command = e.command
        BY <2>2 DEF Bounds, Matches
      <4> QED
        BY <4>1, <4>2 DEF CommandInvariant, Single
    <3>2. \E d : Found(name) = {d}
      BY <2>1, <3>1
    <3>3. Cardinality(Found(name)) = 1
      BY <3>2, FS_Singleton
    <3> QED
      BY <1>4, <3>3
  <2>4. m \in DOMAIN Layers
    BY <1>1, LayersAre
  <2> QED
    BY <1>2, <1>4, <2>2, <2>3, <2>4 DEF AnsweredRight, name
<1>5. CASE /\ Cardinality(Found(name)) = 1
           /\ \E d \in Found(name) : a = [kind |-> "called", typed |-> typed, descriptor |-> d]
  <2>1. PICK d \in Found(name) : a = [kind |-> "called", typed |-> typed, descriptor |-> d]
    BY <1>5
  <2>2. /\ Found(name) = {d} /\ ~Expired(d.tag, live) /\ d \in commands /\ Matches(d, name)
        /\ d.layer = Layers[m]
    BY <1>5, FoundOne
  <2>3. d \in AliveMatches(typed)
    BY <2>2, NotExpiredAlive DEF AliveMatches, name
  <2>4. Rank(d) = m
    BY <1>1, <2>2, RankOf
  <2>5. \A e \in AliveMatches(typed) \ {d} : Rank(e) > m
    <3> SUFFICES ASSUME NEW e \in AliveMatches(typed), e # d
                 PROVE  Rank(e) > m
      OBVIOUS
    <3>1. PICK k \in 1 .. 4 : Layers[k] = e.layer
      BY <1>0, PlaceOf
    <3>2. Rank(e) = k /\ k >= m
      BY <1>2, <3>1, RankOf
    <3>3. k # m
      <4> SUFFICES ASSUME k = m
                   PROVE  FALSE
        OBVIOUS
      <4>1. e \in Bounds(commands, Layers[m], name)
        BY <1>0, <3>1 DEF Bounds
      <4>2. e \in Found(name)
        BY <4>1, <2>2, FoundSome
      <4> QED
        BY <4>2, <2>2
    <3> QED
      BY <3>2, <3>3, <1>1
  <2> QED
    BY <2>1, <2>3, <2>4, <2>5 DEF AnsweredRight
<1> QED
  BY <1>3, <1>4, <1>5 DEF name

-----------------------------------------------------------------------------
(***************************************************************************)
(* Every step keeps the invariant                                          *)
(***************************************************************************)
LEMMA BuiltAre ==
    ASSUME NEW layer \in {"client", "core"}, NEW names \in SUBSET Names, NEW d \in Built(layer, names)
    PROVE  /\ d \in AnyDescriptor
           /\ d.layer = layer /\ d.component = "" /\ d.tag.owner = layer /\ d.tag.gen = 0
<1>1. PICK n \in names :
         d = [layer |-> layer, component |-> "", command |-> n, tag |-> [owner |-> layer, gen |-> 0]]
  BY DEF Built
<1>2. [owner |-> layer, gen |-> 0] \in AnyTag
  BY DEF AnyTag
<1>3. "" \in Components
  BY DEF Components
<1> QED
  BY <1>1, <1>2, <1>3 DEF AnyDescriptor

\* The table of the client and the core, at the start.
LEMMA InitKeeps == Init => CommandInvariant
<1> SUFFICES ASSUME Init
             PROVE  CommandInvariant
  OBVIOUS
<1>1. \A d \in commands :
         /\ d \in AnyDescriptor
         /\ d.layer \in {"client", "core"} /\ d.component = ""
         /\ d.tag.owner = d.layer /\ d.tag.gen = 0
  <2>1. commands = Built("client", ClientCommands) \cup Built("core", CoreCommands)
    BY DEF Init
  <2>2. ClientCommands \in SUBSET Names /\ CoreCommands \in SUBSET Names
    BY CommandAssumption
  <2> QED
    BY <2>1, <2>2, BuiltAre, ZenonT(30)
<1>2. /\ handlers = [i \in Interpreters |-> {}] /\ live = {"script"} /\ calls = <<>>
      /\ gen = [i \in Interpreters |-> IF i = "script" THEN 1 ELSE 0]
  BY DEF Init
<1>3. InLayer("addon") = {}
  BY <1>1 DEF InLayer
<1>4. Shape
  <2>1. /\ handlers \in [Interpreters -> SUBSET Names] /\ live \subseteq Interpreters
        /\ gen \in [Interpreters -> Nat]
    BY <1>2 DEF Interpreters
  <2>2. calls \in Seq(AnyTag)
    BY <1>2
  <2> QED
    BY <1>1, <1>3, <2>1, <2>2, FS_EmptySet DEF Shape
<1>5. \A d \in commands : d.tag.owner \notin Interpreters
  BY <1>1, NamesApart
<1>6. Filed /\ Past /\ Handled
  BY <1>1, <1>5 DEF Filed, FiledAs, Past, Handled
<1>7. Single
  <2> SUFFICES ASSUME NEW d \in commands, NEW e \in commands,
                      d.layer = e.layer, d.component = e.component, d.command = e.command
               PROVE  d = e
    BY DEF Single
  <2>1. d.tag.owner = e.tag.owner /\ d.tag.gen = e.tag.gen
    BY <1>1
  <2>2. d.tag \in AnyTag /\ e.tag \in AnyTag
    BY <1>1 DEF AnyDescriptor
  <2>3. d.tag = e.tag
    BY <2>1, <2>2 DEF AnyTag
  <2>4. d \in AnyDescriptor /\ e \in AnyDescriptor
    BY <1>1
  <2> QED
    BY <2>3, <2>4 DEF AnyDescriptor
<1>8. Registered /\ CallsAlive
  BY <1>2 DEF Registered, CallsAlive, Interpreters
<1> QED
  BY <1>4, <1>6, <1>7, <1>8 DEF CommandInvariant

\* A table that is a part of the one before, of the same interpreters.
LEMMA PartKeeps ==
    ASSUME CommandInvariant, commands' \subseteq commands, UNCHANGED gen
    PROVE  /\ commands' \subseteq AnyDescriptor /\ IsFiniteSet(InLayer("addon")')
           /\ Filed' /\ Single' /\ Past'
<1>1. InLayer("addon")' \subseteq InLayer("addon")
  BY DEF InLayer
<1>2. IsFiniteSet(InLayer("addon")')
  BY <1>1, FS_Subset DEF CommandInvariant, Shape
<1> QED
  BY <1>2 DEF CommandInvariant, Shape, Filed, FiledAs, Single, Past

\* No call is added, and the interpreters under way stay.
LEMMA SameAlive ==
    ASSUME UNCHANGED <<live, gen>>, NEW tag
    PROVE  Alive(tag)' <=> Alive(tag)
BY DEF Alive, TagOf

\* The table is as it was, and a handler returns.
LEMMA ReturnKeeps ==
    ASSUME CommandInvariant, ~broken, calls # <<>>, calls' = Front(calls),
           UNCHANGED <<commands, handlers, live, gen>>
    PROVE  CommandInvariant'
<1>1. /\ Front(calls) \in Seq(AnyTag)
      /\ \A k \in 1 .. Len(Front(calls)) : k \in 1 .. Len(calls) /\ Front(calls)[k] = calls[k]
  BY FrontOf DEF CommandInvariant, Shape
<1>2. Shape' /\ Filed' /\ Single' /\ Past'
  BY <1>1 DEF CommandInvariant, Shape, Filed, FiledAs, Single, Past, InLayer
<1>3. Registered' /\ Handled'
  BY SameAlive DEF CommandInvariant, Registered, Handled, Descriptor, LayerOf, TagOf
<1>4. CallsAlive'
  BY <1>1, SameAlive DEF CommandInvariant, CallsAlive
<1> QED
  BY <1>2, <1>3, <1>4 DEF CommandInvariant

\* Nothing of the table, the interpreters and the calls changes.
LEMMA AloneKeeps ==
    ASSUME CommandInvariant, broken' = broken \/ broken',
           UNCHANGED <<commands, handlers, live, gen, calls>>
    PROVE  CommandInvariant'
<1>1. Shape' /\ Filed' /\ Single' /\ Past'
  BY DEF CommandInvariant, Shape, Filed, FiledAs, Single, Past, InLayer
<1>2. Registered' /\ Handled'
  BY SameAlive DEF CommandInvariant, Registered, Handled, Descriptor, LayerOf, TagOf
<1>3. CallsAlive'
  BY SameAlive DEF CommandInvariant, CallsAlive
<1> QED
  BY <1>1, <1>2, <1>3 DEF CommandInvariant

LEMMA RegisterKeeps ==
    ASSUME CommandInvariant, NEW i \in Interpreters, NEW n \in Names, Register(i, n)
    PROVE  CommandInvariant'
<1> DEFINE new == Descriptor(i, n)
           others == {d \in commands : ~SameName(d, i, n)}
<1>1. /\ ~broken /\ i \in live
      /\ handlers' = [handlers EXCEPT ![i] = @ \cup {n}]
      /\ commands' = others \cup {new}
      /\ UNCHANGED <<live, gen, calls, broken>>
  BY DEF Register, Acts, Descriptor
<1>2. /\ new.layer = LayerOf(i) /\ new.component = i /\ new.command = n /\ new.tag = TagOf(i)
      /\ new.tag.owner = i /\ new.tag.gen = gen[i] /\ new \in AnyDescriptor
  <2>1. TagOf(i) \in AnyTag /\ TagOf(i).owner = i /\ TagOf(i).gen = gen[i]
    BY DEF CommandInvariant, Shape, AnyTag, TagOf
  <2>2. LayerOf(i) \in {"client", "core", "addon", "script"} /\ i \in Components
    BY DEF LayerOf, Components
  <2> QED
    BY <2>1, <2>2 DEF Descriptor, AnyDescriptor
<1>3. others \subseteq commands /\ \A d \in others : ~SameName(d, i, n)
  OBVIOUS
<1> HIDE DEF new, others
<1>4. Shape'
  <2>1. InLayer("addon")' \subseteq InLayer("addon") \cup {new}
    BY <1>1, <1>3 DEF InLayer
  <2>2. IsFiniteSet(InLayer("addon") \cup {new})
    BY FS_AddElement DEF CommandInvariant, Shape
  <2>3. IsFiniteSet(InLayer("addon")')
    BY <2>1, <2>2, FS_Subset
  <2> QED
    BY <1>1, <1>2, <1>3, <2>3 DEF CommandInvariant, Shape
<1>5. Filed' /\ Past'
  <2>1. \A d \in others : FiledAs(d) /\ (d.tag.owner \in Interpreters => d.tag.gen <= gen[d.tag.owner])
    BY <1>3 DEF CommandInvariant, Filed, Past
  <2>2. FiledAs(new)
    BY <1>2 DEF FiledAs
  <2>3. gen[i] \in Nat
    BY DEF CommandInvariant, Shape
  <2>4. new.tag.gen <= gen[new.tag.owner]
    BY <1>2, <2>3
  <2> QED
    BY <1>1, <2>1, <2>2, <2>4 DEF Filed, FiledAs, Past
<1>6. Single'
  BY <1>1, <1>2, <1>3 DEF Single, SameName, CommandInvariant
<1>7. Registered'
  <2> SUFFICES ASSUME NEW j \in live, NEW m \in handlers'[j]
               PROVE  Descriptor(j, m) \in commands'
    BY <1>1 DEF Registered, Descriptor, TagOf, LayerOf
  <2>1. CASE j = i /\ m = n
    BY <1>1, <2>1 DEF new
  <2>2. CASE j # i \/ m # n
    <3>1. j \in Interpreters /\ m \in handlers[j]
      BY <1>1, <2>2 DEF CommandInvariant, Shape
    <3>2. Descriptor(j, m) \in commands
      BY <3>1 DEF CommandInvariant, Registered
    <3>3. ~SameName(Descriptor(j, m), i, n)
      BY <2>2 DEF SameName, Descriptor
    <3> QED
      BY <1>1, <3>2, <3>3 DEF others
  <2> QED
    BY <2>1, <2>2
<1>8. Handled'
  <2> SUFFICES ASSUME NEW d \in commands', Alive(d.tag), d.tag.owner \in Interpreters
               PROVE  d.command \in handlers'[d.tag.owner]
    BY <1>1, SameAlive DEF Handled
  <2>1. CASE d = new
    BY <1>1, <1>2, <2>1 DEF CommandInvariant, Shape
  <2>2. CASE d # new
    <3>1. d \in commands
      BY <1>1, <1>3, <2>2
    <3>2. d.command \in handlers[d.tag.owner]
      BY <3>1 DEF CommandInvariant, Handled
    <3> QED
      BY <1>1, <3>2 DEF CommandInvariant, Shape
  <2> QED
    BY <2>1, <2>2
<1>9. CallsAlive'
  BY <1>1, SameAlive DEF CommandInvariant, CallsAlive
<1> QED
  BY <1>4, <1>5, <1>6, <1>7, <1>8, <1>9 DEF CommandInvariant

LEMMA UnregisterKeeps ==
    ASSUME CommandInvariant, NEW i \in Interpreters, NEW n \in Names, Unregister(i, n)
    PROVE  CommandInvariant'
<1>1. /\ ~broken /\ i \in live
      /\ handlers' = [handlers EXCEPT ![i] = @ \ {n}]
      /\ commands' = {d \in commands : ~SameName(d, i, n)}
      /\ UNCHANGED <<live, gen, calls, broken>>
  BY DEF Unregister, Acts
<1>2. /\ commands' \subseteq AnyDescriptor /\ IsFiniteSet(InLayer("addon")')
      /\ Filed' /\ Single' /\ Past'
  BY <1>1, PartKeeps
<1>3. Shape'
  BY <1>1, <1>2 DEF CommandInvariant, Shape
<1>4. Registered'
  <2> SUFFICES ASSUME NEW j \in live, NEW m \in handlers'[j]
               PROVE  Descriptor(j, m) \in commands'
    BY <1>1 DEF Registered, Descriptor, TagOf, LayerOf
  <2>1. m \in handlers[j] /\ (j # i \/ m # n)
    BY <1>1 DEF CommandInvariant, Shape
  <2>2. Descriptor(j, m) \in commands
    BY <2>1 DEF CommandInvariant, Registered
  <2>3. ~SameName(Descriptor(j, m), i, n)
    BY <2>1 DEF SameName, Descriptor
  <2> QED
    BY <1>1, <2>2, <2>3
<1>5. Handled'
  <2> SUFFICES ASSUME NEW d \in commands', Alive(d.tag), d.tag.owner \in Interpreters
               PROVE  d.command \in handlers'[d.tag.owner]
    BY <1>1, SameAlive DEF Handled
  <2>1. d \in commands /\ ~SameName(d, i, n)
    BY <1>1
  <2>2. d.command \in handlers[d.tag.owner] /\ FiledAs(d)
    BY <2>1 DEF CommandInvariant, Handled, Filed
  <2>3. d.tag.owner = i => d.command # n
    BY <2>1, <2>2 DEF FiledAs, SameName
  <2> QED
    BY <1>1, <2>2, <2>3 DEF CommandInvariant, Shape
<1>6. CallsAlive'
  BY <1>1, SameAlive DEF CommandInvariant, CallsAlive
<1> QED
  BY <1>2, <1>3, <1>4, <1>5, <1>6 DEF CommandInvariant

\* What is answered to a name that is typed, as handle_command finds it.
LEMMA HandleAnswers ==
    ASSUME NEW typed, Handle(typed)
    PROVE  /\ ~broken
           /\ \/ /\ answer' = [kind |-> "unknown", typed |-> typed] /\ Found(Expand(typed)) = {}
                 /\ calls' = calls
              \/ /\ answer' = [kind |-> "ambiguous", typed |-> typed]
                 /\ Cardinality(Found(Expand(typed))) > 1
                 /\ calls' = calls
              \/ /\ Cardinality(Found(Expand(typed))) = 1
                 /\ \E d \in Found(Expand(typed)) :
                       /\ answer' = [kind |-> "called", typed |-> typed, descriptor |-> d]
                       /\ calls' = Append(calls, d.tag)
           /\ commands' = commands \ Removed(Expand(typed))
           /\ UNCHANGED <<handlers, live, gen, broken>>
BY DEF Handle, Inputs

LEMMA HandleKeeps ==
    ASSUME CommandInvariant, NEW typed, Handle(typed)
    PROVE  CommandInvariant'
<1> DEFINE name == Expand(typed)
<1>1. /\ ~broken /\ commands' = commands \ Removed(name)
      /\ UNCHANGED <<handlers, live, gen, broken>>
  BY HandleAnswers
<1>2. \/ calls' = calls
      \/ \E d \in Found(name) : Cardinality(Found(name)) = 1 /\ calls' = Append(calls, d.tag)
  BY HandleAnswers
<1> HIDE DEF name
<1>3. calls' \in Seq(AnyTag) /\ \A k \in 1 .. Len(calls') : Alive(calls'[k])
  <2>1. calls \in Seq(AnyTag) /\ \A k \in 1 .. Len(calls) : Alive(calls[k])
    BY <1>1 DEF CommandInvariant, Shape, CallsAlive
  <2>2. CASE calls' = calls
    BY <2>1, <2>2
  <2>3. CASE \E d \in Found(name) : Cardinality(Found(name)) = 1 /\ calls' = Append(calls, d.tag)
    <3>1. PICK d \in Found(name) : Cardinality(Found(name)) = 1 /\ calls' = Append(calls, d.tag)
      BY <2>3
    <3>2. ~Expired(d.tag, live) /\ d \in commands
      BY <3>1, FoundOne
    <3>3. Alive(d.tag) /\ d.tag \in AnyTag
      BY <1>1, <3>2, NotExpiredAlive DEF CommandInvariant, Shape, AnyDescriptor
    <3> QED
      BY <2>1, <3>1, <3>3
  <2> QED
    BY <1>2, <2>2, <2>3
<1>4. Shape' /\ Filed' /\ Single' /\ Past'
  BY <1>1, <1>3, PartKeeps DEF CommandInvariant, Shape
<1>5. Registered'
  <2> SUFFICES ASSUME NEW j \in live, NEW m \in handlers[j]
               PROVE  Descriptor(j, m) \in commands'
    BY <1>1 DEF Registered, Descriptor, TagOf, LayerOf
  <2>1. Descriptor(j, m) \in commands /\ Descriptor(j, m).tag = TagOf(j)
    BY DEF CommandInvariant, Registered, Descriptor
  <2>2. ~Expired(Descriptor(j, m).tag, live)
    BY <2>1, OwnTagAlive, AliveNotExpired
  <2> QED
    BY <1>1, <2>1, <2>2, RemovedExpired
<1>6. Handled'
  BY <1>1, SameAlive DEF CommandInvariant, Handled
<1>7. CallsAlive'
  BY <1>1, <1>3, SameAlive DEF CallsAlive
<1> QED
  BY <1>4, <1>5, <1>6, <1>7 DEF CommandInvariant

\* An addon is unloaded: the descriptors of the others stay, and no handler of its
\* own is under way, or there is nothing more to promise.
LEMMA UnloadKeeps ==
    ASSUME CommandInvariant, ~broken, NEW a \in Addons, NEW rest, rest \in Seq(AnyTag),
           \A k \in 1 .. Len(rest) : Alive(rest[k]),
           UnloadAddon(a, rest)
    PROVE  CommandInvariant'
<1>1. /\ live' = live \ {a} /\ handlers' = [handlers EXCEPT ![a] = {}]
      /\ commands' = Purge(live \ {a}) /\ calls' = rest /\ gen' = gen
      /\ ~broken' => \A k \in DOMAIN rest : rest[k].owner # a
  BY DEF UnloadAddon, Close
<1>2. \A tag : Alive(tag)' <=> Alive(tag) /\ tag.owner # a
  <2>1. a \notin {"client", "core"}
    BY CommandAssumption
  <2> QED
    BY <1>1, <2>1 DEF Alive, TagOf
<1>3. commands' \subseteq commands
  BY <1>1 DEF Purge
<1>4. Shape' /\ Filed' /\ Single' /\ Past'
  BY <1>1, <1>3, PartKeeps DEF CommandInvariant, Shape
<1>5. Registered'
  <2> SUFFICES ASSUME NEW j \in live', NEW m \in handlers'[j]
               PROVE  Descriptor(j, m) \in commands'
    BY <1>1 DEF Registered, Descriptor, TagOf, LayerOf
  <2>1. j \in live /\ j # a /\ m \in handlers[j]
    BY <1>1 DEF CommandInvariant, Shape
  <2>2. Descriptor(j, m) \in commands /\ Descriptor(j, m).tag = TagOf(j)
    BY <2>1 DEF CommandInvariant, Registered, Descriptor
  <2>3. Alive(TagOf(j)) /\ TagOf(j).owner \in live \ {a}
    BY <2>1, OwnTagAlive
  <2>4. ~Expired(TagOf(j), live \ {a})
    BY <2>3 DEF Expired
  <2> QED
    BY <1>1, <2>2, <2>4 DEF Purge
<1>6. Handled'
  BY <1>1, <1>2, <1>3 DEF CommandInvariant, Handled, Shape
<1>7. CallsAlive'
  <2>1. DOMAIN rest = 1 .. Len(rest)
    OBVIOUS
  <2> QED
    BY <1>1, <1>2, <2>1 DEF CallsAlive
<1> QED
  BY <1>4, <1>5, <1>6, <1>7 DEF CommandInvariant

\* The handlers under way are of interpreters that are there, and one returns.
LEMMA RestAlive ==
    ASSUME CommandInvariant, ~broken, calls # <<>>
    PROVE  /\ Front(calls) \in Seq(AnyTag)
           /\ \A k \in 1 .. Len(Front(calls)) : Alive(Front(calls)[k])
<1>1. /\ Front(calls) \in Seq(AnyTag)
      /\ \A k \in 1 .. Len(Front(calls)) : k \in 1 .. Len(calls) /\ Front(calls)[k] = calls[k]
  BY FrontOf DEF CommandInvariant, Shape
<1> QED
  BY <1>1 DEF CommandInvariant, CallsAlive

\* An interpreter is made, anew or for an addon: it has registered nothing, and no
\* tag there is is its own.
LEMMA NewInterpreterKeeps ==
    ASSUME CommandInvariant, ~broken, calls # <<>>, NEW i \in Interpreters, NewInterpreter(i),
           ~broken' => \A k \in 1 .. Len(Front(calls)) : Front(calls)[k].owner # i
    PROVE  CommandInvariant'
<1>1. /\ gen' = [gen EXCEPT ![i] = @ + 1] /\ live' = live \cup {i}
      /\ handlers' = [handlers EXCEPT ![i] = {}] /\ calls' = Front(calls) /\ commands' = commands
  BY DEF NewInterpreter
<1>2. gen[i] \in Nat /\ gen' \in [Interpreters -> Nat] /\ gen'[i] = gen[i] + 1
  BY <1>1 DEF CommandInvariant, Shape
<1>3. Shape'
  BY <1>1, <1>2, RestAlive DEF CommandInvariant, Shape, InLayer
<1>4. Filed' /\ Single'
  BY <1>1 DEF CommandInvariant, Filed, FiledAs, Single
<1>5. Past'
  <2> SUFFICES ASSUME NEW d \in commands, d.tag.owner \in Interpreters
               PROVE  d.tag.gen <= gen'[d.tag.owner]
    BY <1>1 DEF Past
  <2>1. d.tag.gen <= gen[d.tag.owner] /\ d.tag.gen \in Nat
    BY DEF CommandInvariant, Past, Shape, AnyDescriptor, AnyTag
  <2>2. CASE d.tag.owner = i
    BY <1>2, <2>1, <2>2
  <2>3. CASE d.tag.owner # i
    BY <1>1, <2>1, <2>3 DEF CommandInvariant, Shape
  <2> QED
    BY <2>2, <2>3
<1>6. \A tag : tag.owner # i => (Alive(tag)' <=> Alive(tag))
  BY <1>1 DEF Alive, TagOf, CommandInvariant, Shape
<1>7. \A d \in commands : d.tag.owner = i => ~Alive(d.tag)'
  <2> SUFFICES ASSUME NEW d \in commands, d.tag.owner = i
               PROVE  ~Alive(d.tag)'
    OBVIOUS
  <2>1. d.tag.gen <= gen[i] /\ d.tag.gen \in Nat
    BY DEF CommandInvariant, Past, Shape, AnyDescriptor, AnyTag
  <2>2. d.tag.gen # gen'[i]
    BY <1>2, <2>1
  <2>3. i \notin {"client", "core"}
    BY NamesApart
  <2> QED
    BY <2>2, <2>3 DEF Alive, TagOf
<1>8. Registered'
  <2> SUFFICES ASSUME NEW j \in live', NEW m \in handlers'[j]
               PROVE  Descriptor(j, m)' \in commands
    BY <1>1 DEF Registered, Descriptor, TagOf, LayerOf
  <2>1. j \in live /\ j # i /\ m \in handlers[j] /\ j \in Interpreters
    BY <1>1 DEF CommandInvariant, Shape
  <2>2. gen'[j] = gen[j]
    BY <1>1, <2>1 DEF CommandInvariant, Shape
  <2>3. Descriptor(j, m)' = Descriptor(j, m)
    BY <2>2 DEF Descriptor, TagOf, LayerOf
  <2> QED
    BY <2>1, <2>3 DEF CommandInvariant, Registered
<1>9. Handled'
  <2> SUFFICES ASSUME NEW d \in commands, Alive(d.tag)', d.tag.owner \in Interpreters
               PROVE  d.command \in handlers'[d.tag.owner]
    BY <1>1 DEF Handled
  <2>1. d.tag.owner # i
    BY <1>7
  <2>2. Alive(d.tag)
    BY <1>6, <2>1
  <2> QED
    BY <1>1, <2>1, <2>2 DEF CommandInvariant, Handled, Shape
<1>10. CallsAlive'
  BY <1>1, <1>6, RestAlive DEF CallsAlive
<1> QED
  BY <1>3, <1>4, <1>5, <1>8, <1>9, <1>10 DEF CommandInvariant

LEMMA StepKeeps ==
    ASSUME CommandInvariant, [Next]_vars
    PROVE  CommandInvariant'
<1>1. ASSUME NEW i \in Interpreters, NEW n \in Names, Register(i, n) \/ Unregister(i, n)
      PROVE  CommandInvariant'
  BY <1>1, RegisterKeeps, UnregisterKeeps
<1>2. ASSUME NEW typed \in Typed, Handle(typed)
      PROVE  CommandInvariant'
  BY <1>2, HandleKeeps
<1>3. CASE Return
  BY <1>3, ReturnKeeps DEF Return
<1>4. CASE Throw
  <2>1. ~broken /\ calls # <<>> /\ Last(calls).owner \in Addons
    BY <1>4 DEF Throw
  <2> QED
    BY <1>4, <2>1, RestAlive, UnloadKeeps DEF Throw
<1>5. CASE ThrowInScript
  BY <1>5, AloneKeeps DEF ThrowInScript
<1>6. CASE Reset
  <2>1. ~broken /\ calls # <<>> /\ NewInterpreter("script") /\ Close("script", Front(calls))
    BY <1>6 DEF Reset, AtCore
  <2>2. Front(calls) \in Seq(AnyTag)
    BY <2>1, RestAlive
  <2>3. ~broken' => \A k \in 1 .. Len(Front(calls)) : Front(calls)[k].owner # "script"
    BY <2>1, <2>2 DEF Close
  <2> QED
    BY <2>1, <2>3, NewInterpreterKeeps DEF Interpreters
<1>7. ASSUME NEW a \in Addons, Fail(a)
      PROVE  CommandInvariant'
  <2>1. ~broken /\ UnloadAddon(a, calls)
    BY <1>7 DEF Fail
  <2>2. calls \in Seq(AnyTag) /\ \A k \in 1 .. Len(calls) : Alive(calls[k])
    BY <2>1 DEF CommandInvariant, Shape, CallsAlive
  <2> QED
    BY <2>1, <2>2, UnloadKeeps
<1>8. ASSUME NEW a \in Addons, Unload(a)
      PROVE  CommandInvariant'
  <2>1. ~broken /\ calls # <<>> /\ UnloadAddon(a, Front(calls))
    BY <1>8 DEF Unload, AtCore
  <2> QED
    BY <2>1, RestAlive, UnloadKeeps
<1>9. ASSUME NEW a \in Addons, Load(a)
      PROVE  CommandInvariant'
  <2>1. ~broken /\ calls # <<>> /\ a \notin live /\ NewInterpreter(a)
    BY <1>9 DEF Load, AtCore
  <2>2. a \notin {"client", "core"}
    BY CommandAssumption
  <2>3. \A k \in 1 .. Len(Front(calls)) : Front(calls)[k].owner # a
    BY <2>1, <2>2, RestAlive DEF Alive
  <2> QED
    BY <2>1, <2>3, NewInterpreterKeeps DEF Interpreters
<1>10. ASSUME NEW n, NEW typed, Alias(n, typed) \/ Unalias(n)
       PROVE  CommandInvariant'
  BY <1>10, ReturnKeeps DEF Alias, Unalias, AtCore
<1>11. CASE UNCHANGED vars
  BY <1>11, AloneKeeps DEF vars
<1> QED
  BY <1>1, <1>2, <1>3, <1>4, <1>5, <1>6, <1>7, <1>8, <1>9, <1>10, <1>11 DEF Next

-----------------------------------------------------------------------------
(***************************************************************************)
(* Types                                                                   *)
(***************************************************************************)
\* An interpreter that is there has been made.
Made == \A i \in live : gen[i] >= 1

\* The tag of an interpreter that is there is one.
LEMMA TagTyped ==
    ASSUME TypeOK, Made, NEW i \in live
    PROVE  TagOf(i) \in Tags
<1>1. i \in Interpreters /\ gen[i] \in 0 .. MaxGen /\ gen[i] >= 1 /\ MaxGen \in Nat
  BY CommandAssumption DEF TypeOK, Made
<1> QED
  BY <1>1 DEF TagOf, Tags

\* The handlers but the innermost.
LEMMA RestTyped ==
    ASSUME TypeOK, calls # <<>>
    PROVE  /\ Front(calls) \in Seq(Tags) /\ Len(Front(calls)) <= MaxDepth
           /\ Last(calls) \in Tags
<1>1. calls \in Seq(Tags) /\ Len(calls) <= MaxDepth /\ MaxDepth \in Nat
  BY CommandAssumption DEF TypeOK
<1> QED
  BY <1>1, FrontOf

\* What is registered at the start is a table of descriptors.
LEMMA BuiltTyped ==
    ASSUME NEW layer \in {"client", "core"}, NEW names \in SUBSET Names, NEW d \in Built(layer, names)
    PROVE  d \in Descriptors
<1>1. PICK n \in names :
         d = [layer |-> layer, component |-> "", command |-> n, tag |-> [owner |-> layer, gen |-> 0]]
  BY DEF Built
<1>2. [owner |-> layer, gen |-> 0] \in Tags
  BY DEF Tags
<1>3. layer \in ToSet(Layers) /\ "" \in Components
  BY LayersAre DEF Components
<1> QED
  BY <1>1, <1>2, <1>3 DEF Descriptors

\* At the start the scripts have an interpreter, and nothing was typed.
LEMMA InitTyped ==
    ASSUME Init
    PROVE  TypeOK /\ Made
<1>1. commands \subseteq Descriptors
  <2>1. commands = Built("client", ClientCommands) \cup Built("core", CoreCommands)
    BY DEF Init
  <2>2. ClientCommands \in SUBSET Names /\ CoreCommands \in SUBSET Names
    BY CommandAssumption
  <2> QED
    BY <2>1, <2>2, BuiltTyped, ZenonT(30)
<1>2. /\ aliases = [n \in Names |-> NotAliased] /\ handlers = [i \in Interpreters |-> {}]
      /\ live = {"script"} /\ calls = <<>> /\ answer = NoAnswer /\ broken = FALSE
      /\ gen = [i \in Interpreters |-> IF i = "script" THEN 1 ELSE 0]
  BY DEF Init
<1>3. MaxGen \in Nat \ {0} /\ MaxDepth \in Nat /\ "script" \in Interpreters
  BY CommandAssumption DEF Interpreters
<1>4. gen \in [Interpreters -> 0 .. MaxGen] /\ gen["script"] = 1
  BY <1>2, <1>3
<1>5. calls \in Seq(Tags) /\ Len(calls) <= MaxDepth
  BY <1>2, <1>3
<1>6. aliases \in [Names -> Typed \cup {NotAliased}] /\ handlers \in [Interpreters -> SUBSET Names]
  BY <1>2
<1>7. answer \in Answers /\ broken \in BOOLEAN /\ live \subseteq Interpreters
  BY <1>2, <1>3 DEF Answers
<1>8. Made
  BY <1>2, <1>4 DEF Made
<1> QED
  BY <1>1, <1>4, <1>5, <1>6, <1>7, <1>8 DEF TypeOK

\* register and unregister, by an interpreter that is there.
LEMMA RegistrationTyped ==
    ASSUME TypeOK, Made, NEW i \in Interpreters, NEW n \in Names, Register(i, n) \/ Unregister(i, n)
    PROVE  TypeOK' /\ Made'
<1>1. i \in live
  BY DEF Register, Unregister, Acts
<1>2. [layer |-> LayerOf(i), component |-> i, command |-> n, tag |-> TagOf(i)] \in Descriptors
  BY <1>1, TagTyped, LayersAre DEF Descriptors, LayerOf, Components
<1>3. commands' \subseteq Descriptors
  BY <1>2 DEF Register, Unregister, TypeOK
<1>4. handlers' \in [Interpreters -> SUBSET Names]
  BY DEF Register, Unregister, TypeOK
<1>5. answer' = NoAnswer /\ UNCHANGED <<aliases, live, gen, calls, broken>>
  BY DEF Register, Unregister
<1> QED
  BY <1>3, <1>4, <1>5 DEF TypeOK, Made, Answers

\* handle_command finds only what is in the table.
LEMMA HandleTyped ==
    ASSUME TypeOK, Made, NEW typed \in Typed, Handle(typed)
    PROVE  TypeOK' /\ Made'
<1>1. /\ commands' \subseteq commands /\ UNCHANGED <<aliases, handlers, live, gen, broken>>
      /\ Len(calls) < MaxDepth
  BY DEF Handle
<1>2. Found(Expand(typed)) \subseteq commands
  BY DEF Found, Bounds
<1>3. commands' \subseteq Descriptors
  BY <1>1 DEF TypeOK
<1>4. calls \in Seq(Tags) /\ Len(calls) \in Nat /\ MaxDepth \in Nat
  <2>1. calls \in Seq(Tags)
    BY DEF TypeOK
  <2>2. MaxDepth \in Nat
    BY CommandAssumption
  <2> QED
    BY <2>1, <2>2
<1>5. CASE calls' = calls /\ \E kind \in {"unknown", "ambiguous"} : answer' = [kind |-> kind, typed |-> typed]
  <2>1. answer' \in Answers
    BY <1>5 DEF Answers
  <2> QED
    BY <1>1, <1>3, <1>5, <2>1 DEF TypeOK, Made
<1>6. ASSUME NEW d \in Found(Expand(typed)),
             answer' = [kind |-> "called", typed |-> typed, descriptor |-> d],
             calls' = Append(calls, d.tag)
      PROVE  TypeOK' /\ Made'
  <2>1. d \in Descriptors /\ d.tag \in Tags
    BY <1>2 DEF TypeOK, Descriptors
  <2>2. answer' \in Answers
    BY <1>6, <2>1 DEF Answers
  <2>3. calls' \in Seq(Tags) /\ Len(calls') <= MaxDepth
    BY <1>1, <1>4, <1>6, <2>1
  <2> QED
    BY <1>1, <1>3, <2>2, <2>3 DEF TypeOK, Made
<1> QED
  BY <1>5, <1>6, HandleAnswers

\* A handler returns, and at most the aliases change.
LEMMA ReturnTyped ==
    ASSUME TypeOK, Made, calls # <<>>, calls' = Front(calls), answer' = NoAnswer,
           UNCHANGED <<commands, handlers, live, gen, broken>>,
           aliases' \in [Names -> Typed \cup {NotAliased}]
    PROVE  TypeOK' /\ Made'
BY RestTyped DEF TypeOK, Made, Answers

\* An addon is unloaded.
LEMMA UnloadTyped ==
    ASSUME TypeOK, Made, NEW a, NEW rest \in Seq(Tags), Len(rest) <= MaxDepth, UnloadAddon(a, rest)
    PROVE  TypeOK' /\ Made'
<1>1. commands' \subseteq commands /\ live' \subseteq live
  BY DEF UnloadAddon, Purge
<1>2. handlers' = [handlers EXCEPT ![a] = {}] /\ calls' = rest /\ answer' = NoAnswer
  BY DEF UnloadAddon
<1>3. UNCHANGED <<aliases, gen>> /\ broken' \in BOOLEAN
  BY DEF UnloadAddon, Close
<1>4. handlers' \in [Interpreters -> SUBSET Names]
  BY <1>2 DEF TypeOK
<1> QED
  BY <1>1, <1>2, <1>3, <1>4 DEF TypeOK, Made, Answers

\* An interpreter is made.
LEMMA NewTyped ==
    ASSUME TypeOK, Made, calls # <<>>, NEW i \in Interpreters, NewInterpreter(i), broken' \in BOOLEAN
    PROVE  TypeOK' /\ Made'
<1>1. gen[i] < MaxGen /\ gen \in [Interpreters -> 0 .. MaxGen] /\ MaxGen \in Nat /\ live \subseteq Interpreters
  BY CommandAssumption DEF NewInterpreter, TypeOK
<1>2. gen' = [gen EXCEPT ![i] = gen[i] + 1] /\ live' = live \cup {i}
  BY DEF NewInterpreter
<1>3. gen' \in [Interpreters -> 0 .. MaxGen]
  BY <1>1, <1>2
<1>4. Made'
  BY <1>1, <1>2 DEF Made
<1>5. handlers' \in [Interpreters -> SUBSET Names]
  BY DEF NewInterpreter, TypeOK
<1>6. calls' \in Seq(Tags) /\ Len(calls') <= MaxDepth
  BY RestTyped DEF NewInterpreter
<1>7. answer' = NoAnswer /\ UNCHANGED <<commands, aliases>> /\ live' \subseteq Interpreters
  BY <1>1, <1>2 DEF NewInterpreter
<1> QED
  BY <1>3, <1>4, <1>5, <1>6, <1>7 DEF TypeOK, Answers

\* Every step keeps the types.
LEMMA StepTyped ==
    ASSUME TypeOK, Made, [Next]_vars
    PROVE  TypeOK' /\ Made'
<1>1. ASSUME NEW i \in Interpreters, NEW n \in Names, Register(i, n) \/ Unregister(i, n)
      PROVE  TypeOK' /\ Made'
  BY <1>1, RegistrationTyped
<1>2. ASSUME NEW typed \in Typed, Handle(typed)
      PROVE  TypeOK' /\ Made'
  BY <1>2, HandleTyped
<1>3. CASE Return
  BY <1>3, ReturnTyped DEF Return, TypeOK
<1>4. CASE Throw
  BY <1>4, RestTyped, UnloadTyped DEF Throw
<1>5. CASE ThrowInScript
  BY <1>5 DEF ThrowInScript, TypeOK, Made, Answers
<1>6. CASE Reset
  <2>1. calls # <<>> /\ NewInterpreter("script") /\ broken' \in BOOLEAN
    BY <1>6 DEF Reset, AtCore, Close
  <2> QED
    BY <2>1, NewTyped DEF Interpreters
<1>7. ASSUME NEW a \in Addons, Fail(a)
      PROVE  TypeOK' /\ Made'
  BY <1>7, UnloadTyped DEF Fail, TypeOK
<1>8. ASSUME NEW a \in Addons, Unload(a)
      PROVE  TypeOK' /\ Made'
  BY <1>8, RestTyped, UnloadTyped DEF Unload, AtCore
<1>9. ASSUME NEW a \in Addons, Load(a)
      PROVE  TypeOK' /\ Made'
  <2>1. calls # <<>> /\ NewInterpreter(a) /\ broken' \in BOOLEAN
    BY <1>9 DEF Load, AtCore, TypeOK
  <2> QED
    BY <2>1, NewTyped DEF Interpreters
<1>10. ASSUME NEW arguments \in AliasArguments,
              Alias(arguments[1], arguments[2]) \/ Unalias(arguments[1])
       PROVE  TypeOK' /\ Made'
  <2>1. arguments[1] \in Names /\ arguments[2] \in Typed
    BY CommandAssumption
  <2>2. aliases' \in [Names -> Typed \cup {NotAliased}]
    BY <1>10, <2>1 DEF Alias, Unalias, TypeOK
  <2> QED
    BY <1>10, <2>2, ReturnTyped DEF Alias, Unalias, AtCore
<1>11. CASE UNCHANGED vars
  BY <1>11 DEF vars, TypeOK, Made
<1> QED
  BY <1>1, <1>2, <1>3, <1>4, <1>5, <1>6, <1>7, <1>8, <1>9, <1>10, <1>11 DEF Next

-----------------------------------------------------------------------------
(***************************************************************************)
(* The theorems                                                            *)
(***************************************************************************)
\* The table of descriptors has one entry under a layer, a component and a name,
\* filed under who registered it; and it holds the handlers of all interpreters.
THEOREM InvariantHolds == Spec => []CommandInvariant
BY InitKeeps, StepKeeps, PTL DEF Spec

\* Every variable keeps its type, for any addons, names, aliases and depth of handlers:
\* what is registered is of an interpreter that was made (command_manager.cpp, core.command).
THEOREM TypeOKHolds == Spec => []TypeOK
<1>1. Init => TypeOK /\ Made
  BY InitTyped
<1>2. TypeOK /\ Made /\ [Next]_vars => (TypeOK /\ Made)'
  BY StepTyped
<1> QED
  BY <1>1, <1>2, PTL DEF Spec

\* A handler that was registered is the one its full name leads to, and no
\* descriptor leads an interpreter to a handler it does not have, whatever was
\* unloaded, reset or registered since (command_manager.cpp, core.command).
THEOREM ReachableHolds == Spec => []Reachable
<1>1. CommandInvariant => Reachable
  BY ReachableFollows
<1> QED
  BY <1>1, InvariantHolds, PTL

\* Only handle_command answers, and it answers right: every step answers right.
LEMMA StepAnswersRight ==
    ASSUME CommandInvariant, [Next]_vars
    PROVE  [AnsweredRight(answer')]_vars
<1>1. CASE \E typed \in Typed : Handle(typed)
  <2>1. PICK typed \in Typed : Handle(typed)
    BY <1>1
  <2>2. ASSUME NEW a, a = answer'
        PROVE  AnsweredRight(a)
    BY <2>1, <2>2, HandleAnswers, AnsweredRightFollows
  <2> QED
    BY <2>2
<1>2. CASE answer' = NoAnswer
  <2>1. ASSUME NEW a, a = NoAnswer
        PROVE  AnsweredRight(a)
    BY <2>1 DEF NoAnswer, AnsweredRight
  <2> QED
    BY <1>2, <2>1
<1>3. CASE UNCHANGED vars
  BY <1>3
<1> QED
  BY <1>1, <1>2, <1>3 DEF Next, Register, Unregister, Return, Throw, ThrowInScript, Reset, Fail,
     Unload, Load, Alias, Unalias, UnloadAddon, NewInterpreter

\* handle_command calls the one match, in the first layer that has any, of an
\* interpreter that is there; it calls a name unknown only when no interpreter
\* has it, and ambiguous only in the first layer with a match.
THEOREM AnswersRightHolds == Spec => AnswersRight
BY InvariantHolds, StepAnswersRight, PTL DEF Spec, AnswersRight

================================================================================
