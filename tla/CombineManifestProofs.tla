------------------------ MODULE CombineManifestProofs ------------------------
(***************************************************************************)
(* What any number of runs of combine-manifest leave in a checkout of any  *)
(* size, with file operations that fail and runs that are killed.          *)
(***************************************************************************)
EXTENDS CombineManifest, FiniteSetTheorems, SequenceTheorems, TLAPS

-----------------------------------------------------------------------------
(* Lists in which nothing is repeated.                                     *)

LEMMA ImageSize ==
  ASSUME NEW n \in Nat, NEW f, NEW T, f \in [1..n -> T], T = {f[i] : i \in 1..n}
  PROVE  /\ IsFiniteSet(T)
         /\ Cardinality(T) = n <=> (\A i, j \in 1..n : f[i] = f[j] => i = j)
  <1>1. IsFiniteSet(1..n) /\ Cardinality(1..n) = n
    <2>1. 1 \in Int /\ n \in Int /\ (IF 1 > n THEN 0 ELSE n - 1 + 1) = n
      OBVIOUS
    <2>2. IsFiniteSet(1..n) /\ Cardinality(1..n) = IF 1 > n THEN 0 ELSE n - 1 + 1
      BY <2>1, FS_Interval
    <2> QED
      BY <2>1, <2>2
  <1>2. \A t \in T : \E i \in 1..n : f[i] = t
    OBVIOUS
  <1>3. f \in Surjection(1..n, T)
    BY <1>2 DEF Surjection
  <1>4. IsFiniteSet(T) /\ (Cardinality(T) = n <=> f \in Injection(1..n, T))
    BY <1>1, <1>3, FS_Surjection
  <1>5. f \in Injection(1..n, T) <=> (\A i, j \in 1..n : f[i] = f[j] => i = j)
    BY DEF Injection, IsInjective
  <1> QED
    BY <1>4, <1>5

LEMMA NothingTwice ==
  ASSUME NEW S, NEW s \in Seq(S)
  PROVE  NoneTwice(s) <=> IsInjective(s)
  <1>1. Len(s) \in Nat /\ DOMAIN s = 1..Len(s) /\ s \in [1..Len(s) -> S]
    BY LenProperties
  <1>2. ToSet(s) = {s[i] : i \in 1..Len(s)} /\ s \in [1..Len(s) -> ToSet(s)]
    BY <1>1 DEF ToSet
  <1>3. Cardinality(ToSet(s)) = Len(s) <=> (\A i, j \in 1..Len(s) : s[i] = s[j] => i = j)
    BY <1>1, <1>2, ImageSize
  <1> QED
    BY <1>1, <1>3 DEF NoneTwice, IsInjective

-----------------------------------------------------------------------------
(* validate accepts the sound manifests and no others.                     *)

LEMMA ValidLists ==
  ASSUME NEW s \in Seq(STRING), NEW allowed
  PROVE  ValidList(s, allowed) <=> ToSet(s) \subseteq allowed /\ NoneTwice(s)
  BY NothingTwice DEF ValidList

LEMMA ValidInputs ==
  ASSUME NEW c \in Capability, c.targetTypes # <<>>, ToSet(c.targetTypes) \subseteq TargetTypes
  PROVE  /\ ToSet(c.inputs) \subseteq Inputs
         /\ \A kind \in ToSet(c.inputs) :
                IF kind = "repository" THEN "git_org" \in ToSet(c.targetTypes)
                                       ELSE ToSet(c.targetTypes) \ {"git_org"} # {}
         <=> ToSet(c.inputs) \subseteq UNION {Supplies(t) : t \in ToSet(c.targetTypes)}
  <1> DEFINE types == ToSet(c.targetTypes)
             Fit(kind) == IF kind = "repository" THEN "git_org" \in types
                                                 ELSE types \ {"git_org"} # {}
             supplied == UNION {Supplies(t) : t \in types}
  <1>1. \A t : Supplies(t) = IF t = "git_org" THEN {"repository"} ELSE Inputs \ {"repository"}
    BY DEF Supplies
  <1>2. "repository" \in Inputs
    BY DEF Inputs
  <1> HIDE DEF types
  <1>3. ASSUME NEW kind \in Inputs, Fit(kind) PROVE kind \in supplied
    <2>1. CASE kind = "repository"
      BY <1>1, <1>3, <2>1
    <2>2. CASE kind # "repository"
      <3>1. PICK t \in types : t # "git_org"
        BY <1>3, <2>2
      <3> QED
        BY <1>1, <2>2, <3>1
    <2> QED
      BY <2>1, <2>2
  <1>4. ASSUME NEW kind \in supplied PROVE kind \in Inputs /\ Fit(kind)
    <2>1. PICK t \in types : kind \in Supplies(t)
      OBVIOUS
    <2> QED
      BY <1>1, <1>2, <2>1
  <1> QED
    BY <1>3, <1>4 DEF types

LEMMA ValidProduces ==
  ASSUME NEW c \in Capability
  PROVE  Decoded(c.produces) # Absent /\ ValidList(Decoded(c.produces), Kinds)
         <=> /\ c.produces # Absent
             /\ c.produces # Null => NoneTwice(c.produces) /\ ToSet(c.produces) \subseteq Kinds
  <1> USE CheckoutAssumption
  <1>1. CASE c.produces = Null
    <2>1. Decoded(c.produces) = <<>> /\ <<>> \in Seq(STRING) /\ <<>> # Absent /\ c.produces # Absent
      BY <1>1 DEF Decoded
    <2>2. ValidList(<<>>, Kinds)
      BY DEF ValidList, ToSet, IsInjective
    <2> QED
      BY <1>1, <2>1, <2>2
  <1>2. CASE c.produces = Absent
    BY <1>2 DEF Decoded
  <1>3. CASE c.produces \notin {Absent, Null}
    <2>1. c.produces \in Seq(STRING) /\ Decoded(c.produces) = c.produces
      BY <1>3 DEF Capability, Decoded
    <2> QED
      BY <1>3, <2>1, ValidLists
  <1> QED
    BY <1>1, <1>2, <1>3

LEMMA SoundCapabilities ==
  ASSUME NEW c \in Capability
  PROVE  c.targetTypes # <<>> /\ ValidList(c.targetTypes, TargetTypes) /\ ValidKinds(c)
         <=> SoundCapability(c)
  <1>1. c.targetTypes \in Seq(STRING) /\ c.inputs \in Seq(STRING)
    BY DEF Capability
  <1>2. ValidList(c.targetTypes, TargetTypes)
        <=> ToSet(c.targetTypes) \subseteq TargetTypes /\ NoneTwice(c.targetTypes)
    BY <1>1, ValidLists
  <1>3. ValidList(c.inputs, Inputs) <=> ToSet(c.inputs) \subseteq Inputs /\ NoneTwice(c.inputs)
    BY <1>1, ValidLists
  <1> QED
    BY <1>2, <1>3, ValidInputs, ValidProduces DEF ValidKinds, SoundCapability

LEMMA SoundTiers ==
  ASSUME NEW m \in Manifest
  PROVE  /\ Tiers(m) \in Seq(STRING)
         /\ ToSet(Tiers(m)) \subseteq {"free", "paid"}
            <=> {t.word : t \in ToSet(m.tiers)} \subseteq {"free", "paid"}
  <1>1. m.tiers \in Seq(Spelled)
    BY DEF Manifest
  <1>2. /\ DOMAIN m.tiers = 1..Len(m.tiers) /\ Len(m.tiers) \in Nat
        /\ \A i \in DOMAIN m.tiers : m.tiers[i] \in Spelled
    BY <1>1, LenProperties, ElementOfSeq
  <1>3. Tiers(m) \in [1..Len(m.tiers) -> STRING]
    BY <1>2 DEF Tiers, Tier, Spelled
  <1>4. Tiers(m) \in Seq(STRING)
    BY <1>2, <1>3, SeqDef
  <1>5. ToSet(Tiers(m)) = {t.word : t \in ToSet(m.tiers)}
    BY DEF ToSet, Tiers, Tier
  <1> QED
    BY <1>4, <1>5

(* No two capabilities of one category: the check pairs each with those    *)
(* before it.                                                              *)
LEMMA CategoriesApart ==
  ASSUME NEW caps \in Seq(Capability), \A i \in DOMAIN caps : caps[i].name \in DOMAIN Category
  PROVE  (\A i \in DOMAIN caps : \A j \in 1..(i - 1) : ~Clash(caps[j], caps[i]))
         <=> Cardinality({Category[caps[i].name] : i \in DOMAIN caps}) = Len(caps)
  <1> DEFINE n == Len(caps)
             f == [i \in 1..n |-> Category[caps[i].name]]
             T == {f[i] : i \in 1..n}
  <1>1. n \in Nat /\ DOMAIN caps = 1..n
    BY LenProperties
  <1>2. f \in [1..n -> T]
    OBVIOUS
  <1>3. Cardinality(T) = n <=> (\A i, j \in 1..n : f[i] = f[j] => i = j)
    <2> HIDE DEF f
    <2> QED
      BY <1>1, <1>2, ImageSize
  <1>4. T = {Category[caps[i].name] : i \in DOMAIN caps}
    BY <1>1
  <1>5. (\A i \in 1..n : \A j \in 1..(i - 1) : f[j] # f[i])
        <=> (\A i, j \in 1..n : f[i] = f[j] => i = j)
    <2> HIDE DEF f, n
    <2>1. ASSUME \A i \in 1..n : \A j \in 1..(i - 1) : f[j] # f[i],
                 NEW i \in 1..n, NEW j \in 1..n, f[i] = f[j]
          PROVE  i = j
      <3>1. i < j => i \in 1..(j - 1)
        BY <1>1
      <3>2. j < i => j \in 1..(i - 1)
        BY <1>1
      <3> QED
        BY <1>1, <2>1, <3>1, <3>2
    <2>2. ASSUME \A i, j \in 1..n : f[i] = f[j] => i = j,
                 NEW i \in 1..n, NEW j \in 1..(i - 1)
          PROVE  f[j] # f[i]
      BY <1>1, <2>2
    <2> QED
      BY <2>1, <2>2
  <1>6. \A i \in 1..n : \A j \in 1..(i - 1) : ~Clash(caps[j], caps[i]) <=> f[j] # f[i]
    BY <1>1 DEF Clash
  <1> QED
    BY <1>1, <1>3, <1>4, <1>5, <1>6

(* The checks of validate, in the order in which the code makes them, say  *)
(* of any manifest what Sound says of it without an order: no connector    *)
(* that is not sound passes, and no sound one is refused.                  *)
THEOREM ValidateIsExact == \A m \in Manifest : Accepted(m) <=> Sound(m)
  <1> SUFFICES ASSUME NEW m \in Manifest PROVE Accepted(m) <=> Sound(m)
    OBVIOUS
  <1>1. m.caps \in Seq(Capability) /\ \A i \in DOMAIN m.caps : m.caps[i] \in Capability
    <2>1. m.caps \in Seq(Capability)
      BY DEF Manifest
    <2> QED
      BY <2>1, ElementOfSeq, LenProperties
  <1>2. \A i \in DOMAIN m.caps :
            /\ m.caps[i].targetTypes # <<>>
            /\ ValidList(m.caps[i].targetTypes, TargetTypes) /\ ValidKinds(m.caps[i])
            <=> SoundCapability(m.caps[i])
    BY <1>1, SoundCapabilities
  <1>3. (\A i \in DOMAIN m.caps : m.caps[i].name \in DOMAIN Category) =>
            ((\A i \in DOMAIN m.caps : \A j \in 1..(i - 1) : ~Clash(m.caps[j], m.caps[i]))
             <=> Cardinality({Category[m.caps[i].name] : i \in DOMAIN m.caps}) = Len(m.caps))
    BY <1>1, CategoriesApart
  <1>4. ValidCapabilities(m.caps) <=>
            /\ m.caps # <<>>
            /\ \A i \in DOMAIN m.caps :
                   m.caps[i].name \in DOMAIN Category /\ SoundCapability(m.caps[i])
            /\ Cardinality({Category[m.caps[i].name] : i \in DOMAIN m.caps}) = Len(m.caps)
    BY <1>2, <1>3 DEF ValidCapabilities
  <1> QED
    BY <1>4, SoundTiers DEF Accepted, Sound

-----------------------------------------------------------------------------
(* The arithmetic of the resize.                                           *)

LEMMA Division ==
  ASSUME NEW a \in Nat, NEW b \in Nat \ {0}
  PROVE  a \div b \in Nat /\ (a \div b) * b <= a /\ a < (a \div b) * b + b
  OBVIOUS

LEMMA ShortEdge ==
  ASSUME NEW short \in Nat \ {0}, NEW long \in Nat \ {0}, short <= long, NEW m \in Nat \ {0},
         NEW s, s = AtLeastOne((short * m) \div long)
  PROVE  /\ s \in 1..m
         /\ s > 1 => s * long < m * short + short
         /\ m * short < s * long + long
  <1> DEFINE q == (short * m) \div long
  <1>1. short * m \in Nat /\ short * m = m * short /\ short * m <= long * m
    OBVIOUS
  <1>2. q \in Nat /\ q * long <= short * m /\ short * m < q * long + long
    BY <1>1, Division
  <1> HIDE DEF q
  <1>3. q <= m
    <2>1. q * long <= m * long
      BY <1>1, <1>2
    <2> QED
      BY <1>2, <2>1
  <1>4. s \in Nat /\ s >= 1 /\ s >= q /\ (s > 1 => s = q)
    BY <1>2 DEF AtLeastOne, q
  <1>5. s \in 1..m
    BY <1>3, <1>4
  <1>6. s > 1 => s * long < m * short + short
    BY <1>1, <1>2, <1>4
  <1>7. q * long <= s * long
    BY <1>2, <1>4
  <1> QED
    BY <1>1, <1>2, <1>4, <1>5, <1>6, <1>7

LEMMA FittingImage ==
  ASSUME NEW img, img = [w |-> img.w, h |-> img.h, by |-> img.by], img.by \in {"author", "combine", "square"},
         img.w \in 1..MaxLogo, img.h \in 1..MaxLogo
  PROVE  img \in Image /\ Fits(img)
  <1>1. MaxLogo \in Nat
    BY CheckoutAssumption
  <1>2. /\ img.w \in Nat \ {0} /\ img.h \in Nat \ {0}
        /\ img.w <= MaxLogo /\ img.h <= MaxLogo
    BY <1>1
  <1> QED
    BY <1>2 DEF Image, Fits

(* An oversized logo fits when it is resized, and keeps its shape.         *)
LEMMA ResizedFits ==
  ASSUME NEW img \in Image, ~Fits(img), NEW new, new = Resized(img)
  PROVE  /\ new \in Image /\ Fits(new) /\ MaxLogo \in {new.w, new.h}
         /\ new.w \in 1..MaxLogo /\ new.h \in 1..MaxLogo
         /\ new.h > 1 => new.h * img.w < new.w * img.h + img.h
         /\ new.w > 1 => new.w * img.h < new.h * img.w + img.w
  <1>1. img.w \in Nat \ {0} /\ img.h \in Nat \ {0} /\ MaxLogo \in Nat \ {0}
    BY CheckoutAssumption DEF Image
  <1>2. new.w = Scaled(img).w /\ new.h = Scaled(img).h
        /\ new = [w |-> new.w, h |-> new.h, by |-> new.by] /\ new.by = "combine"
    <2>1. new = [w |-> Scaled(img).w, h |-> Scaled(img).h, by |-> "combine"]
      BY DEF Resized
    <2>2. new.w = Scaled(img).w /\ new.h = Scaled(img).h /\ new.by = "combine"
      BY <2>1
    <2> QED
      BY <2>1, <2>2
  <1>3. CASE img.w >= img.h
    <2>1. new.w = MaxLogo /\ new.h = AtLeastOne((img.h * MaxLogo) \div img.w)
      BY <1>2, <1>3 DEF Scaled
    <2>2. /\ new.h \in 1..MaxLogo
          /\ new.h > 1 => new.h * img.w < MaxLogo * img.h + img.h
          /\ MaxLogo * img.h < new.h * img.w + img.w
      BY <1>1, <1>3, <2>1, ShortEdge
    <2>3. Fits(new) /\ new \in Image
      <3>1. new.w \in 1..MaxLogo /\ new.h \in 1..MaxLogo
        BY <1>1, <2>1, <2>2
      <3> QED
        BY <1>2, <3>1, FittingImage
    <2> QED
      BY <1>1, <2>1, <2>2, <2>3
  <1>4. CASE ~(img.w >= img.h)
    <2>0. img.w <= img.h
      BY <1>1, <1>4
    <2>1. new.h = MaxLogo /\ new.w = AtLeastOne((img.w * MaxLogo) \div img.h)
      BY <1>2, <1>4 DEF Scaled
    <2>2. /\ new.w \in 1..MaxLogo
          /\ new.w > 1 => new.w * img.h < MaxLogo * img.w + img.w
          /\ MaxLogo * img.w < new.w * img.h + img.h
      BY <1>1, <2>0, <2>1, ShortEdge
    <2>3. Fits(new) /\ new \in Image
      <3>1. new.w \in 1..MaxLogo /\ new.h \in 1..MaxLogo
        BY <1>1, <2>1, <2>2
      <3> QED
        BY <1>2, <3>1, FittingImage
    <2> QED
      BY <1>1, <2>1, <2>2, <2>3
  <1> QED
    BY <1>3, <1>4

LEMMA SquaredFits == Squared \in Image /\ Fits(Squared)
  <1>1. MaxLogo \in Nat \ {0} /\ MaxLogo \in 1..MaxLogo
    BY CheckoutAssumption
  <1>2. /\ Squared.w = MaxLogo /\ Squared.h = MaxLogo
        /\ Squared = [w |-> Squared.w, h |-> Squared.h, by |-> Squared.by]
        /\ Squared.by = "square"
    BY DEF Squared
  <1> QED
    BY <1>1, <1>2, FittingImage

-----------------------------------------------------------------------------
(* The invariant.                                                          *)

(* An entry of the catalog that was loaded from its place.                 *)
Whole(e) ==
    /\ e.slug = manifest[e.place].slug /\ e.name = manifest[e.place].name
    /\ Accepted(manifest[e.place]) /\ e.tiers = Tiers(manifest[e.place])
    /\ e.icon # None => Fits(e.icon)

(* What the run has found.                                                 *)
Seen == Discovered(unlisted, unseen)

Placed(list) == {list[i].place : i \in DOMAIN list}
Distinct(list) == \A i, j \in DOMAIN list : i # j => list[i].slug # list[j].slug
Ordered(list) == \A i, j \in DOMAIN list : i < j => list[i].name <= list[j].name
Catalog(list) == Distinct(list) /\ \A i \in DOMAIN list : Whole(list[i])
Shown(list) == \A i \in DOMAIN list :
    \/ list[i].icon = logo[list[i].place]
    \/ list[i].icon = None /\ list[i].place \in unshown

(* A run that has not ended has loaded or still has to load each manifest  *)
(* that it found, and not both.                                            *)
RunInv ==
    pc # "idle" =>
        /\ result = None
        /\ Placed(loaded) \cup queue = Seen
        /\ Placed(loaded) \cap queue = {}
        /\ Shown(loaded)

Oversized(p) == checkout.logo[p] \in Image /\ ~Fits(checkout.logo[p])

(* What is known of the manifest whose logo is being loaded.               *)
StepInv ==
    /\ pc = "logo" => \A p \in queue : First(p) => logo[p] # None /\ Accepted(manifest[p])
    /\ pc = "rewrite" => \A p \in queue : First(p) =>
           /\ Oversized(p) /\ image = Resized(checkout.logo[p]) /\ logo[p] = Cut
           /\ Accepted(manifest[p])

LogoInv ==
    \A p \in Places :
        \/ logo[p] \in {checkout.logo[p], Squared, Cut}
        \/ Oversized(p) /\ logo[p] = Resized(checkout.logo[p])

OutInv ==
    /\ pc \in {"load", "logo", "rewrite"} => out = before
    /\ pc = "write" => out = Cut /\ queue = {} /\ Ordered(loaded)
    /\ Written => Catalog(out) /\ Ordered(out)
    /\ result = "ok" => Placed(out) = Seen /\ Shown(out)

(* Only failures make a run miss something.                                *)
MissInv == ~ioFailed => unlisted = {} /\ unseen = {}

IInv ==
    /\ TypeOK /\ Catalog(loaded) /\ RunInv /\ StepInv /\ LogoInv /\ OutInv
    /\ MissInv /\ RefusalHasReason

-----------------------------------------------------------------------------
(* The checkout and what a run finds in it.                                *)

LEMMA TheCheckout ==
  ASSUME checkout \in Checkouts
  PROVE  /\ Places = DOMAIN checkout.logo /\ Places \subseteq Nat \X Nat
         /\ manifest \in [Places -> Manifest]
         /\ checkout.logo \in [Places -> {None, NotAnImage} \cup Image]
  BY CheckoutAssumption DEF Places, manifest

LEMMA OneIsFirst ==
  ASSUME Places \subseteq Nat \X Nat, queue \subseteq Places,
         NEW p \in queue, First(p), NEW q \in queue, First(q)
  PROVE  p = q
  <1>1. p[1] \in Nat /\ p[2] \in Nat /\ q[1] \in Nat /\ q[2] \in Nat
    OBVIOUS
  <1>2. SUFFICES ASSUME p # q PROVE FALSE
    OBVIOUS
  <1>3. Before(p, q) /\ Before(q, p)
    BY <1>2 DEF First
  <1> QED
    BY <1>1, <1>3 DEF Before

LEMMA FoundAreThere == Seen \subseteq Places
  BY DEF Seen, Discovered

LEMMA AllAreSeen == MissInv /\ ~ioFailed => Seen = Connectors
  BY DEF MissInv, Seen, Connectors

LEMMA AppendToList ==
  ASSUME NEW S, NEW s \in Seq(S), NEW x \in S, NEW t, t = Append(s, x)
  PROVE  /\ t \in Seq(S) /\ DOMAIN s = 1..Len(s) /\ DOMAIN t = 1..(Len(s) + 1)
         /\ Len(s) \in Nat /\ t[Len(s) + 1] = x /\ \A i \in 1..Len(s) : t[i] = s[i]
  BY AppendProperties, LenProperties

-----------------------------------------------------------------------------
(* The steps of a run.                                                     *)

LEMMA InitInv == Init => IInv
  <1> SUFFICES ASSUME Init PROVE IInv
    OBVIOUS
  <1> USE DEF Init
  <1>1. TypeOK
    <2>1. logo \in [Places -> {None, Cut, NotAnImage} \cup Image]
      BY TheCheckout
    <2>2. loaded \in Seq(Entry) /\ runs \in 0..MaxRuns
      BY CheckoutAssumption
    <2> QED
      BY <2>1, <2>2 DEF TypeOK
  <1>2. DOMAIN loaded = {}
    OBVIOUS
  <1>3. Catalog(loaded) /\ RunInv /\ StepInv
    BY <1>2 DEF Catalog, Distinct, RunInv, StepInv
  <1>4. LogoInv
    BY DEF LogoInv
  <1>5. OutInv /\ RefusalHasReason /\ MissInv
    BY CheckoutAssumption DEF OutInv, RefusalHasReason, Written, MissInv
  <1> QED
    BY <1>1, <1>3, <1>4, <1>5 DEF IInv

(* A run that ends early leaves its catalog and needs a reason.            *)
LEMMA EndKeeps ==
  ASSUME IInv, pc # "idle", pc' = "idle", result' \in {"error", "killed"},
         UNCHANGED <<checkout, before, run, out, runs, unlisted, unseen>>, unshown' \subseteq Places,
         ioFailed' \in BOOLEAN, ioFailed => ioFailed',
         logo' \in [Places -> {None, Cut, NotAnImage} \cup Image], LogoInv',
         RefusalHasReason'
  PROVE  IInv'
  <1> USE DEF IInv, run
  <1>1. TypeOK'
    BY DEF TypeOK, Entry, Places, manifest
  <1>2. Catalog(loaded)'
    BY DEF Catalog, Distinct, Whole, manifest
  <1>3. RunInv' /\ StepInv'
    BY DEF RunInv, StepInv
  <1>4. OutInv'
    <2>1. Written' <=> Written
      BY DEF Written
    <2>2. Written => (Catalog(out) /\ Ordered(out))'
      BY DEF OutInv, Catalog, Distinct, Whole, manifest, Ordered
    <2> QED
      BY <2>1, <2>2 DEF OutInv
  <1>5. MissInv'
    BY DEF MissInv
  <1> QED
    BY <1>1, <1>2, <1>3, <1>4, <1>5

LEMMA IOFailsKeeps ==
  ASSUME IInv, pc # "idle", IOFails, UNCHANGED <<checkout, logo, before, runs, missed>>
  PROVE  IInv'
  <1> USE DEF IInv, IOFails, Fail, missed
  <1>1. LogoInv'
    BY DEF LogoInv, Oversized, Places, manifest
  <1>2. RefusalHasReason'
    BY DEF RefusalHasReason
  <1>3. logo' \in [Places -> {None, Cut, NotAnImage} \cup Image] /\ unshown' \subseteq Places
    BY DEF TypeOK
  <1> QED
    BY <1>1, <1>2, <1>3, EndKeeps

(* A manifest that is accepted and refused by Add has the slug of another  *)
(* one, and one that is added is no longer to be loaded.                   *)
LEMMA AddKeeps ==
  ASSUME IInv, pc \in {"load", "logo", "rewrite"},
         NEW p \in queue, First(p), Accepted(manifest[p]),
         NEW icon \in {None} \cup Image, icon # None => Fits(icon),
         Add(p, icon), logo'[p] = icon \/ (icon = None /\ p \in unshown'),
         unshown \subseteq unshown', unshown' \subseteq Places,
         \A q \in Places \ {p} : logo'[q] = logo[q],
         logo' \in [Places -> {None, Cut, NotAnImage} \cup Image], LogoInv',
         ioFailed' \in BOOLEAN, ioFailed => ioFailed',
         UNCHANGED <<checkout, before, runs, unlisted, unseen>>
  PROVE  IInv'
  <1>1. /\ checkout \in Checkouts /\ loaded \in Seq(Entry) /\ p \in Places
        /\ Placed(loaded) \cup queue = Seen /\ Placed(loaded) \cap queue = {}
        /\ result = None
    BY DEF IInv, TypeOK, RunInv, Add, Add_Anyway, Fail, run
  <1>2. DOMAIN loaded = 1..Len(loaded) /\ \A i \in DOMAIN loaded : loaded[i] \in Entry
    BY <1>1, LenProperties, ElementOfSeq
  <1>3. \A i \in DOMAIN loaded : loaded[i].slug = manifest[loaded[i].place].slug /\ loaded[i].place \in Places
    BY <1>2 DEF IInv, Catalog, Whole, Entry
  <1>4. CASE manifest[p].slug \in Slugs
    <2>1. Fail
      BY <1>4 DEF Add
    <2>2. PICK i \in DOMAIN loaded : loaded[i].slug = manifest[p].slug
      BY <1>4 DEF Slugs
    <2>3. /\ p \in Seen /\ loaded[i].place \in Seen
          /\ loaded[i].place # p /\ manifest[loaded[i].place].slug = manifest[p].slug
      BY <1>1, <1>3, <2>2 DEF Placed
    <2>4. Seen' = Seen /\ manifest' = manifest
      BY <1>1 DEF Seen, Discovered, Places, manifest
    <2>5. Connectors' = Connectors
      BY <1>1 DEF Connectors, Discovered, Places, manifest
    <2>6. ~ioFailed' => Seen = Connectors
      BY AllAreSeen DEF IInv
    <2>7. RefusalHasReason'
      BY <2>3, <2>4, <2>5, <2>6 DEF RefusalHasReason
    <2> QED
      BY <1>1, <2>1, <2>7, EndKeeps DEF Fail
  <1>5. CASE manifest[p].slug \notin Slugs
    <2> DEFINE e == [place |-> p, slug |-> manifest[p].slug, name |-> manifest[p].name,
                     tiers |-> Tiers(manifest[p]), icon |-> icon]
    <2>1. /\ loaded' = Append(loaded, e) /\ queue' = queue \ {p} /\ pc' = "load"
          /\ image' = None /\ out' = out /\ result' = result
      BY <1>5 DEF Add, Add_Anyway
    <2>2. e \in Entry
      <3>1. manifest[p] \in Manifest
        BY <1>1, TheCheckout
      <3> QED
        BY <1>1, <3>1, SoundTiers DEF Entry, Manifest
    <2>3. /\ e.place = p /\ e.slug = manifest[p].slug /\ e.name = manifest[p].name
          /\ e.tiers = Tiers(manifest[p]) /\ e.icon = icon
      OBVIOUS
    <2> HIDE DEF e
    <2>4. PICK n \in Nat :
              /\ loaded' \in Seq(Entry) /\ DOMAIN loaded = 1..n /\ DOMAIN loaded' = 1..(n + 1)
              /\ loaded'[n + 1] = e /\ \A i \in 1..n : loaded'[i] = loaded[i]
      BY <1>1, <2>1, <2>2, AppendToList
    <2>5. /\ manifest' = manifest /\ Places' = Places /\ Entry' = Entry
          /\ Seen' = Seen
      BY <1>1 DEF Entry, Places, manifest, Seen, Discovered
    <2>6. \A i \in 1..(n + 1) : i = n + 1 \/ i \in 1..n
      BY <2>4
    <2>7. TypeOK'
      BY <1>1, <2>1, <2>4, <2>5 DEF IInv, TypeOK
    <2>8. Catalog(loaded)'
      <3>1. \A i \in 1..(n + 1) : Whole(loaded[i])'
        <4>1. Whole(loaded[n + 1])'
          BY <1>5, <2>3, <2>4, <2>5 DEF Whole
        <4>2. \A i \in 1..n : Whole(loaded[i])'
          BY <2>4, <2>5 DEF IInv, Catalog, Whole
        <4> QED
          BY <2>6, <4>1, <4>2
      <3>2. \A i \in 1..n : loaded[i].slug # e.slug
        BY <1>5, <2>3, <2>4 DEF Slugs
      <3>3. Distinct(loaded)'
        BY <2>4, <2>6, <3>2 DEF IInv, Catalog, Distinct
      <3> QED
        BY <2>4, <3>1, <3>3 DEF Catalog
    <2>9. RunInv'
      <3>1. Placed(loaded)' = Placed(loaded) \cup {p}
        BY <2>3, <2>4, <2>6 DEF Placed
      <3>2. Shown(loaded)'
        <4>1. \A i \in 1..n :
                 \/ loaded[i].icon = logo'[loaded[i].place]
                 \/ loaded[i].icon = None /\ loaded[i].place \in unshown'
          <5>1. \A i \in 1..n : loaded[i].place \in Places /\ loaded[i].place # p
            BY <1>1, <1>3, <2>4 DEF Placed
          <5> QED
            BY <2>4, <5>1 DEF IInv, RunInv, Shown
        <4>2. \/ e.icon = logo'[e.place]
              \/ e.icon = None /\ e.place \in unshown'
          BY <2>3
        <4> QED
          BY <2>4, <2>6, <4>1, <4>2 DEF Shown
      <3> QED
        BY <1>1, <2>1, <2>5, <3>1, <3>2 DEF RunInv
    <2>10. StepInv'
      BY <2>1 DEF StepInv
    <2>11. OutInv'
      <3>1. out = before /\ out' = before'
        BY <2>1 DEF IInv, OutInv
      <3>2. Written' => (Catalog(out) /\ Ordered(out))'
        BY <2>1, <2>5 DEF IInv, OutInv, Written, Catalog, Distinct, Whole, Ordered
      <3>3. result' # "ok"
        BY <1>1, <2>1, CheckoutAssumption
      <3> QED
        BY <2>1, <3>1, <3>2, <3>3 DEF OutInv
    <2>12. RefusalHasReason' /\ MissInv'
      BY <1>1, <2>1, CheckoutAssumption DEF IInv, RefusalHasReason, MissInv
    <2> QED
      BY <2>7, <2>8, <2>9, <2>10, <2>11, <2>12 DEF IInv
  <1> QED
    BY <1>4, <1>5

LEMMA DiscoverKeeps ==
  ASSUME IInv, Discover
  PROVE  IInv'
  <1>1. PICK cats \in SUBSET {p[1] : p \in Places}, files \in SUBSET Places :
           /\ unlisted' = cats /\ unseen' = files
           /\ \/ queue' = Discovered(cats, files) /\ ioFailed' = (cats # {} \/ files # {})
              \/ queue' = {} /\ ioFailed' = TRUE
    BY DEF Discover
  <1>2. /\ runs' = runs + 1 /\ runs < MaxRuns /\ before' = out
        /\ loaded' = <<>> /\ image' = None /\ unshown' = {} /\ UNCHANGED <<checkout, logo, out>>
        /\ \/ queue' = {} /\ pc' = "idle" /\ result' = "error"
           \/ queue' # {} /\ pc' = "load" /\ result' = None
    BY DEF Discover
  <1>3. /\ manifest' = manifest /\ Places' = Places /\ Entry' = Entry
        /\ Seen' = Discovered(cats, files) /\ Connectors' = Connectors
    BY <1>1, <1>2 DEF Entry, Places, manifest, Seen, Connectors, Discovered
  <1>4. queue' \subseteq Places
    BY <1>1 DEF Discovered
  <1>5. DOMAIN loaded' = {}
    BY <1>2
  <1>6. TypeOK'
    <2>1. runs' \in 0..MaxRuns
      BY <1>2, CheckoutAssumption DEF IInv, TypeOK
    <2>2. loaded' \in Seq(Entry)
      BY <1>2
    <2>3. ioFailed' \in BOOLEAN /\ pc' \in {"idle", "load"} /\ result' \in {None, "error"}
      BY <1>1, <1>2
    <2> QED
      BY <1>1, <1>2, <1>3, <1>4, <2>1, <2>2, <2>3 DEF IInv, TypeOK
  <1>7. Catalog(loaded)'
    BY <1>5 DEF Catalog, Distinct
  <1>8. RunInv'
    <2>1. Placed(loaded)' = {} /\ Shown(loaded)'
      BY <1>5 DEF Placed, Shown
    <2> QED
      BY <1>1, <1>2, <1>3, <2>1 DEF RunInv
  <1>9. StepInv'
    BY <1>2 DEF StepInv
  <1>10. LogoInv'
    BY <1>2, <1>3 DEF IInv, LogoInv, Oversized
  <1>11. OutInv'
    <2>1. Written' => (Catalog(out) /\ Ordered(out))'
      BY <1>2, <1>3 DEF IInv, OutInv, Written, Catalog, Distinct, Whole, Ordered
    <2>2. result' # "ok" /\ pc' # "write"
      BY <1>2, CheckoutAssumption
    <2> QED
      BY <1>2, <2>1, <2>2 DEF OutInv
  <1>12. MissInv'
    BY <1>1 DEF MissInv
  <1>13. RefusalHasReason'
    <2> SUFFICES ASSUME result' = "error", ~ioFailed' PROVE Connectors' = {}
      BY DEF RefusalHasReason
    <2>1. queue' = {}
      BY <1>2, CheckoutAssumption
    <2>2. queue' = Connectors
      BY <1>1 DEF Connectors
    <2> QED
      BY <1>3, <2>1, <2>2
  <1> QED
    BY <1>6, <1>7, <1>8, <1>9, <1>10, <1>11, <1>12, <1>13 DEF IInv

LEMMA LogoTypes ==
  ASSUME IInv
  PROVE  /\ checkout \in Checkouts /\ logo \in [Places -> {None, Cut, NotAnImage} \cup Image]
         /\ queue \subseteq Places /\ Places \subseteq Nat \X Nat
         /\ manifest \in [Places -> Manifest]
         /\ checkout.logo \in [Places -> {None, NotAnImage} \cup Image]
         /\ \A p \in Places : logo[p] \in {None, Cut, NotAnImage} \cup Image
  BY TheCheckout DEF IInv, TypeOK

LEMMA LoadedElsewhere ==
  ASSUME IInv, pc # "idle", NEW p \in queue
  PROVE  \A i \in DOMAIN loaded :
             loaded[i] \in Entry /\ loaded[i].place \in Places /\ loaded[i].place # p
  <1>1. loaded \in Seq(Entry)
    BY DEF IInv, TypeOK
  <1>2. \A i \in DOMAIN loaded : loaded[i] \in Entry
    BY <1>1, LenProperties, ElementOfSeq
  <1>3. \A i \in DOMAIN loaded : loaded[i].place # p
    BY DEF IInv, RunInv, Placed
  <1> QED
    BY <1>2, <1>3 DEF Entry

LEMMA LoadManifestKeeps ==
  ASSUME IInv, LoadManifest
  PROVE  IInv'
  <1>1. PICK p \in queue :
            /\ First(p)
            /\ \/ IOFails /\ UNCHANGED unshown
               \/ ~Accepted(manifest[p]) /\ Fail /\ UNCHANGED <<ioFailed, unshown>>
               \/ /\ Accepted(manifest[p]) /\ logo[p] = None
                  /\ Add(p, None) /\ UNCHANGED <<ioFailed, unshown>>
               \/ /\ Accepted(manifest[p]) /\ logo[p] # None
                  /\ pc' = "logo" /\ UNCHANGED <<run, out, result, ioFailed, unshown>>
               \/ /\ Accepted(manifest[p]) /\ logo[p] # None
                  /\ Add(p, None) /\ ioFailed' = TRUE /\ unshown' = unshown \cup {p}
    BY DEF LoadManifest
  <1>2. pc = "load" /\ UNCHANGED <<checkout, logo, before, runs, unlisted, unseen>>
    BY DEF LoadManifest
  <1>3. /\ manifest' = manifest /\ Places' = Places /\ Entry' = Entry
    BY <1>2 DEF Entry, Places, manifest
  <1>4. LogoInv'
    BY <1>2, <1>3 DEF IInv, LogoInv, Oversized
  <1>5. CASE IOFails /\ UNCHANGED unshown
    BY <1>2, <1>5, IOFailsKeeps DEF missed
  <1>6. CASE ~Accepted(manifest[p]) /\ Fail /\ UNCHANGED <<ioFailed, unshown>>
    <2>1. p \in Places /\ manifest[p] \in Manifest
      BY LogoTypes
    <2>2. ~Sound(manifest[p])
      BY <1>6, <2>1, ValidateIsExact
    <2>3. p \in Seen
      BY <1>2 DEF IInv, RunInv
    <2>4. Connectors' = Connectors /\ (~ioFailed => Seen = Connectors)
      BY <1>3, AllAreSeen DEF IInv, Connectors, Discovered
    <2>5. RefusalHasReason'
      BY <1>3, <1>6, <2>2, <2>3, <2>4 DEF RefusalHasReason
    <2>6. /\ ioFailed' \in BOOLEAN /\ logo' \in [Places -> {None, Cut, NotAnImage} \cup Image]
          /\ unshown' \subseteq Places
      BY <1>2, <1>6 DEF IInv, TypeOK
    <2>7. /\ pc # "idle" /\ pc' = "idle" /\ result' \in {"error", "killed"}
          /\ UNCHANGED <<checkout, before, run, out, runs, unlisted, unseen>>
          /\ ioFailed => ioFailed'
      BY <1>2, <1>6 DEF Fail
    <2> QED
      BY <1>4, <2>5, <2>6, <2>7, EndKeeps
  <1>7. CASE /\ Accepted(manifest[p]) /\ Add(p, None)
             /\ \/ logo[p] = None /\ UNCHANGED <<ioFailed, unshown>>
                \/ ioFailed' = TRUE /\ unshown' = unshown \cup {p}
    <2>1. /\ logo' \in [Places -> {None, Cut, NotAnImage} \cup Image]
          /\ ioFailed' \in BOOLEAN /\ (ioFailed => ioFailed')
          /\ unshown \subseteq unshown' /\ unshown' \subseteq Places
      <3>1. /\ logo \in [Places -> {None, Cut, NotAnImage} \cup Image]
            /\ p \in Places /\ unshown \subseteq Places /\ ioFailed \in BOOLEAN
        BY LogoTypes DEF IInv, TypeOK
      <3>2. /\ unshown' = unshown \/ unshown' = unshown \cup {p}
            /\ ioFailed' = ioFailed \/ ioFailed' = TRUE
        BY <1>7
      <3>3. ioFailed' \in BOOLEAN /\ (ioFailed => ioFailed')
        <4>1. CASE ioFailed' = ioFailed
          BY <3>1, <4>1
        <4>2. CASE ioFailed' = TRUE
          BY <4>2
        <4> QED
          BY <3>2, <4>1, <4>2
      <3>4. unshown \subseteq unshown' /\ unshown' \subseteq Places
        BY <3>1, <3>2, Zenon
      <3>5. logo' \in [Places -> {None, Cut, NotAnImage} \cup Image]
        BY <1>2, <3>1, Zenon
      <3> QED
        BY <3>3, <3>4, <3>5, Zenon
    <2>2. /\ logo'[p] = None \/ p \in unshown'
          /\ \A q \in Places \ {p} : logo'[q] = logo[q]
      BY <1>2, <1>7
    <2> QED
      BY <1>1, <1>2, <1>4, <1>7, <2>1, <2>2, AddKeeps
  <1>8. CASE /\ Accepted(manifest[p]) /\ logo[p] # None /\ pc' = "logo"
             /\ UNCHANGED <<run, out, result, ioFailed, unshown>>
    <2> USE DEF IInv, run
    <2>1. TypeOK'
      BY <1>2, <1>3, <1>8 DEF TypeOK
    <2>2. Catalog(loaded)'
      BY <1>3, <1>8 DEF Catalog, Distinct, Whole
    <2>3. Seen' = Seen
      BY <1>2, <1>3, <1>8 DEF Seen, Discovered
    <2>4. RunInv'
      BY <1>2, <1>8, <2>3 DEF RunInv, Placed, Shown
    <2>5. \A q \in queue : First(q) => q = p
      BY <1>1, LogoTypes, OneIsFirst
    <2>6. StepInv'
      BY <1>2, <1>3, <1>8, <2>5 DEF StepInv, First
    <2>7. OutInv'
      <3>1. result' # "ok"
        BY <1>2, <1>8, CheckoutAssumption DEF RunInv
      <3>2. out = before
        BY <1>2 DEF OutInv
      <3>3. Written' => (Catalog(out) /\ Ordered(out))'
        BY <1>3, <1>8 DEF OutInv, Written, Catalog, Distinct, Whole, Ordered
      <3> QED
        BY <1>2, <1>8, <3>1, <3>2, <3>3 DEF OutInv
    <2>8. RefusalHasReason' /\ MissInv'
      BY <1>2, <1>8, CheckoutAssumption DEF RefusalHasReason, RunInv, MissInv
    <2> QED
      BY <1>4, <2>1, <2>2, <2>4, <2>6, <2>7, <2>8
  <1> QED
    BY <1>1, <1>5, <1>6, <1>7, <1>8

(* A logo over the budget is the one that was committed: no run leaves one *)
(* of that size, and neither does square-logo.                             *)
LEMMA OversizedIsCommitted ==
  ASSUME IInv, NEW p \in Places, logo[p] \in Image, logo[p] # Cut, ~Fits(logo[p])
  PROVE  logo[p] = checkout.logo[p] /\ Oversized(p)
  <1>1. logo[p] # Squared
    BY SquaredFits
  <1>2. ~(Oversized(p) /\ logo[p] = Resized(checkout.logo[p]))
    BY ResizedFits DEF Oversized
  <1> QED
    BY <1>1, <1>2 DEF IInv, LogoInv, Oversized

LEMMA LoadLogoKeeps ==
  ASSUME IInv, LoadLogo
  PROVE  IInv'
  <1>1. PICK p \in queue :
            /\ First(p)
            /\ \/ IOFails /\ UNCHANGED logo
               \/ logo[p] \in {Cut, NotAnImage} /\ Fail /\ UNCHANGED <<logo, ioFailed>>
               \/ /\ logo[p] \notin {Cut, NotAnImage} /\ Fits(logo[p])
                  /\ Add(p, logo[p])
                  /\ UNCHANGED <<logo, ioFailed>>
               \/ /\ logo[p] \notin {Cut, NotAnImage} /\ ~Fits(logo[p])
                  /\ image' = Resized(logo[p])
                  /\ logo' = [logo EXCEPT ![p] = Cut]
                  /\ pc' = "rewrite"
                  /\ UNCHANGED <<queue, loaded, out, result, ioFailed>>
    BY DEF LoadLogo
  <1>2. pc = "logo" /\ UNCHANGED <<checkout, before, runs, missed>>
    BY DEF LoadLogo
  <1>3. manifest' = manifest /\ Places' = Places /\ Entry' = Entry
    BY <1>2 DEF Entry, Places, manifest
  <1>4. /\ logo[p] # None /\ Accepted(manifest[p]) /\ p \in Places
        /\ logo[p] \in {Cut, NotAnImage} \cup Image
    BY <1>1, <1>2, LogoTypes DEF IInv, StepInv
  <1>5. UNCHANGED logo =>
            LogoInv' /\ logo' \in [Places -> {None, Cut, NotAnImage} \cup Image]
    BY <1>2, <1>3 DEF IInv, LogoInv, Oversized, TypeOK
  <1>0. unshown' \subseteq Places /\ UNCHANGED <<unlisted, unseen, unshown>> /\ ioFailed \in BOOLEAN
    BY <1>2 DEF IInv, TypeOK, missed
  <1>6. CASE IOFails /\ UNCHANGED logo
    BY <1>2, <1>6, IOFailsKeeps
  <1>7. CASE logo[p] \in {Cut, NotAnImage} /\ Fail /\ UNCHANGED <<logo, ioFailed>>
    <2>1. p \in Seen
      BY <1>2 DEF IInv, RunInv
    <2>2. Connectors' = Connectors /\ (~ioFailed => Seen = Connectors)
      BY <1>3, AllAreSeen DEF IInv, Connectors, Discovered
    <2>3. RefusalHasReason'
      BY <1>7, <2>1, <2>2 DEF RefusalHasReason
    <2>4. ioFailed' \in BOOLEAN
      BY <1>7 DEF IInv, TypeOK
    <2> QED
      BY <1>0, <1>2, <1>5, <1>7, <2>3, <2>4, EndKeeps DEF Fail
  <1>8. CASE /\ logo[p] \notin {Cut, NotAnImage} /\ Fits(logo[p]) /\ Add(p, logo[p])
             /\ UNCHANGED <<logo, ioFailed>>
    <2>1. \A q \in Places \ {p} : logo'[q] = logo[q]
      BY <1>8
    <2>2. logo[p] \in Image
      BY <1>4, <1>8
    <2> QED
      BY <1>0, <1>1, <1>2, <1>4, <1>5, <1>8, <2>1, <2>2, AddKeeps
  <1>9. CASE /\ logo[p] \notin {Cut, NotAnImage} /\ ~Fits(logo[p])
             /\ image' = Resized(logo[p])
             /\ logo' = [logo EXCEPT ![p] = Cut]
             /\ pc' = "rewrite"
             /\ UNCHANGED <<queue, loaded, out, result, ioFailed>>
    <2> USE DEF IInv
    <2>1. logo[p] \in Image
      BY <1>4, <1>9
    <2>2. logo[p] = checkout.logo[p]
      BY <1>4, <1>9, <2>1, OversizedIsCommitted
    <2>3. image' \in Image
      BY <1>9, <2>1, ResizedFits
    <2>4. /\ logo' \in [Places -> {None, Cut, NotAnImage} \cup Image]
          /\ logo'[p] = Cut /\ \A q \in Places \ {p} : logo'[q] = logo[q]
      BY <1>9, LogoTypes
    <2>5. TypeOK'
      BY <1>0, <1>2, <1>3, <1>9, <2>3, <2>4 DEF TypeOK
    <2>6. Catalog(loaded)'
      BY <1>3, <1>9 DEF Catalog, Distinct, Whole
    <2>7. Seen' = Seen
      BY <1>0, <1>3, <1>9 DEF Seen, Discovered
    <2>8. RunInv'
      <3>1. \A i \in DOMAIN loaded : loaded[i].place \in Places /\ loaded[i].place # p
        BY <1>2, LoadedElsewhere
      <3>2. Shown(loaded)'
        BY <1>0, <1>2, <1>9, <2>4, <3>1 DEF RunInv, Shown
      <3> QED
        BY <1>2, <1>9, <2>7, <3>2 DEF RunInv, Placed
    <2>9. StepInv'
      <3>1. \A q \in queue : First(q) => q = p
        BY <1>1, LogoTypes, OneIsFirst
      <3>2. Oversized(p)' /\ image' = Resized(checkout.logo[p])
        BY <1>2, <1>9, <2>1, <2>2 DEF Oversized
      <3> QED
        BY <1>2, <1>3, <1>4, <1>9, <2>4, <3>1, <3>2 DEF StepInv, First
    <2>10. LogoInv'
      BY <1>2, <1>3, <2>4 DEF LogoInv, Oversized
    <2>11. OutInv'
      <3>1. result' # "ok"
        BY <1>2, <1>9, CheckoutAssumption DEF RunInv
      <3>2. out = before
        BY <1>2 DEF OutInv
      <3>3. Written' => (Catalog(out) /\ Ordered(out))'
        BY <1>3, <1>9 DEF OutInv, Written, Catalog, Distinct, Whole, Ordered
      <3> QED
        BY <1>2, <1>9, <3>1, <3>2, <3>3 DEF OutInv
    <2>12. RefusalHasReason' /\ MissInv'
      BY <1>0, <1>2, <1>9, CheckoutAssumption DEF RefusalHasReason, RunInv, MissInv
    <2> QED
      BY <2>5, <2>6, <2>8, <2>9, <2>10, <2>11, <2>12
  <1> QED
    BY <1>1, <1>6, <1>7, <1>8, <1>9

LEMMA RewriteLogoKeeps ==
  ASSUME IInv, RewriteLogo
  PROVE  IInv'
  <1>1. PICK p \in queue :
            /\ First(p)
            /\ \/ /\ logo' = [logo EXCEPT ![p] = image]
                  /\ Add(p, image) /\ UNCHANGED ioFailed
               \/ IOFails /\ UNCHANGED logo
    BY DEF RewriteLogo
  <1>2. pc = "rewrite" /\ UNCHANGED <<checkout, before, runs, missed>>
    BY DEF RewriteLogo
  <1>3. manifest' = manifest /\ Places' = Places
    BY <1>2 DEF Places, manifest
  <1>0. unshown' \subseteq Places /\ UNCHANGED <<unlisted, unseen, unshown>> /\ ioFailed \in BOOLEAN
    BY <1>2 DEF IInv, TypeOK, missed
  <1>4. CASE IOFails /\ UNCHANGED logo
    BY <1>2, <1>4, IOFailsKeeps
  <1>5. CASE logo' = [logo EXCEPT ![p] = image] /\ Add(p, image) /\ UNCHANGED ioFailed
    <2>1. /\ p \in Places /\ Accepted(manifest[p]) /\ Oversized(p)
          /\ image = Resized(checkout.logo[p])
      BY <1>1, <1>2, LogoTypes DEF IInv, StepInv
    <2>2. image \in Image /\ Fits(image)
      BY <2>1, ResizedFits DEF Oversized
    <2>3. /\ logo' \in [Places -> {None, Cut, NotAnImage} \cup Image]
          /\ logo'[p] = image /\ \A q \in Places \ {p} : logo'[q] = logo[q]
      BY <1>5, <2>1, <2>2, LogoTypes
    <2>4. LogoInv'
      BY <1>2, <1>3, <2>1, <2>3 DEF IInv, LogoInv, Oversized
    <2> QED
      BY <1>0, <1>1, <1>2, <1>5, <2>1, <2>2, <2>3, <2>4, AddKeeps
  <1> QED
    BY <1>1, <1>4, <1>5

(* What the sort may make of the list that was loaded: every order has each*)
(* of its entries once, since there are as many places as entries.         *)
LEMMA SortedList ==
  ASSUME NEW E, NEW list \in Seq(E), Distinct(list),
         NEW s \in [DOMAIN list -> ToSet(list)], ToSet(s) = ToSet(list)
  PROVE  /\ s \in Seq(E) /\ DOMAIN s = DOMAIN list
         /\ Distinct(s) /\ Placed(s) = Placed(list)
         /\ \A i \in DOMAIN s : \E j \in DOMAIN list : s[i] = list[j]
         /\ \A j \in DOMAIN list : \E i \in DOMAIN s : list[j] = s[i]
  <1> DEFINE n == Len(list)
             T == ToSet(list)
  <1>1. n \in Nat /\ DOMAIN list = 1..n /\ \A i \in 1..n : list[i] \in E
    BY LenProperties, ElementOfSeq
  <1>2. T = {list[i] : i \in 1..n} /\ T \subseteq E /\ list \in [1..n -> T]
    <2>1. T = {list[i] : i \in 1..n}
      BY <1>1 DEF ToSet
    <2>2. list \in [1..n -> E]
      BY LenProperties
    <2> QED
      BY <1>1, <2>1, <2>2
  <1>3. s \in [1..n -> T] /\ T = {s[i] : i \in 1..n}
    BY <1>1 DEF ToSet
  <1> HIDE DEF n, T
  <1>4. \A i, j \in 1..n : list[i] = list[j] => i = j
    BY <1>1 DEF Distinct
  <1>5. Cardinality(T) = n
    <2>1. IsInjective(list)
      BY <1>1, <1>4 DEF IsInjective
    <2> QED
      BY <2>1, NothingTwice DEF NoneTwice, n, T
  <1>6. \A i, j \in 1..n : s[i] = s[j] => i = j
    BY <1>1, <1>3, <1>5, ImageSize
  <1>7. s \in Seq(E)
    <2>1. s \in [1..n -> E]
      BY <1>2, <1>3
    <2> QED
      BY <1>1, <2>1, SeqDef
  <1>8. DOMAIN s = 1..n
    BY <1>3
  <1>9. \A i \in 1..n : \E j \in 1..n : s[i] = list[j]
    BY <1>2, <1>3
  <1>10. \A j \in 1..n : \E i \in 1..n : list[j] = s[i]
    BY <1>2, <1>3
  <1>11. Distinct(s)
    <2>1. SUFFICES ASSUME NEW i \in 1..n, NEW j \in 1..n, i # j PROVE s[i].slug # s[j].slug
      BY <1>8 DEF Distinct
    <2>2. PICK k \in 1..n : s[i] = list[k]
      BY <1>9
    <2>3. PICK l \in 1..n : s[j] = list[l]
      BY <1>9
    <2>4. k # l
      BY <1>6, <2>1, <2>2, <2>3
    <2> QED
      BY <1>1, <2>2, <2>3, <2>4 DEF Distinct
  <1>12. Placed(s) = Placed(list)
    <2>1. ASSUME NEW x \in Placed(s) PROVE x \in Placed(list)
      <3>1. PICK i \in 1..n : x = s[i].place
        BY <1>8 DEF Placed
      <3>2. PICK j \in 1..n : s[i] = list[j]
        BY <1>9
      <3> QED
        BY <1>1, <3>1, <3>2 DEF Placed
    <2>2. ASSUME NEW x \in Placed(list) PROVE x \in Placed(s)
      <3>1. PICK j \in 1..n : x = list[j].place
        BY <1>1 DEF Placed
      <3>2. PICK i \in 1..n : list[j] = s[i]
        BY <1>10
      <3> QED
        BY <1>8, <3>1, <3>2 DEF Placed
    <2> QED
      BY <2>1, <2>2
  <1> QED
    BY <1>1, <1>7, <1>8, <1>9, <1>10, <1>11, <1>12

LEMMA TruncateOutKeeps ==
  ASSUME IInv, TruncateOut
  PROVE  IInv'
  <1>1. pc = "load" /\ queue = {} /\ UNCHANGED <<checkout, logo, before, runs, missed>>
    BY DEF TruncateOut
  <1>2. manifest' = manifest /\ Places' = Places /\ Entry' = Entry
    BY <1>1 DEF Entry, Places, manifest
  <1>3. CASE IOFails
    BY <1>1, <1>3, IOFailsKeeps
  <1>4. CASE /\ out' = Cut /\ pc' = "write"
             /\ \E s \in Sortings : loaded' = s
             /\ UNCHANGED <<queue, image, result, ioFailed>>
    <2> USE DEF IInv, missed
    <2>1. /\ loaded' \in [DOMAIN loaded -> ToSet(loaded)] /\ ToSet(loaded') = ToSet(loaded)
          /\ Ordered(loaded')
      BY <1>4 DEF Sortings, Ordered
    <2>2. /\ loaded' \in Seq(Entry) /\ DOMAIN loaded' = DOMAIN loaded
          /\ Distinct(loaded') /\ Placed(loaded') = Placed(loaded)
          /\ \A i \in DOMAIN loaded' : \E j \in DOMAIN loaded : loaded'[i] = loaded[j]
      BY <2>1, SortedList DEF TypeOK, Catalog
    <2>3. TypeOK'
      BY <1>1, <1>2, <1>4, <2>2 DEF TypeOK
    <2>4. Catalog(loaded)'
      <3>1. \A i \in DOMAIN loaded' : Whole(loaded'[i])
        BY <2>2 DEF Catalog
      <3>2. \A e : Whole(e) => Whole(e)'
        BY <1>2 DEF Whole
      <3> QED
        BY <1>2, <2>2, <3>1 DEF Catalog, Distinct, Whole
    <2>5. RunInv'
      <3>1. Seen' = Seen
        BY <1>1, <1>2, <1>4 DEF Seen, Discovered
      <3>2. Shown(loaded)'
        BY <1>1, <2>2 DEF RunInv, Shown
      <3>3. Placed(loaded)' = Placed(loaded)
        BY <2>2 DEF Placed
      <3> QED
        BY <1>1, <1>4, <3>1, <3>2, <3>3 DEF RunInv
    <2>6. StepInv'
      BY <1>4 DEF StepInv
    <2>7. LogoInv'
      BY <1>1, <1>2 DEF LogoInv, Oversized
    <2>8. OutInv'
      <3>1. result' # "ok" /\ ~Written'
        BY <1>1, <1>4, CheckoutAssumption DEF RunInv, Written
      <3>2. Ordered(loaded)'
        BY <2>1 DEF Ordered
      <3> QED
        BY <1>1, <1>4, <3>1, <3>2 DEF OutInv
    <2>9. RefusalHasReason' /\ MissInv'
      BY <1>1, <1>4, CheckoutAssumption DEF RefusalHasReason, RunInv, MissInv
    <2> QED
      BY <2>3, <2>4, <2>5, <2>6, <2>7, <2>8, <2>9
  <1> QED
    BY <1>3, <1>4 DEF TruncateOut

LEMMA WriteOutKeeps ==
  ASSUME IInv, WriteOut
  PROVE  IInv'
  <1>1. pc = "write" /\ UNCHANGED <<checkout, logo, before, runs, missed>>
    BY DEF WriteOut
  <1>2. manifest' = manifest /\ Places' = Places /\ Entry' = Entry
    BY <1>1 DEF Entry, Places, manifest
  <1>3. CASE IOFails
    BY <1>1, <1>3, IOFailsKeeps
  <1>4. CASE /\ out' = loaded /\ pc' = "idle" /\ result' = "ok"
             /\ UNCHANGED <<run, ioFailed>>
    <2> USE DEF IInv, run, missed
    <2>1. TypeOK'
      BY <1>1, <1>2, <1>4 DEF TypeOK
    <2>2. Catalog(loaded)' /\ Catalog(out)'
      BY <1>2, <1>4 DEF Catalog, Distinct, Whole
    <2>3. RunInv' /\ StepInv'
      BY <1>4 DEF RunInv, StepInv
    <2>4. LogoInv'
      BY <1>1, <1>2 DEF LogoInv, Oversized
    <2>5. Ordered(out)' /\ Shown(out)'
      BY <1>1, <1>4 DEF OutInv, RunInv, Ordered, Shown
    <2>6. Placed(out)' = Seen'
      <3>1. Seen' = Seen
        BY <1>1, <1>2, <1>4 DEF Seen, Discovered
      <3>2. Placed(loaded) = Seen
        BY <1>1 DEF RunInv, OutInv
      <3> QED
        BY <1>4, <3>1, <3>2 DEF Placed
    <2>7. OutInv'
      BY <1>4, <2>2, <2>5, <2>6 DEF OutInv
    <2>8. RefusalHasReason' /\ MissInv'
      BY <1>1, <1>4 DEF RefusalHasReason, MissInv
    <2> QED
      BY <2>1, <2>2, <2>3, <2>4, <2>7, <2>8
  <1> QED
    BY <1>3, <1>4 DEF WriteOut

LEMMA KillKeeps ==
  ASSUME IInv, Kill
  PROVE  IInv'
  <1>1. /\ pc # "idle" /\ pc' = "idle" /\ result' = "killed"
        /\ UNCHANGED <<checkout, logo, out, before, run, missed, ioFailed, runs>>
    BY DEF Kill
  <1>2. LogoInv'
    BY <1>1 DEF IInv, LogoInv, Oversized, Places, manifest
  <1>3. RefusalHasReason'
    BY <1>1 DEF RefusalHasReason
  <1>4. /\ ioFailed' \in BOOLEAN /\ logo' \in [Places -> {None, Cut, NotAnImage} \cup Image]
        /\ unshown' \subseteq Places /\ UNCHANGED <<unlisted, unseen, ioFailed>>
    BY <1>1 DEF IInv, TypeOK, missed
  <1> QED
    BY <1>1, <1>2, <1>3, <1>4, EndKeeps

-----------------------------------------------------------------------------
(* What is done to a logo between two runs.                                *)

LEMMA LogoChangeKeeps ==
  ASSUME IInv, NEW p \in Places, pc = "idle", NEW icon,
         icon \in {checkout.logo[p], Squared, Cut}, logo' = [logo EXCEPT ![p] = icon],
         result' = None, UNCHANGED <<checkout, out, before, pc, run, missed, ioFailed, runs>>
  PROVE  IInv'
  <1> USE DEF IInv, run, missed
  <1>1. manifest' = manifest /\ Places' = Places /\ Entry' = Entry
    BY DEF Entry, Places, manifest
  <1>2. /\ logo' \in [Places -> {None, Cut, NotAnImage} \cup Image]
        /\ logo'[p] = icon /\ \A q \in Places \ {p} : logo'[q] = logo[q]
    BY LogoTypes, SquaredFits
  <1>3. TypeOK'
    BY <1>1, <1>2 DEF TypeOK
  <1>4. Catalog(loaded)'
    BY <1>1 DEF Catalog, Distinct, Whole
  <1>5. RunInv' /\ StepInv'
    BY DEF RunInv, StepInv
  <1>6. LogoInv'
    BY <1>1, <1>2 DEF LogoInv, Oversized
  <1>7. OutInv'
    <2>1. Written' => (Catalog(out) /\ Ordered(out))'
      BY <1>1 DEF OutInv, Written, Catalog, Distinct, Whole, Ordered
    <2> QED
      BY <2>1, CheckoutAssumption DEF OutInv
  <1>8. RefusalHasReason' /\ MissInv'
    BY CheckoutAssumption DEF RefusalHasReason, MissInv
  <1> QED
    BY <1>3, <1>4, <1>5, <1>6, <1>7, <1>8

LEMMA StutterKeeps ==
  ASSUME IInv, UNCHANGED vars
  PROVE  IInv'
  <1> USE DEF IInv, vars, run, missed
  <1>1. manifest' = manifest /\ Places' = Places /\ Entry' = Entry
    BY DEF Entry, Places, manifest
  <1>2. Seen' = Seen
    BY <1>1 DEF Seen, Discovered
  <1>3. TypeOK'
    BY <1>1 DEF TypeOK
  <1>4. Catalog(loaded)'
    BY <1>1 DEF Catalog, Distinct, Whole
  <1>5. RunInv'
    BY <1>2 DEF RunInv, Placed, Shown
  <1>6. StepInv'
    BY <1>1 DEF StepInv, First, Oversized
  <1>7. LogoInv'
    BY <1>1 DEF LogoInv, Oversized
  <1>8. OutInv'
    <2>1. Written' => (Catalog(out) /\ Ordered(out))'
      BY <1>1 DEF OutInv, Written, Catalog, Distinct, Whole, Ordered
    <2>2. (pc = "write" => out = Cut /\ queue = {} /\ Ordered(loaded))'
      BY DEF OutInv, Ordered
    <2>3. (result = "ok" => Placed(out) = Seen /\ Shown(out))'
      BY <1>2 DEF OutInv, Placed, Shown
    <2> QED
      BY <2>1, <2>2, <2>3 DEF OutInv
  <1>9. RefusalHasReason' /\ MissInv'
    <2>1. Connectors' = Connectors
      BY <1>1 DEF Connectors, Discovered
    <2> QED
      BY <1>1, <2>1 DEF RefusalHasReason, MissInv
  <1> QED
    BY <1>3, <1>4, <1>5, <1>6, <1>7, <1>8, <1>9

LEMMA NextKeeps == IInv /\ [Next]_vars => IInv'
  <1> SUFFICES ASSUME IInv, [Next]_vars PROVE IInv'
    OBVIOUS
  <1>1. CASE Run
    BY <1>1, DiscoverKeeps, LoadManifestKeeps, LoadLogoKeeps, RewriteLogoKeeps,
       TruncateOutKeeps, WriteOutKeeps DEF Run
  <1>2. CASE Kill
    BY <1>2, KillKeeps
  <1>3. ASSUME NEW p \in Places, Restore(p) PROVE IInv'
    BY <1>3, LogoChangeKeeps DEF Restore
  <1>4. ASSUME NEW p \in Places, SquareLogo(p) PROVE IInv'
    <2>1. PICK after \in {Squared, Cut} : logo' = [logo EXCEPT ![p] = after]
      BY <1>4 DEF SquareLogo
    <2> QED
      BY <1>4, <2>1, LogoChangeKeeps DEF SquareLogo
  <1>5. CASE UNCHANGED vars
    BY <1>5, StutterKeeps
  <1> QED
    BY <1>1, <1>2, <1>3, <1>4, <1>5 DEF Next, Enough

-----------------------------------------------------------------------------
(* The invariant of any number of runs on one checkout, from which the     *)
(* theorems below follow.                                                  *)
THEOREM RunsKeepIInv == Spec => []IInv
  BY InitInv, NextKeeps, PTL DEF Spec

(* The state of the runs and of the checkout keeps its types.              *)
THEOREM TypeCorrect == Spec => []TypeOK
  <1>1. IInv => TypeOK
    BY DEF IInv
  <1> QED
    BY <1>1, RunsKeepIInv, PTL

(* manifest.json, unless it is cut short, lists sound connectors, no slug  *)
(* twice and in order; a run that ends well has put in all connectors and  *)
(* no others but for lookups that failed, which fileExists and             *)
(* discoverManifests pass over, and one that fails before it writes leaves *)
(* the catalog before it.                                                  *)
THEOREM CatalogsAreSound == Spec => []CatalogIsSound
  <1>1. IInv => CatalogIsSound
    <2> SUFFICES ASSUME IInv PROVE CatalogIsSound
      OBVIOUS
    <2>1. ASSUME Written
          PROVE  /\ \A i \in DOMAIN out : /\ Sound(manifest[out[i].place])
                                         /\ ToSet(out[i].tiers) \subseteq {"free", "paid"}
                 /\ \A i, j \in DOMAIN out :
                        i < j => out[i].slug # out[j].slug /\ out[i].name <= out[j].name
      <3>1. Catalog(out) /\ Ordered(out) /\ out \in Seq(Entry)
        BY <2>1 DEF IInv, OutInv, TypeOK, Written
      <3>2. DOMAIN out = 1..Len(out) /\ Len(out) \in Nat /\ \A i \in DOMAIN out : out[i] \in Entry
        BY <3>1, LenProperties, ElementOfSeq
      <3>3. \A i \in DOMAIN out : manifest[out[i].place] \in Manifest
        BY <3>2, LogoTypes DEF Entry
      <3>4. \A i \in DOMAIN out : /\ Sound(manifest[out[i].place])
                                 /\ ToSet(out[i].tiers) \subseteq {"free", "paid"}
        BY <3>1, <3>3, ValidateIsExact DEF Catalog, Whole, Accepted
      <3>5. \A i, j \in DOMAIN out : i < j => i # j
        BY <3>2
      <3> QED
        BY <3>1, <3>4, <3>5 DEF Catalog, Distinct, Ordered
    <2>2. /\ result = "ok" => Listed = Seen
          /\ pc \in {"load", "logo", "rewrite"} => out = before
      BY DEF IInv, OutInv, Placed, Listed
    <2>3. ASSUME NEW p \in Connectors \ Seen
          PROVE  p \in unseen \/ (p[2] # 0 /\ p[1] \in unlisted)
      BY DEF Seen, Connectors, Discovered
    <2>4. ASSUME NEW p \in Seen \ Connectors
          PROVE  {Root, <<p[1], 0>>} \cap unseen # {}
      BY DEF Seen, Connectors, Discovered
    <2> QED
      BY <2>1, <2>2, <2>3, <2>4 DEF CatalogIsSound
  <1> QED
    BY <1>1, RunsKeepIInv, PTL

(* A run on which no file operation failed refuses a checkout only for an  *)
(* unsound manifest, a slug used twice, a logo that is no image, or because*)
(* there is no manifest.                                                   *)
THEOREM RefusalsHaveReasons == Spec => []RefusalHasReason
  <1>1. IInv => RefusalHasReason
    BY DEF IInv
  <1> QED
    BY <1>1, RunsKeepIInv, PTL

(* After a run that ended well the icons are the logo files, but for those *)
(* it could not see, within the budget and not empty; and whatever run was *)
(* cut short, a logo is the                                                *)
(* committed one, what square-logo made, the resized one in the shape of   *)
(* the committed one, or cut.                                              *)
THEOREM LogosAreKept == Spec => []LogosAgree
  <1>1. IInv => LogosAgree
    <2> SUFFICES ASSUME IInv PROVE LogosAgree
      OBVIOUS
    <2>1. result = "ok" => \A i \in DOMAIN out :
             \/ out[i].icon = logo[out[i].place]
             \/ out[i].icon = None /\ out[i].place \in unshown
      BY DEF IInv, OutInv, Shown
    <2>2. ASSUME Written, NEW i \in DOMAIN out, out[i].icon # None
          PROVE  out[i].icon.w \in 1..MaxLogo /\ out[i].icon.h \in 1..MaxLogo
      <3>1. Catalog(out) /\ out \in Seq(Entry)
        BY <2>2 DEF IInv, OutInv, TypeOK, Written
      <3>2. out[i] \in Entry
        BY <3>1, <2>2, LenProperties, ElementOfSeq
      <3>3. out[i].icon \in Image /\ Fits(out[i].icon)
        BY <2>2, <3>1, <3>2 DEF Entry, Catalog, Whole
      <3> QED
        BY <3>3, CheckoutAssumption DEF Image, Fits
    <2>3. ASSUME NEW p \in Places, logo[p] \notin {checkout.logo[p], Squared, Cut}
          PROVE  LET old == checkout.logo[p]
                     new == logo[p]
                 IN  /\ MaxLogo \in {new.w, new.h} /\ ~Fits(old)
                     /\ new.h > 1 => new.h * old.w < new.w * old.h + old.h
                     /\ new.w > 1 => new.w * old.h < new.h * old.w + old.w
      <3>1. /\ checkout.logo[p] \in Image /\ ~Fits(checkout.logo[p])
            /\ logo[p] = Resized(checkout.logo[p])
        BY <2>3 DEF IInv, LogoInv, Oversized
      <3> QED
        BY <3>1, ResizedFits
    <2> QED
      BY <2>1, <2>2, <2>3 DEF LogosAgree
  <1> QED
    BY <1>1, RunsKeepIInv, PTL

(* loadLogo overwrites the logos that were committed over the budget, and  *)
(* no other file: one that fits stays as it is, and so does what           *)
(* square-logo or an earlier run, killed or not, has made of one.          *)
THEOREM OtherLogosStay == Spec => OnlyOversizedLogosChange
  <1>1. ASSUME IInv, [Next]_vars, pc # "idle", NEW q \in Places, logo'[q] # logo[q]
        PROVE  /\ checkout.logo[q] \in Image /\ ~Fits(checkout.logo[q])
               /\ logo[q] = IF pc = "rewrite" THEN Cut ELSE checkout.logo[q]
    <2>1. pc \in {"load", "logo", "rewrite", "write"}
      BY <1>1 DEF IInv, TypeOK
    <2>2. LoadLogo \/ RewriteLogo
      BY <1>1 DEF Next, Run, Discover, LoadManifest, TruncateOut, WriteOut, Kill, Enough, Restore,
                  SquareLogo, vars
    <2>3. CASE LoadLogo
      <3>1. PICK p \in queue : /\ First(p) /\ logo[p] \notin {Cut, NotAnImage} /\ ~Fits(logo[p])
                               /\ logo' = [logo EXCEPT ![p] = Cut]
        BY <1>1, <2>3 DEF LoadLogo
      <3>2. pc = "logo" /\ p = q
        BY <1>1, <2>3, <3>1, LogoTypes DEF LoadLogo
      <3>3. logo[q] # None /\ logo[q] \in {None, Cut, NotAnImage} \cup Image
        BY <1>1, <3>1, <3>2, LogoTypes DEF IInv, StepInv
      <3> QED
        BY <1>1, <3>1, <3>2, <3>3, OversizedIsCommitted DEF Oversized
    <2>4. CASE RewriteLogo
      <3>1. PICK p \in queue : First(p) /\ logo' = [logo EXCEPT ![p] = image]
        BY <1>1, <2>4 DEF RewriteLogo
      <3>2. pc = "rewrite" /\ p = q
        BY <1>1, <2>4, <3>1, LogoTypes DEF RewriteLogo
      <3> QED
        BY <1>1, <3>1, <3>2 DEF IInv, StepInv, Oversized
    <2> QED
      BY <2>2, <2>3, <2>4
  <1>2. IInv /\ [Next]_vars =>
            [pc # "idle" => \A p \in Places : logo'[p] # logo[p] =>
                 /\ checkout.logo[p] \in Image /\ ~Fits(checkout.logo[p])
                 /\ logo[p] = IF pc = "rewrite" THEN Cut ELSE checkout.logo[p]]_vars
    BY <1>1
  <1> QED
    BY <1>2, RunsKeepIInv, PTL DEF Spec, OnlyOversizedLogosChange
=============================================================================
