--------------------------- MODULE CombineManifest ---------------------------
(***************************************************************************)
(* scripts/combine-manifest, run again and again on one checkout: discover *)
(* the connectors' manifests, load and validate each, bring its logo into  *)
(* the size budget, rewriting the file, and write manifest.json.  Any file *)
(* operation may fail: a file or a category that cannot be looked at is    *)
(* taken for one that is not there, every other failure ends the run.  A   *)
(* file is truncated before it is written, and a run may be killed at any  *)
(* step.  Between two runs somebody may restore a file from git or run     *)
(* scripts/square-logo on a logo.                                          *)
(*                                                                         *)
(* A place <<t, s>> is connector s of category t; <<t, 0>> is a manifest in*)
(* the category directory itself, and Root one in the root.                *)
(***************************************************************************)
EXTENDS Naturals, Sequences, FiniteSets, SequencesExt

CONSTANTS
    Checkouts,   \* [manifest, logo]: functions on the places with a manifest
    SkipDirs,    \* top directories that hold no connectors
    BadSlugs,    \* slugs that do not match nameRe
    MaxLogo,     \* maxLogoSize (128), which is square-logo's size as well
    MaxRuns,     \* bound: runs on the checkout
    MaxMissed,   \* bound: lookups that fail while a run discovers
    None,
    Cut,         \* a file truncated and not written, or not to its end
    NotAnImage,  \* a logo nobody can decode
    Absent, Null \* "produces": no such key, and a key without a value

Root == <<0, 0>>

(* What the decoders make of any manifest.yaml and any logo.png.  A key    *)
(* without a value and one that is not there are told apart for "produces".*)
(* A pricing tier is a word in small letters and how it is spelled: plain, *)
(* or with capitals and blanks around it.                                  *)
Spelled == [word : STRING, spelling : {"plain", "other"}]
Capability == [name : STRING, targetTypes : Seq(STRING), inputs : Seq(STRING),
               produces : {Absent, Null} \cup Seq(STRING)]
Manifest == [lacks : SUBSET STRING, odd : SUBSET STRING, slug : STRING, name : Nat,
             caps : Seq(Capability), tiers : Seq(Spelled)]
Image == [w : Nat \ {0}, h : Nat \ {0}, by : {"author", "combine", "square"}]

ASSUME CheckoutAssumption ==
    /\ MaxLogo \in Nat \ {0} /\ MaxRuns \in Nat /\ MaxMissed \in Nat
    /\ \A c \in Checkouts :
           /\ DOMAIN c.logo \subseteq Nat \X Nat
           /\ c.manifest \in [DOMAIN c.logo -> Manifest]
           /\ c.logo \in [DOMAIN c.logo -> {None, NotAnImage} \cup Image]
    /\ Absent \notin {Null, <<>>} /\ None \notin {"ok", "error", "killed"}

VARIABLES
    checkout,   \* what is committed
    logo,       \* the logo files
    out,        \* manifest.json: None, Cut or a sequence of entries
    before,     \* history: out when the run began
    pc,         \* the run
    queue,      \* manifests it has found and not loaded yet
    image, loaded,
    unlisted,   \* history: categories the run could not list,
    unseen,     \* manifests it could not see
    unshown,    \* and logos it could not see
    ioFailed,   \* history: a file operation of the run failed
    result, runs

run == <<queue, image, loaded>>
missed == <<unlisted, unseen, unshown>>
vars == <<checkout, logo, out, before, pc, run, missed, ioFailed, result, runs>>

manifest == checkout.manifest
Places == DOMAIN manifest

Init ==
    /\ checkout \in Checkouts /\ logo = checkout.logo
    /\ out = None /\ before = None
    /\ pc = "idle" /\ queue = {} /\ image = None /\ loaded = <<>>
    /\ unlisted = {} /\ unseen = {} /\ unshown = {}
    /\ ioFailed = FALSE /\ result = None /\ runs = 0

-----------------------------------------------------------------------------
(* validate.                                                               *)

Category == [subdomains |-> "subdomains", http_probe |-> "http_probe",
             ports_scanner |-> "ports_scanner", vulnerabilities |-> "vulnerabilities",
             screenshot |-> "screenshot", url_discovery |-> "url_discovery",
             secrets |-> "vulnerabilities", sca |-> "vulnerabilities",
             sast |-> "vulnerabilities"]
TargetTypes == {"domain", "ip", "cidr", "git_org"}
Inputs == {"target", "host", "service", "web", "url", "repository"}
Kinds == {"host", "service", "web", "url", "vulnerability"}

(* validateList and validateTargetTypes: choices from a list, none twice.  *)
ValidList(values, allowed) == ToSet(values) \subseteq allowed /\ IsInjective(values)

(* A key that is present without a value decodes to an empty list.         *)
Decoded_AsIs(produces) == IF produces = Null THEN Absent ELSE produces
Decoded(produces) == IF produces = Null THEN <<>> ELSE produces

ValidKinds(c) ==
    /\ c.inputs # <<>> /\ ValidList(c.inputs, Inputs)
    /\ Decoded(c.produces) # Absent /\ ValidList(Decoded(c.produces), Kinds)
    /\ LET scansRepos == "git_org" \in ToSet(c.targetTypes)
           scansHosts == ToSet(c.targetTypes) \ {"git_org"} # {}
       IN  \A kind \in ToSet(c.inputs) :
               IF kind = "repository" THEN scansRepos ELSE scansHosts

Clash(c, d) == Category[c.name] = Category[d.name]

ValidCapabilities(caps) ==
    /\ caps # <<>>
    /\ \A i \in DOMAIN caps :
           /\ caps[i].name \in DOMAIN Category
           /\ \A j \in 1..(i - 1) : ~Clash(caps[j], caps[i])
           /\ caps[i].targetTypes # <<>> /\ ValidList(caps[i].targetTypes, TargetTypes)
           /\ ValidKinds(caps[i])

(* In small letters and without the blanks around it.                      *)
Tier(t) == t.word
Tiers(m) == [i \in DOMAIN m.tiers |-> Tier(m.tiers[i])]

(* lacks: required fields that are empty; odd: optional ones that are blank*)
(* and keys the manifest does not have, be it at the top or in a capability*)
Accepted(m) ==
    /\ m.lacks = {} /\ m.slug \notin BadSlugs /\ m.odd = {}
    /\ ValidCapabilities(m.caps)
    /\ m.tiers # <<>> /\ ToSet(Tiers(m)) \subseteq {"free", "paid"}

-----------------------------------------------------------------------------
(* loadLogo.                                                               *)

Fits(img) == img.w <= MaxLogo /\ img.h <= MaxLogo

AtLeastOne_Not(n) == n
AtLeastOne(n) == IF n > 1 THEN n ELSE 1

Scaled(img) == IF img.w >= img.h
               THEN [w |-> MaxLogo, h |-> AtLeastOne((img.h * MaxLogo) \div img.w)]
               ELSE [w |-> AtLeastOne((img.w * MaxLogo) \div img.h), h |-> MaxLogo]
Resized(img) == [w |-> Scaled(img).w, h |-> Scaled(img).h, by |-> "combine"]

(* square-logo: on a square canvas.                                        *)
Squared == [w |-> MaxLogo, h |-> MaxLogo, by |-> "square"]

-----------------------------------------------------------------------------
Fail == pc' = "idle" /\ result' = "error" /\ UNCHANGED <<run, out>>
IOFails == Fail /\ ioFailed' = TRUE

(* discoverManifests: a category that cannot be listed is passed over, and *)
(* to fileExists a manifest that cannot be seen is not there.              *)
Discovered(cats, files) ==
    LET seen == Places \ files
    IN  IF Root \in seen THEN {Root}
        ELSE {p \in seen : /\ p[1] \notin SkipDirs
                           /\ p[2] = 0 \/ (p[1] \notin cats /\ <<p[1], 0>> \notin seen)}

Before(p, q) == p[1] < q[1] \/ (p[1] = q[1] /\ p[2] < q[2])

Discover ==
    /\ pc = "idle" /\ runs < MaxRuns
    /\ runs' = runs + 1 /\ before' = out
    /\ \E cats \in SUBSET {p[1] : p \in Places}, files \in SUBSET Places :
           /\ Cardinality(cats) + Cardinality(files) <= MaxMissed
           /\ unlisted' = cats /\ unseen' = files
           /\ \/ /\ queue' = Discovered(cats, files)
                 /\ ioFailed' = (cats # {} \/ files # {})
              \/ /\ Root \notin Places \ files   \* the root cannot be listed
                 /\ queue' = {} /\ ioFailed' = TRUE
    /\ IF queue' = {} THEN pc' = "idle" /\ result' = "error"
                      ELSE pc' = "load" /\ result' = None
    /\ loaded' = <<>> /\ image' = None /\ unshown' = {}
    /\ UNCHANGED <<checkout, logo, out>>

(* Directories are read in order.                                          *)
First(p) == p \in queue /\ \A q \in queue \ {p} : Before(p, q)

Slugs == {loaded[i].slug : i \in DOMAIN loaded}

(* The connector is added, unless its slug is taken.                       *)
Add_Anyway(p, icon) ==
    /\ loaded' = Append(loaded, [place |-> p, slug |-> manifest[p].slug,
                                 name |-> manifest[p].name, tiers |-> Tiers(manifest[p]),
                                 icon |-> icon])
    /\ queue' = queue \ {p} /\ pc' = "load" /\ image' = None
    /\ UNCHANGED <<out, result>>
Add(p, icon) ==
    IF manifest[p].slug \in Slugs THEN Fail ELSE Add_Anyway(p, icon)

(* A logo that cannot be seen is none.                                     *)
LoadManifest ==
    /\ pc = "load"
    /\ \E p \in queue :
           /\ First(p)
           /\ \/ IOFails /\ UNCHANGED unshown
              \/ ~Accepted(manifest[p]) /\ Fail /\ UNCHANGED <<ioFailed, unshown>>
              \/ /\ Accepted(manifest[p]) /\ logo[p] = None
                 /\ Add(p, None) /\ UNCHANGED <<ioFailed, unshown>>
              \/ /\ Accepted(manifest[p]) /\ logo[p] # None
                 /\ pc' = "logo" /\ UNCHANGED <<run, out, result, ioFailed, unshown>>
              \/ /\ Accepted(manifest[p]) /\ logo[p] # None
                 /\ Add(p, None) /\ ioFailed' = TRUE /\ unshown' = unshown \cup {p}
    /\ UNCHANGED <<checkout, logo, before, runs, unlisted, unseen>>

(* An oversized logo is rewritten: the file is truncated first.            *)
LoadLogo ==
    /\ pc = "logo"
    /\ \E p \in queue :
           /\ First(p)
           /\ \/ IOFails /\ UNCHANGED logo
              \/ logo[p] \in {Cut, NotAnImage} /\ Fail /\ UNCHANGED <<logo, ioFailed>>
              \/ /\ logo[p] \notin {Cut, NotAnImage} /\ Fits(logo[p])
                 /\ Add(p, logo[p])
                 /\ UNCHANGED <<logo, ioFailed>>
              \/ /\ logo[p] \notin {Cut, NotAnImage} /\ ~Fits(logo[p])
                 /\ image' = Resized(logo[p])
                 /\ logo' = [logo EXCEPT ![p] = Cut]
                 /\ pc' = "rewrite"
                 /\ UNCHANGED <<queue, loaded, out, result, ioFailed>>
    /\ UNCHANGED <<checkout, before, runs, missed>>

RewriteLogo ==
    /\ pc = "rewrite"
    /\ \E p \in queue :
           /\ First(p)
           /\ \/ /\ logo' = [logo EXCEPT ![p] = image]
                 /\ Add(p, image) /\ UNCHANGED ioFailed
              \/ IOFails /\ UNCHANGED logo
    /\ UNCHANGED <<checkout, before, runs, missed>>

(* Connectors of one name may come in any order.                           *)
Sortings == {s \in [DOMAIN loaded -> ToSet(loaded)] :
                 /\ ToSet(s) = ToSet(loaded)
                 /\ \A i, j \in DOMAIN s : i < j => s[i].name <= s[j].name}

TruncateOut ==
    /\ pc = "load" /\ queue = {}
    /\ \/ IOFails
       \/ /\ out' = Cut /\ pc' = "write"
          /\ \E s \in Sortings : loaded' = s
          /\ UNCHANGED <<queue, image, result, ioFailed>>
    /\ UNCHANGED <<checkout, logo, before, runs, missed>>

WriteOut ==
    /\ pc = "write"
    /\ \/ /\ out' = loaded /\ pc' = "idle" /\ result' = "ok"
          /\ UNCHANGED <<run, ioFailed>>
       \/ IOFails
    /\ UNCHANGED <<checkout, logo, before, runs, missed>>

Kill ==
    /\ pc # "idle"
    /\ pc' = "idle" /\ result' = "killed"
    /\ UNCHANGED <<checkout, logo, out, before, run, missed, ioFailed, runs>>

(* Between two runs.                                                       *)
Restore(p) ==
    /\ pc = "idle" /\ logo[p] # checkout.logo[p]
    /\ logo' = [logo EXCEPT ![p] = checkout.logo[p]] /\ result' = None
    /\ UNCHANGED <<checkout, out, before, pc, run, missed, ioFailed, runs>>

SquareLogo(p) ==
    /\ pc = "idle" /\ logo[p] \notin {None, Cut, NotAnImage}
    /\ \E after \in {Squared, Cut} : logo' = [logo EXCEPT ![p] = after]
    /\ result' = None
    /\ UNCHANGED <<checkout, out, before, pc, run, missed, ioFailed, runs>>

-----------------------------------------------------------------------------
Run == Discover \/ LoadManifest \/ LoadLogo \/ RewriteLogo \/ TruncateOut \/ WriteOut
Enough == pc = "idle" /\ runs = MaxRuns /\ UNCHANGED vars

Next == Run \/ Kill \/ Enough \/ \E p \in Places : Restore(p) \/ SquareLogo(p)

Spec == Init /\ [][Next]_vars

-----------------------------------------------------------------------------
(* Properties.                                                             *)

Entry == [place : Places, slug : STRING, name : Nat, tiers : Seq(STRING),
          icon : {None} \cup Image]

TypeOK ==
    /\ checkout \in Checkouts
    /\ logo \in [Places -> {None, Cut, NotAnImage} \cup Image]
    /\ {out, before} \subseteq {None, Cut} \cup Seq(Entry)
    /\ pc \in {"idle", "load", "logo", "rewrite", "write"}
    /\ queue \subseteq Places /\ image \in {None} \cup Image
    /\ loaded \in Seq(Entry)
    /\ unlisted \subseteq {p[1] : p \in Places} /\ {unseen, unshown} \subseteq SUBSET Places
    /\ ioFailed \in BOOLEAN
    /\ result \in {None, "ok", "error", "killed"} /\ runs \in 0..MaxRuns

(* A connector that may be in the catalog: every capability can be told    *)
(* from the others by its category, and each of its inputs is something a  *)
(* target of its own types has: a git_org target repositories, and the     *)
(* others anything but these.                                              *)
Supplies(type) == IF type = "git_org" THEN {"repository"} ELSE Inputs \ {"repository"}
NoneTwice(list) == Cardinality(ToSet(list)) = Len(list)
SoundCapability(c) ==
    /\ c.inputs # <<>> /\ NoneTwice(c.inputs)
    /\ c.targetTypes # <<>> /\ NoneTwice(c.targetTypes)
    /\ ToSet(c.targetTypes) \subseteq TargetTypes
    /\ ToSet(c.inputs) \subseteq UNION {Supplies(t) : t \in ToSet(c.targetTypes)}
    /\ c.produces # Absent
    /\ c.produces # Null => NoneTwice(c.produces) /\ ToSet(c.produces) \subseteq Kinds
Sound(m) ==
    /\ m.lacks = {} /\ m.odd = {} /\ m.slug \notin BadSlugs /\ m.caps # <<>> /\ m.tiers # <<>>
    /\ {t.word : t \in ToSet(m.tiers)} \subseteq {"free", "paid"}
    /\ \A i \in DOMAIN m.caps : m.caps[i].name \in DOMAIN Category /\ SoundCapability(m.caps[i])
    /\ Cardinality({Category[m.caps[i].name] : i \in DOMAIN m.caps}) = Len(m.caps)

Written == out \notin {None, Cut}

(* The connectors of the checkout: one in the root, or those of every      *)
(* category, be it one or a directory of them.                             *)
Connectors == Discovered({}, {})
Listed == {out[i].place : i \in DOMAIN out}

(* manifest.json, when it is not cut short, is a catalog: sound connectors *)
(* with the platform's names of their tiers, no slug twice, sorted by name.*)
(* A run that ends well has all connectors in it and no others, but where  *)
(* it could not look: it misses the ones whose manifest it did not see or  *)
(* whose category it could not list, and has those that are none because of*)
(* a manifest above them only if it did not see that one.  And a run that  *)
(* fails before it writes leaves the catalog of the run before it.         *)
CatalogIsSound ==
    /\ Written =>
         /\ \A i \in DOMAIN out : /\ Sound(manifest[out[i].place])
                                 /\ ToSet(out[i].tiers) \subseteq {"free", "paid"}
         /\ \A i, j \in DOMAIN out :
                i < j => out[i].slug # out[j].slug /\ out[i].name <= out[j].name
    /\ result = "ok" =>
         /\ \A p \in Connectors \ Listed : p \in unseen \/ (p[2] # 0 /\ p[1] \in unlisted)
         /\ \A p \in Listed \ Connectors : {Root, <<p[1], 0>>} \cap unseen # {}
    /\ pc \in {"load", "logo", "rewrite"} => out = before

(* A run refuses a checkout for a reason: where no file operation failed,  *)
(* there is an unsound manifest, a slug that is used twice, a logo that is *)
(* no image, or no manifest at all.                                        *)
RefusalHasReason ==
    result = "error" /\ ~ioFailed =>
        \/ Connectors = {}
        \/ \E p \in Connectors : ~Sound(manifest[p]) \/ logo[p] \in {Cut, NotAnImage}
        \/ \E p, q \in Connectors : p # q /\ manifest[p].slug = manifest[q].slug

(* After a run that ended well the icons in the catalog are the logo files,*)
(* within the budget and not empty, so that the next run changes none; a   *)
(* connector that has a logo lacks its icon only if the run could not see  *)
(* the file.  A logo that was scaled keeps its shape, to the pixel, and no *)
(* run that was killed or failed leaves anything but the logo before it,   *)
(* the scaled one or a file that the next run refuses.                     *)
LogosAgree ==
    /\ result = "ok" => \A i \in DOMAIN out :
           \/ out[i].icon = logo[out[i].place]
           \/ out[i].icon = None /\ out[i].place \in unshown
    /\ Written => \A i \in DOMAIN out : out[i].icon # None =>
           out[i].icon.w \in 1..MaxLogo /\ out[i].icon.h \in 1..MaxLogo
    /\ \A p \in Places :
           \/ logo[p] \in {checkout.logo[p], Squared, Cut}
           \/ LET old == checkout.logo[p]
                  new == logo[p]
              IN  /\ MaxLogo \in {new.w, new.h} /\ ~Fits(old)
                  /\ new.h > 1 => new.h * old.w < new.w * old.h + old.h
                  /\ new.w > 1 => new.w * old.h < new.h * old.w + old.w

(* A run overwrites the committed logos that exceed the budget and nothing *)
(* else: not a logo that fits, nor what square-logo or an earlier run has  *)
(* made, be it whole or cut short.                                         *)
OnlyOversizedLogosChange ==
    [][pc # "idle" => \A p \in Places : logo'[p] # logo[p] =>
           /\ checkout.logo[p] \in Image /\ ~Fits(checkout.logo[p])
           /\ logo[p] = IF pc = "rewrite" THEN Cut ELSE checkout.logo[p]]_vars
=============================================================================
