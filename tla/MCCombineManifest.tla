------------------------- MODULE MCCombineManifest -------------------------
(* Checkouts for TLC: single manifests whose capabilities are drawn from   *)
(* lists of good and bad values, single manifests with a logo of any size, *)
(* and trees of several manifests.                                         *)
EXTENDS CombineManifest

HostScan == [name |-> "ports_scanner", targetTypes |-> <<"domain">>,
             inputs |-> <<"host">>, produces |-> Null]
Plain(word) == [word |-> word, spelling |-> "plain"]
Fancy(word) == [word |-> word, spelling |-> "other"]
Good == [lacks |-> {}, slug |-> "a", name |-> 1, caps |-> <<HostScan>>,
         tiers |-> <<Plain("free")>>, odd |-> {}]

Capabilities ==
    [name : {"sca", "bogus"},
     targetTypes : {<<>>} \cup {<<t>> : t \in {"ip", "git_org", "bogus"}}
                   \cup {<<"ip", "git_org">>, <<"ip", "ip">>, <<"domain", "ip">>},
     inputs : {<<>>} \cup {<<k>> : k \in {"host", "repository", "bogus"}}
              \cup {<<"host", "repository">>, <<"host", "host">>, <<"web", "host">>},
     produces : {Absent, Null, <<>>, <<"url">>, <<"url", "url">>, <<"repository">>}]

Pairs == {<<[HostScan EXCEPT !.name = n], [HostScan EXCEPT !.name = k]>> :
              n, k \in {"sca", "secrets", "subdomains"}}

Manifests ==
    {[Good EXCEPT !.caps = <<c>>] : c \in Capabilities}
    \cup {[Good EXCEPT !.caps = caps] : caps \in Pairs \cup {<<>>}}
    \cup {[Good EXCEPT !.tiers = tiers] :
              tiers \in {<<>>, <<Fancy("free"), Plain("paid")>>, <<Fancy("paid")>>,
                        <<Plain("free"), Fancy("gold")>>}}
    \cup {[Good EXCEPT !.lacks = {"version"}], [Good EXCEPT !.odd = {"homepage"}],
          [Good EXCEPT !.slug = "B d"]}

Of(manifests, logos) == [manifest |-> manifests, logo |-> logos]
Single == {<<1, 1>>}

Pixels(w, h) == [w |-> w, h |-> h, by |-> "author"]
Icons == {Pixels(w, h) : w \in {1, 2, 3, 4, 7, 9, 16}, h \in {1, 2, 3, 4, 7, 9, 16}}
         \cup {NotAnImage}

Named(slug, name) == [Good EXCEPT !.slug = slug, !.name = name]
Wide == Pixels(9, 2)
Small == Pixels(3, 3)

(* Two categories, one of them with two connectors; with a manifest in the *)
(* category, in the root or in a directory to be skipped.                  *)
Tree(extra, slug, name) ==
    LET places == {<<1, 1>>, <<1, 2>>, <<2, 1>>} \cup extra
    IN  Of([p \in places |-> IF p = <<1, 1>> THEN Named("a", 2)
                             ELSE IF p = <<1, 2>> THEN Named(slug, name) ELSE Named("c", 1)],
          [p \in places |-> IF p = <<1, 1>> THEN Wide
                             ELSE IF p = <<1, 2>> THEN None ELSE Small])

MCCheckouts ==
    {Of([p \in Single |-> m], [p \in Single |-> None]) : m \in Manifests}
    \cup {Of([p \in Single |-> Good], [p \in Single |-> i]) : i \in Icons}
    \cup {Tree({}, slug, name) : slug \in {"a", "b"}, name \in {1, 2}}
    \cup {Tree({p}, "b", 1) : p \in {Root, <<2, 0>>, <<3, 1>>}}
    \cup {Of([p \in {<<3, 1>>} |-> Good], [p \in {<<3, 1>>} |-> None])}
=============================================================================
