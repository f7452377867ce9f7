---------------------------- MODULE MCPostRender ----------------------------
(***************************************************************************)
(* PostRender for TLC: every manifest with a few keys in any order, each a *)
(* stream of its own, and every stream of up to three of a few documents   *)
(* with empty and malformed ones between them.                             *)
(***************************************************************************)
EXTENDS PostRender

AnyWords == STRING

Doc(root) == Node("document", "", "", <<root>>)
Pair(key, value) == <<Str(key), value>>
OneField(key, value) == Mapping(Pair(key, value))

(* Up to two of the pairs, in either order.                                *)
Mappings(pairs) ==
    {Mapping(<<>>)} \cup {Mapping(p) : p \in pairs}
      \cup {Mapping(p \o q) : <<p, q>> \in {pq \in pairs \X pairs : pq[1][1] # pq[2][1]}}

Nils == {Null(""), Null("~"), Null("null")}

Alias == Node("alias", "", "*nothing", <<>>)

Specs ==
    {Nil, Null(""), Str("scalar")} \cup Mappings(
      {Pair("replicas", Str("1")), Pair("role", Str("replicas")),
       Pair("serviceName", Str("headless")), Pair("serviceName", Null("")),
       Pair("certSecretName", Null("~")),
       Pair("items", Node("sequence", "!!seq", "",
                          <<Str("x"), OneField("proxySecretName", Null("null"))>>)),
       Pair("template", OneField("serviceName", Alias))})

Metadata ==
    Mappings({Pair("name", Str("zot")), Pair("name", Str("other")),
              Pair("labels", OneField("name", Str("zot")))})

Key(key, value) == IF value = Nil THEN <<>> ELSE Pair(key, value)

StatefulSets ==
    {Doc(Mapping(Pair("kind", Str("StatefulSet")) \o Pair("metadata", m) \o Key("spec", s))) :
       m \in Metadata, s \in Specs}

Others ==
    {Doc(Mapping(Key("spec", s) \o Pair("kind", Str("Service"))
                   \o Pair("metadata", OneField("name", Str("zot"))))) : s \in Specs}
      \cup {Doc(OneField("stringData", OneField(key, v))) :
              key \in {"proxySecretName", "user"}, v \in Nils \cup {Str("set")}}
      \cup {Doc(n) : n \in {Null(""), Str("text"), Alias}}

Few ==
    {Nothing, Malformed, Doc(OneField("certSecretName", Null(""))),
     Doc(Mapping(Pair("kind", Str("StatefulSet"))
                   \o Pair("metadata", OneField("name", Str("zot")))
                   \o Pair("spec", OneField("replicas", Str("1")))))}

AllStreams ==
    {<<d>> : d \in StatefulSets \cup Others}
      \cup UNION {[1 .. n -> Few] : n \in 0 .. 3}
=============================================================================
