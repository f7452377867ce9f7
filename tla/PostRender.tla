----------------------------- MODULE PostRender -----------------------------
(***************************************************************************)
(* postrender.FixNilValues.Run, the filter Helm passes the rendered mural  *)
(* manifests through (internal/postrender).                                *)
(*                                                                         *)
(* A manifest is the tree yaml.v3 decodes it to: a node has a kind, a tag, *)
(* a value and a content; the content of a mapping alternates keys and     *)
(* values.  Documents are decoded and mended one by one, and encoded only  *)
(* when the whole stream has been read.                                    *)
(***************************************************************************)
EXTENDS Naturals, Sequences, FiniteSetsExt

CONSTANTS
    Streams,    \* streams of documents a chart renders
    Words,      \* what tags, keys and scalars may say
    Depth       \* how deep the nodes of a document are nested, at most

Node(kind, tag, value, content) ==
    [kind |-> kind, tag |-> tag, value |-> value, content |-> content]

Str(value)       == Node("scalar", "!!str", value, <<>>)
Null(value)      == Node("scalar", "!!null", value, <<>>)
Mapping(content) == Node("mapping", "!!map", "", content)
Nil              == Node("nil", "", "", <<>>)

(* What the decoder gives for a document: its node, a zero node where      *)
(* there is nothing, or an error.                                          *)
Nothing   == Node("zero", "", "", <<>>)
Malformed == Node("malformed", "", "", <<>>)

Kinds == {"document", "sequence", "mapping", "scalar", "alias"}

(* The content of a mapping pairs distinct scalar keys with values.        *)
Paired(content) ==
    /\ Len(content) % 2 = 0
    /\ \A i \in DOMAIN content : i % 2 = 1 =>
         /\ content[i].kind = "scalar"
         /\ \A j \in DOMAIN content :
              j % 2 = 1 /\ content[j].value = content[i].value => j = i

(* What YAML and Kubernetes ask of a node; only scalars are null.          *)
WellFormed(n) ==
    /\ n.kind \in {"scalar", "alias"} => n.content = <<>>
    /\ n.kind # "scalar" => n.tag # "!!null"
    /\ n.kind = "document" => Len(n.content) = 1
    /\ n.kind = "mapping" => Paired(n.content)

(* Nodes with others nested up to d deep in them.                          *)
Tree[d \in 0 .. Depth] ==
    {n \in [kind : Kinds, tag : Words, value : Words,
            content : Seq(IF d = 0 THEN {} ELSE Tree[d - 1])] : WellFormed(n)}

Trees == Tree[Depth]

Manifests == {n \in Trees : n.kind = "document"}

(* The fields of a spec are three deep in a manifest.                      *)
ASSUME PostRenderAssumption ==
    /\ Depth \in Nat /\ Depth >= 3
    /\ {"", "!!str", "serviceName", "zot"} \subseteq Words
    /\ Streams \subseteq Seq(Manifests \cup {Nothing, Malformed})

VARIABLES
    input,      \* the stream Run was given
    read,       \* how many documents it has decoded
    docs,       \* the mended documents
    out,        \* what Run returned
    verdict     \* "none" while it runs, "ok" or "error"

vars == <<input, read, docs, out, verdict>>

Init ==
    /\ input \in Streams
    /\ read = 0
    /\ docs = <<>>
    /\ out = <<>>
    /\ verdict = "none"

-----------------------------------------------------------------------------
(* The walks over a document                                               *)

emptyNilFields == {"certSecretName", "proxySecretName", "basicAuthSecretName"}

(* Mutant: only the bare `key:' form is null.                              *)
isNullBare(n) == n = Null("")

(* `key:', `~' and `null' differ in the value, not in the tag.             *)
isNull(n) == n.kind = "scalar" /\ n.tag = "!!null"

(* The value of one of these fields, at its place in the mapping n.        *)
IsField(n, i) ==
    n.kind = "mapping" /\ i % 2 = 0 /\ n.content[i - 1].value \in emptyNilFields

quoteEmptyNilFields[n \in Trees] ==
    CASE n.kind \in {"document", "sequence"} ->
           [n EXCEPT !.content = [i \in DOMAIN @ |-> quoteEmptyNilFields[@[i]]]]
      [] n.kind = "mapping" ->
           [n EXCEPT !.content = [i \in DOMAIN @ |->
              IF i % 2 = 1 THEN @[i]
              ELSE IF IsField(n, i) /\ isNull(@[i]) THEN Str("")
              ELSE quoteEmptyNilFields[@[i]]]]
      [] OTHER -> n

KeysAt(m, key) ==
    {i \in DOMAIN m.content : m.kind = "mapping" /\ i % 2 = 1 /\ m.content[i].value = key}

(* The value of the first such key; a node that is no mapping has none.    *)
mapValue(m, key) ==
    IF KeysAt(m, key) = {} THEN Nil ELSE m.content[Min(KeysAt(m, key)) + 1]

(* A zot StatefulSet with a spec that can take a serviceName.              *)
IsZot(root) ==
    /\ mapValue(root, "kind").value = "StatefulSet"
    /\ mapValue(mapValue(root, "metadata"), "name").value = "zot"
    /\ mapValue(root, "spec").kind = "mapping"

(* Mutant: a serviceName that is there already is not seen.                *)
LacksServiceNameAlways(root) == IsZot(root)

LacksServiceName(root) ==
    IsZot(root) /\ mapValue(mapValue(root, "spec"), "serviceName") = Nil

(* Mutant: the scan for replicas goes over the values too.                 *)
insertAtAny(spec) ==
    LET at == {i \in DOMAIN spec.content : spec.content[i].value = "replicas"} IN
    IF at = {} THEN Len(spec.content) + 1 ELSE Min(at)

(* Before replicas, or at the end.                                         *)
insertAt(spec) ==
    LET at == KeysAt(spec, "replicas") IN
    IF at = {} THEN Len(spec.content) + 1 ELSE Min(at)

merged(content, i) ==
    SubSeq(content, 1, i - 1) \o <<Str("serviceName"), Str("zot")>>
      \o SubSeq(content, i, Len(content))

injectZotServiceName(doc) ==
    LET root == doc.content[1]
        spec == Min(KeysAt(root, "spec")) + 1
    IN IF LacksServiceName(root)
       THEN [doc EXCEPT !.content[1].content[spec].content =
               merged(@, insertAt(root.content[spec]))]
       ELSE doc

-----------------------------------------------------------------------------
(* Run                                                                     *)

Running == verdict = "none"
doc     == input[read + 1]

(* Mutant: a zero node is taken for a document.                            *)
DecodeKeepsEmpty ==
    /\ Running /\ read < Len(input)
    /\ doc # Malformed
    /\ read' = read + 1
    /\ docs' = Append(docs, IF doc = Nothing THEN doc
                            ELSE injectZotServiceName(quoteEmptyNilFields[doc]))
    /\ UNCHANGED <<input, out, verdict>>

Decode ==
    /\ Running /\ read < Len(input)
    /\ doc # Malformed
    /\ read' = read + 1
    /\ docs' = IF doc = Nothing THEN docs
               ELSE Append(docs, injectZotServiceName(quoteEmptyNilFields[doc]))
    /\ UNCHANGED <<input, out, verdict>>

(* Mutant: the stream is taken to end where it no longer parses.           *)
DecodeFailsSilently ==
    /\ Running /\ read < Len(input)
    /\ doc = Malformed
    /\ verdict' = "ok"
    /\ out' = docs
    /\ UNCHANGED <<input, read, docs>>

(* A stream that does not parse is an error, whatever was read before.     *)
DecodeFails ==
    /\ Running /\ read < Len(input)
    /\ doc = Malformed
    /\ verdict' = "error"
    /\ UNCHANGED <<input, read, docs, out>>

(* Nothing in, nothing out; else the encoder's errors are Run's.           *)
Encode ==
    /\ Running /\ read = Len(input)
    /\ \/ verdict' = "ok" /\ out' = docs
       \/ docs # <<>> /\ verdict' = "error" /\ UNCHANGED out
    /\ UNCHANGED <<input, read, docs>>

Next == Decode \/ DecodeFails \/ Encode

Spec == Init /\ [][Next]_vars

-----------------------------------------------------------------------------
(* Properties                                                              *)

Subtree[n \in Trees] == {n} \cup UNION {Subtree[n.content[i]] : i \in DOMAIN n.content}

(* Every document kept is one, and every mapping in it pairs each key with *)
(* a value.                                                                *)
TypeOK ==
    /\ input \in Streams
    /\ read \in 0 .. Len(input)
    /\ verdict \in {"none", "ok", "error"}
    /\ docs \in Seq(Manifests)
    /\ out \in Seq(Manifests)

(* The documents that are not empty among the first k, in their order.     *)
Kept[k \in 0 .. Len(input)] ==
    IF k = 0 THEN <<>>
    ELSE IF input[k] = Nothing THEN Kept[k - 1] ELSE Append(Kept[k - 1], input[k])

Documents == Kept[Len(input)]

(* No field the API server rejects is left null, at any depth, in a list   *)
(* or in a mapping, however the chart spells null (an alias of a null      *)
(* anchor is no null node, to the filter or to this property).             *)
NoNilFields ==
    \A i \in DOMAIN out : \A n \in Subtree[out[i]] : \A key \in emptyNilFields :
      \A k \in KeysAt(n, key) : n.content[k + 1].tag # "!!null"

(* Every zot StatefulSet that comes out has one serviceName, its own where *)
(* it had one (L2: wherever its metadata names it, with or without a       *)
(* replicas key), and it stands before the replicas if it was injected.    *)
ZotHasOneServiceName ==
    \A i \in DOMAIN out :
      LET spec == mapValue(out[i].content[1], "spec") IN
      IsZot(out[i].content[1]) =>
        \E k \in DOMAIN spec.content :
          /\ KeysAt(spec, "serviceName") = {k}
          /\ LacksServiceName(Documents[i].content[1]) =>
               \A r \in KeysAt(spec, "replicas") : r = k + 2

(* The fields the filter is about, struck out.                             *)
Struck[n \in Trees] ==
    [n EXCEPT !.content = [i \in DOMAIN @ |->
       IF IsField(n, i) /\ (isNull(@[i]) \/ @[i] = Str("")) THEN Nil ELSE Struck[@[i]]]]

(* The rest of the manifests is left alone: the documents that come out    *)
(* are those that went in, in their order, but for the nil fields and one  *)
(* pair in the spec of a zot StatefulSet that lacks it.                    *)
RestIsUntouched ==
    verdict = "ok" =>
      /\ Len(out) = Len(Documents)
      /\ \A i \in DOMAIN out :
           LET before == Struck[Documents[i]]
               spec   == Min(KeysAt(before.content[1], "spec")) + 1
           IN IF LacksServiceName(before.content[1])
              THEN \E at \in KeysAt(out[i].content[1].content[spec], "serviceName") :
                     Struck[out[i]] =
                       [before EXCEPT !.content[1].content[spec].content = merged(@, at)]
              ELSE Struck[out[i]] = before

(* All or nothing: the manifests before a document that does not parse are *)
(* not handed to Helm.                                                     *)
NothingOnError ==
    (verdict = "error" \/ Malformed \in {input[i] : i \in DOMAIN input}) => out = <<>>
=============================================================================
