--------------------------- MODULE EntitlementsDER ---------------------------
(***************************************************************************)
(* Entitlements as DER: how EncodeDER (provision/entitlements/der.go)      *)
(* writes a dictionary, and how a verifier reads one.  Cells are tags,     *)
(* other bytes, and characters.                                            *)
(***************************************************************************)
EXTENDS Blobs, SequencesExt, FiniteSets

CONSTANTS
    Half,     \* 128: a byte has 2 * Half values
    IntHalf,  \* 2^31 or 2^63: what Go's int holds is from -IntHalf to IntHalf - 1
    Values,   \* the values of entitlements
    Depth     \* how deep they are nested

IsText(text) ==
    text \in Seq(Range(text)) /\ \A i \in DOMAIN text : DOMAIN text[i] = {"char"}

(* Booleans, integers, strings and arrays are what marshalValue knows; a   *)
(* value of another kind stands for dictionaries, dates, data and reals.   *)
(* The integers of a property list are int64 and uint64.                   *)
ASSUME ValuesAssumption ==
    /\ Half \in Nat \ {0, 1}
    /\ IntHalf \in Nat \ {0}
    /\ Depth \in [Values -> Nat]
    /\ \A v \in Values :
          \/ v.kind = "bool" /\ v = [kind |-> "bool", n |-> v.n] /\ v.n \in Nat
          \/ v.kind = "int" /\ v = [kind |-> "int", n |-> v.n] /\ v.n \in Int
          \/ v.kind = "string" /\ v = [kind |-> "string", text |-> v.text] /\ IsText(v.text)
          \/ /\ v.kind = "array" /\ v = [kind |-> "array", items |-> v.items]
             /\ v.items \in Seq(Values)
             /\ \A i \in DOMAIN v.items : Depth[v.items[i]] < Depth[v]
          \/ v.kind = "other"

The(S) == CHOOSE x \in S : TRUE

(* Strings are compared byte by byte, and a prefix comes first. *)
Before(s, t) ==
    \E i \in 1..Len(t) :
        /\ i - 1 <= Len(s) /\ SubSeq(s, 1, i - 1) = SubSeq(t, 1, i - 1)
        /\ i > Len(s) \/ s[i] < t[i]

Bytes(digits) == [i \in DOMAIN digits |-> [byte |-> digits[i]]]
Digits(n) ==
    LET digits[m \in 0..n] ==
          IF m = 0 THEN <<>> ELSE Append(digits[m \div (2 * Half)], m % (2 * Half))
    IN  digits[n]

derLengthShortToHalf(n) ==    \* mutant: 128 in the short form
    IF n <= Half THEN Bytes(<<n>>)
    ELSE Bytes(<<Half + Len(Digits(n))>> \o Digits(n))
derLength(n) ==
    IF n < Half THEN Bytes(<<n>>)
    ELSE Bytes(<<Half + Len(Digits(n))>> \o Digits(n))

(* asn1.Marshal of a RawValue, and utf8String *)
Tagged(tag, content) == <<[tag |-> tag]>> \o derLength(Len(content)) \o content
utf8String(text) == Tagged("UTF8String", text)

(* asn1.Marshal of an int, in two's complement: the first bit is its sign. *)
Padded(d) == IF d = <<>> \/ d[1] >= Half THEN <<0>> \o d ELSE d
Complement(s) == [i \in DOMAIN s |-> 2 * Half - 1 - s[i]]
TwosComplement(n) ==
    IF n >= 0 THEN Padded(Digits(n)) ELSE Complement(Padded(Digits(-n - 1)))
Integer(n) == Tagged("INTEGER", Bytes(TwosComplement(n)))

(* int(v): what does not fit loses its upper bits, without an error. *)
ToInt(n) ==
    LET w == n % (2 * IntHalf)
    IN  IF w < IntHalf THEN w ELSE w - 2 * IntHalf

(* What a value is written as; nothing if it or one in it cannot be. *)
Marshalled(marshal, v) ==
    CASE v.kind = "bool" -> {Tagged("BOOLEAN", Bytes(<<v.n>>))}
      [] v.kind = "string" -> {utf8String(v.text)}
      [] v.kind = "int" -> {Integer(ToInt(v.n))}
      [] v.kind = "array" /\ (\A i \in DOMAIN v.items : marshal[v.items[i]] # {}) ->
            {Tagged("SEQUENCE",
                    FlattenSeq([i \in DOMAIN v.items |-> The(marshal[v.items[i]])]))}
      [] OTHER -> {}
marshalValue == LET marshal[v \in Values] == Marshalled(marshal, v) IN marshal

(* A key is a sequence of numbers, its characters. *)
KeyText(key) == [i \in DOMAIN key |-> [char |-> <<"key", key[i]>>]]

(* The keys are sorted first. *)
SortedKeys(ent) ==
    CHOOSE s \in [1..Cardinality(DOMAIN ent) -> DOMAIN ent] :
        \A i, j \in DOMAIN s : i < j => Before(s[i], s[j])

Encodes(ent) == \A key \in DOMAIN ent : marshalValue[ent[key]] # {}
EncodeDER(ent) ==
    LET entry(key) ==
          Tagged("SEQUENCE", utf8String(KeyText(key)) \o The(marshalValue[ent[key]]))
        keys == SortedKeys(ent)
    IN  Tagged("SET", FlattenSeq([i \in DOMAIN keys |-> entry(keys[i])]))

-----------------------------------------------------------------------------
(***************************************************************************)
(* Reading: the values between two places of d, and "malformed" where      *)
(* there is none.                                                          *)
(***************************************************************************)
IsByte(d, p) == p \in DOMAIN d /\ "byte" \in DOMAIN d[p]
Number(d, from, to) ==
    LET number[p \in (from - 1)..to] ==
          IF p < from THEN 0 ELSE number[p - 1] * 2 * Half + d[p].byte
    IN  number[to]

(* A number below zero is read from the complement of its bytes. *)
ReadSigned(content) ==
    LET complement == [i \in DOMAIN content |-> [byte |-> 2 * Half - 1 - content[i].byte]]
    IN  IF content[1].byte < Half THEN Number(content, 1, Len(content))
        ELSE -1 - Number(complement, 1, Len(content))

(* The content of what is tagged at p: from where to before where. *)
ContentAt(d, p) ==
    LET long == d[p + 1].byte - Half
        first == IF long < 0 THEN p + 2 ELSE p + 2 + long
        size == IF long < 0 THEN d[p + 1].byte ELSE Number(d, p + 2, p + 1 + long)
    IN  IF /\ p \in DOMAIN d /\ "tag" \in DOMAIN d[p] /\ IsByte(d, p + 1)
           /\ \A i \in (p + 2)..(first - 1) : IsByte(d, i)
           /\ first + size <= Len(d) + 1
        THEN {[from |-> first, end |-> first + size]} ELSE {}

Malformed == [kind |-> "malformed"]
Scalar(tag, content) ==
    LET bytes == \A i \in DOMAIN content : IsByte(content, i)
    IN  IF tag = "UTF8String" /\ \A i \in DOMAIN content : "char" \in DOMAIN content[i]
        THEN [kind |-> "string", text |-> content]
        ELSE IF tag = "BOOLEAN" /\ bytes /\ Len(content) = 1
        THEN [kind |-> "bool", n |-> content[1].byte]
        ELSE IF tag = "INTEGER" /\ bytes /\ content # <<>>
        THEN [kind |-> "int", n |-> ReadSigned(content)]
        ELSE Malformed

ValuesAt(read, d, p, to) ==
    LET found == {c \in ContentAt(d, p) : c.end <= to}
        c == The(found)
        value == IF d[p].tag \in {"SET", "SEQUENCE"}
                 THEN [kind |-> IF d[p].tag = "SET" THEN "set" ELSE "array",
                       items |-> read[<<c.from, c.end>>]]
                 ELSE Scalar(d[p].tag, SubSeq(d, c.from, c.end - 1))
    IN  IF p = to THEN <<>>
        ELSE IF found = {} THEN <<Malformed>> ELSE <<value>> \o read[<<c.end, to>>]

Decode(d) ==
    LET places == 1..(Len(d) + 1)
        read[span \in places \X places] == ValuesAt(read, d, span[1], span[2])
    IN  read[<<1, Len(d) + 1>>]

(* The values all of whose integers an int holds, at every level. *)
Fitting ==
    LET scalars == {v \in Values : /\ v.kind # "array"
                                   /\ v.kind = "int" => v.n \in (-IntHalf)..(IntHalf - 1)}
        arrays == {v \in Values : v.kind = "array"}
    IN  scalars \cup UNION {S \in SUBSET arrays :
                              \A v \in S : Range(v.items) \subseteq scalars \cup S}
FitsInt(ent) == \A key \in DOMAIN ent : ent[key] \in Fitting

(* The dictionary ent is what d says, every key once and in order. *)
Says(d, ent) ==
    LET keys == SortedKeys(ent)
        pair(key) == [kind |-> "array",
                      items |-> <<[kind |-> "string", text |-> KeyText(key)], ent[key]>>]
    IN  Decode(d) = <<[kind |-> "set", items |-> [i \in DOMAIN keys |-> pair(keys[i])]]>>
==============================================================================
