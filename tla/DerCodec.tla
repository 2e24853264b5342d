------------------------------ MODULE DerCodec ------------------------------
(***************************************************************************)
(* The primitive TLV codec the X.509 decoder consumes (spec section 4.1,   *)
(* the der_parser and nom crates).  It is an external collaborator: this   *)
(* module states its contract, not code of the repository.                 *)
(*                                                                         *)
(* A buffer is a sequence of cells.  A header cell [t |-> tag, n |-> len]  *)
(* stands for the tag and length octets of one TLV; its content is the n   *)
(* cells after it.  A content octet is a cell with tag "octet"; reading a  *)
(* header at one is an ill-formed TLV.  A slice of the buffer is a cursor  *)
(* p and an exclusive end e: a nom parser's input &buf[p..e].              *)
(*                                                                         *)
(* A parse result is [st, p, v]: st is "ok", "err" (nom Err::Error) or     *)
(* "inc" (nom Err::Incomplete, the Truncated class); p is the remainder;   *)
(* v is the value, NoValue when st # "ok".                                 *)
(***************************************************************************)
EXTENDS Naturals, Sequences, SequencesExt

Hdr(t, n) == [t |-> t, n |-> n]
Octet(v) == [t |-> "octet", n |-> v]

\* The DER encoding of a TLV with tag t around a sequence of cells.
TLV(t, cells) == <<Hdr(t, Len(cells))>> \o cells

\* A primitive TLV whose content octets have the values vals.
Prim(t, vals) == TLV(t, [k \in 1..Len(vals) |-> Octet(vals[k])])

\* Tags of constructed encodings, whose content is itself a list of TLVs.
Constructed == {"SEQ", "SET", "C0", "C1", "C2", "C3"}

\* The BER tag number of each tag, without its class: "C0" is [0]
\* context-specific and "EOC" is universal 0; both have number 0.
TagNumber(t) ==
  CASE t \in {"C0", "EOC"} -> 0 [] t \in {"C1", "BOOL"} -> 1
    [] t \in {"C2", "INT"} -> 2  [] t \in {"C3", "BIT"} -> 3
    [] t = "OCT" -> 4 [] t = "NULL" -> 5 [] t = "OID" -> 6
    [] t = "SEQ" -> 16 [] t = "SET" -> 17 [] t = "STR" -> 19
    [] t = "TIME" -> 23 [] OTHER -> 31

CONSTANT NoValue   \* a model value: the absent value (None)

Ok(p, v) == [st |-> "ok", p |-> p, v |-> v]
Fail(kind, p) == [st |-> kind, p |-> p, v |-> NoValue]

-----------------------------------------------------------------------------
(* nom combinators, as transformers of a parse result.                     *)

\* .or(Err(e)) and .map_err(|_| e): every failure becomes Err::Error.
OrErr(r) == IF r.st = "ok" THEN r ELSE Fail("err", r.p)

\* complete(f): Incomplete becomes Error.
Complete(r) == IF r.st = "inc" THEN Fail("err", r.p) ELSE r

\* Rust's `?` on a parse result: a failure is returned as it is, a success
\* is handed to the rest k of the parser.
Then(r, k(_)) == IF r.st # "ok" THEN r ELSE k(r)

\* A list parser's result: v in front of the items of the result rest.
Prefixed(v, rest) == Ok(rest.p, <<v>> \o rest.v)

\* The values of the content octets of the TLV whose header is at p.
Content(b, p) == [k \in 1..b[p].n |-> b[p + k].n]

\* Content types der_parser holds decoded rather than as bytes: Boolean,
\* Null, OID, and the SEQUENCE and SET whose items it parses.
NoSlice == {"BOOL", "NULL", "OID", "SEQ", "SET"}

\* BerObject::as_slice on the object whose raw cells are v: the cells of
\* its content, NoValue (BerTypeError) when its content is held decoded.
AsSlice(v) == IF v[1].t \in NoSlice THEN NoValue ELSE Tail(v)

-----------------------------------------------------------------------------
(* Readers.                                                                *)

\* ber_read_element_header: the header cell at p; the content is not read.
ReadHeader(b, p, e) ==
  IF p >= e THEN Fail("inc", p)
  ELSE IF b[p].t = "octet" THEN Fail("err", p)
  ELSE Ok(p + 1, b[p])

\* ber_read_element_header then take(len): a whole element, any tag.  The
\* value is its tag and the bounds [cs, ce) of its content.
Element(b, p, e) ==
  Then(ReadHeader(b, p, e), LAMBDA h :
    IF h.p + h.v.n > e THEN Fail("inc", p)
    ELSE Ok(h.p + h.v.n, [t |-> h.v.t, cs |-> h.p, ce |-> h.p + h.v.n]))

\* parse_ber_container with a tag check in the closure (parse_ber_sequence_
\* defined_g, parse_ber_set_defined_g): the length is taken before the tag
\* is checked.  The caller decodes the content window [cs, ce) and resumes
\* at p; content the caller leaves undecoded is dropped (the "_rest" of
\* parse_ber_container).
Container(b, p, e, t) ==
  Then(Element(b, p, e), LAMBDA x : IF x.v.t # t THEN Fail("err", p) ELSE x)

\* parse_der_with_tag for a primitive type: the tag is checked before the
\* length; the value is the content octets.
Primitive(b, p, e, t) ==
  IF p >= e THEN Fail("inc", p)
  ELSE IF b[p].t # t THEN Fail("err", p)
  ELSE IF p + 1 + b[p].n > e THEN Fail("inc", p)
  ELSE Ok(p + 1 + b[p].n, Content(b, p))

\* The number of octets of a big-endian unsigned integer once its leading
\* zero octets are dropped: the integer is below 256^n iff this is <= n.
SignificantOctets(v) ==
  LET first == SelectInSeq(v, LAMBDA d : d # 0)
  IN IF first = 0 THEN 0 ELSE Len(v) - first + 1

\* parse_ber_u32: an INTEGER read as a u64 (at most eight octets) that
\* must fit in a u32.
ParseU32(b, p, e) ==
  Then(Primitive(b, p, e, "INT"), LAMBDA r :
    IF Len(r.v) \notin 1..8 \/ SignificantOctets(r.v) > 4 THEN Fail("err", p)
    ELSE Ok(r.p, FoldLeft(LAMBDA acc, d : acc * 256 + d, 0, r.v)))

\* parse_der: any element; the content of a constructed one must itself be
\* a list of elements.  The value is the raw cells of the element.
RECURSIVE ParseAny(_, _, _), AnyList(_, _, _)
ParseAny(b, p, e) ==
  Then(Element(b, p, e), LAMBDA x :
    IF x.v.t \in Constructed /\ ~AnyList(b, x.v.cs, x.v.ce) THEN Fail("err", p)
    ELSE Ok(x.p, SubSeq(b, p, x.p - 1)))

AnyList(b, p, e) ==
  LET rest(r) == r.st = "ok" /\ AnyList(b, r.p, e)
  IN p = e \/ rest(ParseAny(b, p, e))

=============================================================================
