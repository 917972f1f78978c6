------------------------------- MODULE Codecs -------------------------------
(***************************************************************************)
(* The text forms of keys and content addresses: the base32 of a gateway   *)
(* alias (node/src/naming.rs) and unpadded base64url (dmtap-naming         *)
(* base64url.rs, with its copies in pubserve.rs and syncserve.rs), bit by  *)
(* bit as the code shifts them.  A symbol is its value in the alphabet     *)
(* (base32 letters are read in either case); NoText is what decoding       *)
(* refuses.                                                                *)
(***************************************************************************)
EXTENDS Naturals, Sequences, SequencesExt

CONSTANTS
    Byte, Symbol32, Symbol64,   \* the bytes and symbols tried, of 0..255, 0..31, 0..63
    KeyLen,                     \* bytes of an identity key
    MaxBytes, MaxText           \* bounds: length of what is encoded, and decoded

CodecAssumption ==
    /\ Byte \subseteq 0..255 /\ Symbol32 \subseteq 0..31 /\ Symbol64 \subseteq 0..63
    /\ {KeyLen, MaxBytes, MaxText} \subseteq Nat

VARIABLES bytes, text32, text64     \* what is encoded, and what is decoded

vars == <<bytes, text32, text64>>

Init == bytes = <<>> /\ text32 = <<>> /\ text64 = <<>>

NoText == [ok |-> FALSE, bytes |-> <<>>]
Some(bs) == [ok |-> TRUE, bytes |-> bs]

-----------------------------------------------------------------------------
(* base32, streamed: `buf` holds the `bits` bits that are not out yet.     *)

\* The symbols that can be taken from n buffered bits, from the top.
Drain(buf, n, width) == [k \in 1..n \div width |-> (buf \div 2 ^ (n - k * width)) % 2 ^ width]

\* Mutant: the last bits stay where they are.
LastSymbolLow(buf, n) == buf

\* The bits left over become the high bits of a last symbol.
LastSymbol(buf, n) == buf * 2 ^ (5 - n)

Base32Encode(bs) ==
    LET step(acc, b) ==
            LET buf == acc.buf * 256 + b
                n == acc.n + 8
            IN  [buf |-> buf % 2 ^ (n % 5), n |-> n % 5, out |-> acc.out \o Drain(buf, n, 5)]
        end == FoldLeft(step, [buf |-> 0, n |-> 0, out |-> <<>>], bs)
    IN  IF end.n > 0 THEN Append(end.out, LastSymbol(end.buf, end.n)) ELSE end.out

\* Mutant: what is left over does not matter.
CanonicalResidueAny(buf, n) == TRUE

\* Fewer than a symbol's bits are left over, and all are zero.
CanonicalResidue(buf, n) == n < 5 /\ buf = 0

Base32Decode(t) ==
    LET step(acc, s) ==
            LET buf == acc.buf * 32 + s
                n == acc.n + 5
            IN  IF n >= 8 THEN [buf |-> buf % 2 ^ (n - 8), n |-> n - 8, out |-> Append(acc.out, buf \div 2 ^ (n - 8))]
                ELSE [acc EXCEPT !.buf = buf, !.n = n]
        end == FoldLeft(step, [buf |-> 0, n |-> 0, out |-> <<>>], t)
    IN  IF CanonicalResidue(end.buf, end.n) THEN Some(end.out) ELSE NoText

GatewayAliasLocal(ik) == Base32Encode(ik)

\* ik_from_gateway_alias: after the prefix, the whole of one key.
IkFromGatewayAlias(t) ==
    LET d == Base32Decode(t)
    IN  IF t # <<>> /\ d.ok /\ Len(d.bytes) = KeyLen THEN d ELSE NoText

-----------------------------------------------------------------------------
(* base64url, three bytes at a time.                                       *)

Chunks(s, n) == [k \in 1..(Len(s) + n - 1) \div n |->
                    SubSeq(s, (k - 1) * n + 1, IF k * n > Len(s) THEN Len(s) ELSE k * n)]

\* The number whose digits to the given base are s, filled up with zeros to n digits.
Number(s, base, n) == FoldLeft(LAMBDA acc, d : acc * base + d, 0, s \o [k \in 1..n - Len(s) |-> 0])

Digits(v, base, n, count) == [k \in 1..count |-> (v \div base ^ (n - k)) % base]

\* Mutant: a rest of two bytes is written as one.
SymbolsOfShort(chunk) == IF Len(chunk) = 3 THEN 4 ELSE 2

SymbolsOf(chunk) == Len(chunk) + 1

Base64Encode(bs) ==
    FlattenSeq([k \in DOMAIN Chunks(bs, 3) |->
        LET c == Chunks(bs, 3)[k] IN Digits(Number(c, 256, 3), 64, 4, SymbolsOf(c))])

\* A rest of one symbol is refused; the unused bits of a rest are dropped.
Base64Decode(t) ==
    IF Len(t) % 4 = 1 THEN NoText
    ELSE Some(FlattenSeq([k \in DOMAIN Chunks(t, 4) |->
            LET c == Chunks(t, 4)[k] IN Digits(Number(c, 64, 4), 256, 3, Len(c) - 1)]))

\* Mutant: a byte is put out when there are more bits than it needs.
HoldsByteMore(n) == n > 8

HoldsByte(n) == n >= 8

\* The sync server's own decoder of a token, streamed; the bits that are out are not
\* masked, but shifted out unread.
Base64Stream(t) ==
    LET step(acc, s) ==
            LET buf == (acc.buf * 64 + s) % 2 ^ 14
                n == acc.n + 6
            IN  IF HoldsByte(n) THEN [buf |-> buf, n |-> n - 8, out |-> Append(acc.out, (buf \div 2 ^ (n - 8)) % 256)]
                ELSE [acc EXCEPT !.buf = buf, !.n = n]
    IN  FoldLeft(step, [buf |-> 0, n |-> 0, out |-> <<>>], t).out

-----------------------------------------------------------------------------
Next ==
    \/ \E b \in Byte : /\ Len(bytes) < MaxBytes /\ text32 = <<>> /\ text64 = <<>>
                       /\ bytes' = Append(bytes, b) /\ UNCHANGED <<text32, text64>>
    \/ \E s \in Symbol32 : /\ Len(text32) < MaxText /\ bytes = <<>> /\ text64 = <<>>
                           /\ text32' = Append(text32, s) /\ UNCHANGED <<bytes, text64>>
    \/ \E s \in Symbol64 : /\ Len(text64) < MaxText /\ bytes = <<>> /\ text32 = <<>>
                           /\ text64' = Append(text64, s) /\ UNCHANGED <<bytes, text32>>

Spec == Init /\ [][Next]_vars

-----------------------------------------------------------------------------
\* What is written is read back, in both forms and at every length of the rest.
RoundTrips ==
    /\ Base32Decode(Base32Encode(bytes)) = Some(bytes)
    /\ Base64Decode(Base64Encode(bytes)) = Some(bytes)
    /\ Len(bytes) = KeyLen => IkFromGatewayAlias(GatewayAliasLocal(bytes)) = Some(bytes)

\* A key has one alias: whatever text is accepted as one is the alias of the key it gives.
AliasIsCanonical ==
    /\ Base32Decode(text32).ok => Base32Encode(Base32Decode(text32).bytes) = text32
    /\ IkFromGatewayAlias(text32).ok => GatewayAliasLocal(IkFromGatewayAlias(text32).bytes) = text32

\* The decoders of the same text agree: where the strict one reads it, the sync server
\* reads the same bytes, as many as were written.
DecodersAgree ==
    LET d == Base64Decode(text64)
    IN  d.ok => d.bytes = Base64Stream(text64) /\ Len(Base64Encode(d.bytes)) = Len(text64)

\* Text and bytes correspond one to one, in every decoder.
CodecsAreExact == RoundTrips /\ AliasIsCanonical /\ DecodersAgree

=============================================================================
