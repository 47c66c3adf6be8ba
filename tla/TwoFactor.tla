------------------------------- MODULE TwoFactor -------------------------------
(***************************************************************************)
(* The second factor: encodeBase32, decodeBase32 and TotpService of        *)
(* backend/src/modules/auth/application/totp.service.ts, and               *)
(* RecoveryCodeService of recovery-code.service.ts.  No route calls them   *)
(* yet; they are pure functions, given here as operators.                  *)
(*                                                                         *)
(* A byte is a number, a letter of the base32 alphabet its index.  The     *)
(* accumulator of either conversion is one of Words integers that is       *)
(* shifted and never cleared, so its high bits are those of earlier bytes, *)
(* or lost.                                                                *)
(***************************************************************************)
EXTENDS Integers, SequencesExt

CONSTANTS
  Words,    \* how many integers there are: 2^32 in the code, fewer for TLC
  Bytes,    \* the bytes secrets are made of
  MaxBytes, \* bound on the length of a secret
  Period,   \* periodSeconds
  Window,   \* how many periods beside the current one are accepted
  Seconds,  \* moments
  Token,    \* the digits of each counter, for some secret
  Letter,   \* the letters and digits of base64url, with their case
  Group     \* characters of a group of a recovery code: 4 in the code

ASSUME TwoFactorAssumption ==
  /\ Words \in Nat \ {0} /\ Words % 4096 = 0
  /\ Bytes \subseteq 0..255 /\ MaxBytes \in Nat
  /\ Period \in Nat \ {0} /\ Window \in Nat
  /\ Seconds \subseteq Nat /\ \A t \in Seconds : t >= Window * Period
  /\ Group \in Nat \ {0}
  /\ \A c \in Letter : c = [symbol |-> c.symbol, upper |-> c.upper]
  /\ \A c \in Letter : c.upper \in BOOLEAN /\ c.symbol \notin {"dash", "underscore", "space"}

\* 2^n; at most 12 bits are ever at hand, and no shift is by more.
Power2[n \in 0..12] == IF n = 0 THEN 1 ELSE 2 * Power2[n - 1]

Shl(x, n)  == (x * Power2[n]) % Words
Shr(x, n)  == x \div Power2[n]
Start      == [bits |-> 0, value |-> 0, out |-> <<>>]

-----------------------------------------------------------------------------
(* encodeBase32, decodeBase32 *)

\* The letters the bits at hand make, the oldest first.
Letters(value, bits) == [i \in 1..(bits \div 5) |-> Shr(value, bits - 5 * i) % 32]

EncodeByte(acc, byte) ==
  LET value == Shl(acc.value, 8) + byte
      bits  == acc.bits + 8
  IN  [bits |-> bits % 5, value |-> value, out |-> acc.out \o Letters(value, bits)]

EncodeBase32(bytes) ==
  LET acc[n \in 0..Len(bytes)] ==
        IF n = 0 THEN Start ELSE EncodeByte(acc[n - 1], bytes[n])
      last == acc[Len(bytes)]
  IN  IF last.bits = 0 THEN last.out
      ELSE Append(last.out, Shl(last.value, 5 - last.bits) % 32)

\* Mutant: the bits beyond a byte are forgotten.
DecodeLetterFresh(acc, letter) ==
  LET value == Shl(acc.value, 5) + letter
      bits  == acc.bits + 5
  IN  IF bits < 8 THEN [acc EXCEPT !.bits = bits, !.value = value]
      ELSE [bits |-> 0, value |-> value,
            out |-> Append(acc.out, Shr(value, bits - 8) % 256)]

DecodeLetter(acc, letter) ==
  LET value == Shl(acc.value, 5) + letter
      bits  == acc.bits + 5
  IN  IF bits < 8 THEN [acc EXCEPT !.bits = bits, !.value = value]
      ELSE [bits |-> bits - 8, value |-> value,
            out |-> Append(acc.out, Shr(value, bits - 8) % 256)]

DecodeBase32(letters) ==
  LET acc[n \in 0..Len(letters)] ==
        IF n = 0 THEN Start ELSE DecodeLetter(acc[n - 1], letters[n])
  IN  acc[Len(letters)].out

-----------------------------------------------------------------------------
(* TotpService: the digits are those of a counter, by an HMAC *)

Counter(seconds) == seconds \div Period

GenerateToken(seconds) == Token[Counter(seconds)]

VerifyToken(token, seconds) ==
  \E offset \in (-Window)..Window :
    GenerateToken(seconds + offset * Period) = token

-----------------------------------------------------------------------------
(* RecoveryCodeService: a character is a symbol and its case *)

Sign(s)    == [symbol |-> s, upper |-> TRUE]
Dash       == Sign("dash")
Underscore == Sign("underscore")
Space      == Sign("space")

\* base64url of ten random bytes: two characters more than three groups.
RandomTexts ==
  [1..(3 * Group + 2) -> Letter \cup {Dash, Underscore}]

ToUpper(code)       == [i \in DOMAIN code |-> [code[i] EXCEPT !.upper = TRUE]]

Without(code, char) ==
  LET kept[n \in 0..Len(code)] ==
        IF n = 0 THEN <<>>
        ELSE IF code[n] = char THEN kept[n - 1] ELSE Append(kept[n - 1], code[n])
  IN  kept[Len(code)]

\* The n-th group; what is left of the text may be too short for it.
Slice(text, n) ==
  LET end == n * Group
  IN  SubSeq(text, end - Group + 1, IF end < Len(text) THEN end ELSE Len(text))

GenerateCode(random) ==
  LET value == Without(Without(random, Dash), Underscore)
  IN  ToUpper(Slice(value, 1) \o <<Dash>> \o Slice(value, 2) \o <<Dash>>
                \o Slice(value, 3))

NormalizeCode(code) == ToUpper(Without(Without(code, Dash), Space))

\* The hash of a text is the text itself.
HashCode(code) == NormalizeCode(code)

VerifyCode(code, hash) == HashCode(code) = hash

-----------------------------------------------------------------------------
(* Properties *)

\* RFC 4648: letter k has the bits from 5 * (k - 1) on, zeros after the last.
Bit(bytes, i) ==
  IF i < 8 * Len(bytes) THEN Shr(bytes[1 + (i \div 8)], 7 - (i % 8)) % 2 ELSE 0

Base32(bytes) ==
  [k \in 1..((8 * Len(bytes) + 4) \div 5) |->
     LET bit(j) == Bit(bytes, 5 * (k - 1) + j)
     IN  16 * bit(0) + 8 * bit(1) + 4 * bit(2) + 2 * bit(3) + bit(4)]

\* What a user may type for a code.
Typed(code) ==
  {code, Without(code, Dash), <<Space>> \o code,
   [i \in DOMAIN code |-> IF code[i] = Dash THEN Space ELSE code[i]],
   [i \in DOMAIN code |-> [code[i] EXCEPT !.upper = code[i] = Dash]]}

\* Secrets survive their encoding, which is that of the standard, whatever
\* the accumulator has lost on its left.
SecretsSurvive ==
  \A bytes \in SeqOf(Bytes, MaxBytes) :
    /\ EncodeBase32(bytes) = Base32(bytes)
    /\ DecodeBase32(EncodeBase32(bytes)) = bytes

\* A token is accepted from Window periods before the one it is of to Window
\* periods after it, wherever in their periods the two moments are, and at no
\* other moment but by chance of its digits.
TokensExpire ==
  \A made, now \in Seconds :
    VerifyToken(GenerateToken(made), now) <=>
      \E c \in (Counter(now) - Window)..(Counter(now) + Window) :
        Token[c] = Token[Counter(made)]

\* A recovery code is accepted in lower case, with spaces, without dashes,
\* and no other code of the generator is, short as it may have come out.
CodesVerify ==
  LET codes == {GenerateCode(random) : random \in RandomTexts} IN
  \A code, other \in codes : \A typed \in Typed(other) :
    VerifyCode(typed, HashCode(code)) <=> code = other
=============================================================================
