------------------------------- MODULE Base58 -------------------------------
(***************************************************************************)
(* Base58Check (crypto/base58.go): byte strings written as numbers in base *)
(* 58, with a digit for each leading zero byte and a checksum at the end,  *)
(* as addresses and extended keys are printed.                             *)
(*                                                                         *)
(* A character of the alphabet is its place in it; any other character is  *)
(* Radix or more.  Bytes is 256, Radix 58 and ChecksumLen 4 in the code.   *)
(***************************************************************************)
EXTENDS Naturals, Sequences, SequencesExt

CONSTANTS
  Bytes, Radix,
  ChecksumLen,   \* how many bytes of the hash make the checksum
  HashBytes(_),  \* the first ChecksumLen bytes of DoubleHash
  MaxBytes       \* bound: the length of the input

ASSUME Base58Assumption ==
  /\ Radix \in Nat \ {0, 1} /\ Bytes \in Nat \ {0, 1} /\ Radix <= Bytes
  /\ ChecksumLen \in Nat /\ MaxBytes \in Nat

ASSUME HashAssumption ==
  \A data \in BoundedSeq(0..(Bytes - 1), MaxBytes) :
    HashBytes(data) \in [1..ChecksumLen -> 0..(Bytes - 1)]

VARIABLE input  \* a string of bytes, or of characters to decode

(* big.Int's SetBytes, or Mul and Add digit by digit. *)
Value(digits, base) ==
  LET value[i \in 0..Len(digits)] == IF i = 0 THEN 0 ELSE value[i - 1] * base + digits[i]
  IN  value[Len(digits)]

(* big.Int's Bytes, or DivMod until nothing is left: no leading zeros.     *)
Digits(number, base) ==
  LET digits[n \in 0..number] ==
        IF n = 0 THEN <<>> ELSE Append(digits[n \div base], n % base)
  IN  digits[number]

LeadingZeros(s) ==
  CHOOSE n \in 0..Len(s) :
    (\A i \in 1..n : s[i] = 0) /\ (n < Len(s) => s[n + 1] # 0)

Zeros(n) == [i \in 1..n |-> 0]

(* A mutant: leading zeros are lost. *)
Base58EncodeNoZeros(s) == Digits(Value(s, Bytes), Radix)

Base58Encode(s) == Zeros(LeadingZeros(s)) \o Digits(Value(s, Bytes), Radix)

Invalid == "invalid"

(* nil when a character is not in the alphabet. *)
Base58Decode(s) ==
  IF \E i \in DOMAIN s : s[i] >= Radix THEN Invalid
  ELSE Zeros(LeadingZeros(s)) \o Digits(Value(s, Radix), Bytes)

AddChecksum(data) == data \o HashBytes(data)

VerifyChecksum(data) ==
  /\ Len(data) >= ChecksumLen
  /\ SubSeq(data, Len(data) - ChecksumLen + 1, Len(data))
       = HashBytes(SubSeq(data, 1, Len(data) - ChecksumLen))

(* Wallet.Address: a key hash as it is printed; Address in hd.go puts a    *)
(* version byte in front. *)
Address(payload) == Base58Encode(AddChecksum(payload))

Base58Init == input = <<>>

ReadByte(b) == Len(input) < MaxBytes /\ input' = Append(input, b)

Base58Next == \E b \in 0..(Bytes - 1) : ReadByte(b)

Base58Spec == Base58Init /\ [][Base58Next]_input
-----------------------------------------------------------------------------
(* Encoding loses nothing: every string of bytes comes back, with the      *)
(* zeros at its beginning, which are no part of the number it stands for.  *)
EncodeDecodes == Base58Decode(Base58Encode(input)) = input

(* Decoding loses nothing either: a string of characters of the alphabet   *)
(* is what its bytes are encoded to, so no two texts stand for the same    *)
(* bytes; any other text is refused.                                       *)
DecodeEncodes ==
  IF \A i \in DOMAIN input : input[i] < Radix
  THEN Base58Encode(Base58Decode(input)) = input
  ELSE Base58Decode(input) = Invalid

(* A printed address decodes to its payload with a checksum that verifies, *)
(* whatever zeros the payload begins or its checksum ends with, and        *)
(* nothing but the checksum may follow the payload.                        *)
AddressVerifies ==
  LET read == Base58Decode(Address(input))
  IN  /\ VerifyChecksum(read)
      /\ SubSeq(read, 1, Len(read) - ChecksumLen) = input
      /\ VerifyChecksum(input) <=>
           \E n \in 0..Len(input) : input = AddChecksum(SubSeq(input, 1, n))

(* The text form is a faithful one: no input is lost or taken for another  *)
(* on the way from bytes to text, from text to bytes and through an        *)
(* address with its checksum.                                              *)
Base58Sound == EncodeDecodes /\ DecodeEncodes /\ AddressVerifies
=============================================================================
