--------------------------------- MODULE HD ---------------------------------
(***************************************************************************)
(* Hierarchical keys (hd/hd.go): extended keys, their derivation along a   *)
(* path and the text they are printed as.  No program of the repository    *)
(* calls the package: the steps are the calls a user of it may make.       *)
(*                                                                         *)
(* Cryptography is free: HMAC-SHA512 is a term over its two arguments,     *)
(* both halves of which are named by the whole; a private key is the sum   *)
(* of the left halves added up in it, a set as no term occurs in itself;   *)
(* a public key is known by the private one it belongs to.  A key is kept  *)
(* as it lies in the byte slice Key: a byte and 32 more, or only the 32.   *)
(***************************************************************************)
EXTENDS Naturals, Sequences, SequencesExt

CONSTANTS
  Seed, SeedLen,       \* seeds, and the number of bytes of each
  IndexModulus,        \* 2^32 for a uint32; hardened indices are the upper half
  DepthModulus,        \* 2^8 for a byte
  LeadsWithZero(_),    \* whether the first byte of a private key is zero
  MaxRoute,            \* bound: derivations from a root
  MaxNumber            \* bound: numbers in a path, beyond IndexModulus

ASSUME HDAssumption ==
  /\ SeedLen \in [Seed -> Nat] /\ DepthModulus \in Nat \ {0} /\ MaxRoute \in Nat
  /\ IndexModulus \in Nat \ {0} /\ IndexModulus % 2 = 0
  /\ MaxNumber \in Nat

VARIABLES
  ek,     \* the extended key in hand, or NoKey
  root,   \* history: the key its derivation began with
  route   \* history: the indices it was derived with from there

vars == <<ek, root, route>>

NoKey == [IsPrivate |-> FALSE]

hardenedOffset == IndexModulus \div 2
Index == 0..(IndexModulus - 1)

Hmac(key, data) == [hmac |-> key, of |-> data]

(* A byte and 32 more: zero and a private key, or a compressed point. *)
Zero == [byte |-> "0"]
PrivateBytes(scalar) == <<Zero, [scalar |-> scalar]>>
PublicBytes(scalar) == <<[byte |-> "sign"], [point |-> scalar]>>

Scalar(key) == key.Key[2].scalar

MasterKey(seed) ==
  LET il == [master |-> seed]
  IN  [Version |-> "xprv", Depth |-> 0, ParentF |-> <<Zero, Zero, Zero, Zero>>, ChildNum |-> 0,
       ChainCode |-> il, Key |-> PrivateBytes({il}), IsPrivate |-> TRUE]

(* The key without its first byte, called a public one. *)
Neutered(key) ==
  [key EXCEPT !.Version = "xpub", !.Key = Tail(key.Key), !.IsPrivate = FALSE]

AsPublic(key) ==
  IF ~key.IsPrivate THEN key
  ELSE [key EXCEPT !.Version = "xpub", !.Key = PublicBytes(Scalar(key)), !.IsPrivate = FALSE]

(* ErrHardenedDerivation otherwise. *)
Derivable(key, index) == key.IsPrivate \/ index < hardenedOffset

(* Mutants: the index is not hashed; as BIP-32 has it, the parent's point  *)
(* is added on the public side.                                            *)
ChildUncounted(key, index) ==
  LET il == Hmac(key.ChainCode, AsPublic(key).Key)
  IN  [key EXCEPT !.Depth = (@ + 1) % DepthModulus, !.ChildNum = index, !.ChainCode = il,
                  !.Key = IF key.IsPrivate THEN PrivateBytes(Scalar(key) \cup {il})
                          ELSE PublicBytes({il})]

ChildAdded(key, index) ==
  LET il == Hmac(key.ChainCode,
                 <<IF index >= hardenedOffset THEN key.Key ELSE AsPublic(key).Key, index>>)
  IN  [key EXCEPT !.Depth = (@ + 1) % DepthModulus, !.ChildNum = index, !.ChainCode = il,
                  !.Key = IF key.IsPrivate THEN PrivateBytes(Scalar(key) \cup {il})
                          ELSE IF Len(key.Key) = 1 THEN PublicBytes({il})
                          ELSE PublicBytes(key.Key[2].point \cup {il})]

(* A child of a private key adds to it; a child of a public key does not.  *)
(* The fingerprint is handed on, as its four bytes are never missing.      *)
Child(key, index) ==
  LET il == Hmac(key.ChainCode,
                 <<IF index >= hardenedOffset THEN key.Key ELSE AsPublic(key).Key, index>>)
  IN  [key EXCEPT !.Depth = (@ + 1) % DepthModulus, !.ChildNum = index, !.ChainCode = il,
                  !.Key = IF key.IsPrivate THEN PrivateBytes(Scalar(key) \cup {il})
                          ELSE PublicBytes({il}),
                  !.ParentF = IF @ = <<>> THEN <<key.Key>> ELSE @]

(* A failed derivation stays failed. *)
Failed == [error |-> TRUE]

(* A mutant: each index is applied to the key the path begins with. *)
DeriveIndicesFromRoot(key, indices) ==
  LET child[n \in 0..Len(indices)] ==
        IF n = 0 THEN key
        ELSE IF child[n - 1] = Failed \/ ~Derivable(child[n - 1], indices[n]) THEN Failed
        ELSE Child(key, indices[n])
  IN  child[Len(indices)]

DeriveIndices(key, indices) ==
  LET child[n \in 0..Len(indices)] ==
        IF n = 0 THEN key
        ELSE IF child[n - 1] = Failed \/ ~Derivable(child[n - 1], indices[n]) THEN Failed
        ELSE Child(child[n - 1], indices[n])
  IN  child[Len(indices)]

(***************************************************************************)
(* A path is given as its parts between slashes: empty, the letter m, a    *)
(* number and what follows it, or what is no number at all.  Sscanf stops  *)
(* after the digits, so anything may follow them; a mark counts only as    *)
(* the last character.                                                     *)
(***************************************************************************)
Number(n, rest) == [n |-> n, rest |-> rest]
Mark == "'"
Rest == {"", Mark, "h"}
NumberPart == {Number(n, rest) : n \in 0..MaxNumber, rest \in Rest}
Empty == [word |-> ""]
M == [word |-> "m"]
Part == {Empty, M, [word |-> "x"]} \cup NumberPart

(* uint32(n), and the offset added in 32 bits. *)
ParsedIndex(part) ==
  ((part.n % IndexModulus) + IF part.rest = Mark THEN hardenedOffset ELSE 0) % IndexModulus

(* The parts that count: after a leading m/, without the empty ones. *)
Components(path) ==
  LET parts == IF Len(path) >= 2 /\ path[1] = M THEN Tail(path) ELSE path
      kept[n \in 0..Len(parts)] ==
        IF n = 0 THEN <<>>
        ELSE IF parts[n] = Empty THEN kept[n - 1] ELSE Append(kept[n - 1], parts[n])
  IN  kept[Len(parts)]

(* ErrInvalidPath for the empty string and for what is no number. *)
Parses(path) == path # <<Empty>> /\ ToSet(Components(path)) \subseteq NumberPart

parsePath(path) ==
  LET parts == Components(path) IN [i \in DOMAIN parts |-> ParsedIndex(parts[i])]

DerivePath(key, path) == IF Parses(path) THEN DeriveIndices(key, parsePath(path)) ELSE Failed

Checksum(data) == <<[check |-> data, byte |-> 1], [check |-> data, byte |-> 2],
                    [check |-> data, byte |-> 3], [check |-> data, byte |-> 4]>>

(* The fields in front of the key, the key, and a checksum over both. *)
String(key) ==
  LET head == [Version |-> key.Version, Depth |-> key.Depth, ParentF |-> key.ParentF,
               ChildNum |-> key.ChildNum, ChainCode |-> key.ChainCode]
  IN  [head |-> head, tail |-> key.Key \o Checksum(<<head, key.Key>>)]

(* A mutant: the first byte is tested the other way round. *)
StartsWithZeroNot(tail) ==
  tail[1] # Zero /\ ~("scalar" \in DOMAIN tail[1] /\ LeadsWithZero(tail[1].scalar))

(* The first byte of what stands where the key is looked for. *)
StartsWithZero(tail) ==
  \/ tail[1] = Zero
  \/ "scalar" \in DOMAIN tail[1] /\ LeadsWithZero(tail[1].scalar)

(* Fewer than 78 bytes, 45 of them the head: a scalar or a point has 32.   *)
Has32(part) == "scalar" \in DOMAIN part \/ "point" \in DOMAIN part
TooShort(tail) ==
  Len(tail) < 33 /\ (Len(tail) > 1 => \A i \in 1..Len(tail) : ~Has32(tail[i]))

(* The text is taken as the bytes it decodes to, of which encoding loses   *)
(* nothing (Base58Sound).  The last four of them are the checksum; a byte  *)
(* and 32 more are the key, and when only the 32 were written the byte is  *)
(* one of the checksum, the last where it should be the first.             *)
ParseExtendedKey(data) ==
  LET n == Len(data.tail)
      sum == SubSeq(data.tail, n - 3, n)
  IN  IF TooShort(data.tail) \/ sum # Checksum(<<data.head, SubSeq(data.tail, 1, n - 4)>>)
      THEN Failed
      ELSE [Version |-> data.head.Version, Depth |-> data.head.Depth,
            ParentF |-> data.head.ParentF, ChildNum |-> data.head.ChildNum,
            ChainCode |-> data.head.ChainCode,
            Key |-> SubSeq(data.tail, 1, 2), IsPrivate |-> StartsWithZero(data.tail)]

(* What Address, AddressHex and PubKeyHash hash. *)
Hashed(key) == AsPublic(key).Key

HDInit == ek = NoKey /\ root = NoKey /\ route = <<>>

Begin(key) == ek' = key /\ root' = key /\ route' = <<>>

(* ErrInvalidSeed unless the seed has 16 to 64 bytes. *)
NewMasterKey(seed) == ek = NoKey /\ SeedLen[seed] \in 16..64 /\ Begin(MasterKey(seed))

(* Of a public key PublicKey returns the key itself. *)
PublicKey == ek.IsPrivate /\ Begin(AsPublic(ek))

NeuteredKey == ek.IsPrivate /\ Begin(Neutered(ek))

ChildKey(index) ==
  /\ ek # NoKey /\ Derivable(ek, index) /\ Len(route) < MaxRoute
  /\ ek' = Child(ek, index) /\ route' = Append(route, index) /\ UNCHANGED root

HDNext ==
  \/ \E seed \in Seed : NewMasterKey(seed)
  \/ PublicKey \/ NeuteredKey
  \/ \E index \in Index : ChildKey(index)

HDSpec == HDInit /\ [][HDNext]_vars
-----------------------------------------------------------------------------
(* Different derivations from the same key never meet: no two sequences of *)
(* indices lead to keys that share their key, their chain code or, with    *)
(* that, their address.                                                    *)
RoutesSeparate ==
  ek # NoKey =>
    \A other \in BoundedSeq(Index, MaxRoute) :
      LET key == DeriveIndices(root, other)
      IN  key # Failed /\ (key.Key = ek.Key \/ key.ChainCode = ek.ChainCode
                           \/ Hashed(key) = Hashed(ek))
            => other = route

(* Without its private half a key derives no hardened child: of a number   *)
(* below the offset a marked component is refused and any other, whatever  *)
(* follows the digits, is not.  A number from the offset on turns the mark *)
(* around, as the offset is added in 32 bits.                              *)
HardenedNeedsPrivate ==
  ek # NoKey =>
    \A part \in NumberPart :
      LET hardened == (part.rest = Mark) # (part.n % IndexModulus >= hardenedOffset)
      IN  DerivePath(ek, <<M, part>>) = Failed <=> hardened /\ ~ek.IsPrivate

(* A path may be followed in legs: deriving the second half from what the  *)
(* first half gave is deriving the whole, where one fails as the other     *)
(* does; and a leading m/ or doubled slashes change nothing.               *)
PathsCompose ==
  ek # NoKey =>
    \A p \in Part \ {M, Empty} :
      LET first == DerivePath(ek, <<p>>)
      IN  /\ DerivePath(ek, <<M, p>>) = first
          /\ \A q \in Part \ {Empty} :
               DerivePath(ek, <<p, Empty, q>>)
                 = IF first = Failed THEN Failed ELSE DerivePath(first, <<q>>)

(* What a path of text leads to: what its numbers say, if anything.        *)
PathsDerive == HardenedNeedsPrivate /\ PathsCompose

(* A key printed and read again is the same key, with the same address,    *)
(* but for one that NeuteredKey made: it lacks a byte, and what is read    *)
(* ends in a byte of the checksum, and is taken for a private key when its *)
(* first byte happens to be zero.                                          *)
PrintedKeyReadBack ==
  ek # NoKey =>
    LET read == ParseExtendedKey(String(ek))
    IN  IF Len(ek.Key) = 2 THEN read = ek /\ Hashed(read) = Hashed(ek)
        ELSE /\ read # Failed /\ read.Key # ek.Key
             /\ read.IsPrivate <=> LeadsWithZero(ek.Key[1].scalar)

(* The public side of a private key: PublicKey keeps its address, and its  *)
(* children get the chain codes of the private key's children but keys of  *)
(* their own, as no parent is added.  NeuteredKey, which "converts private *)
(* extended key to public extended key", keeps neither address nor chain   *)
(* codes: it holds the private key itself.                                 *)
PublicSide ==
  ek # NoKey /\ ek.IsPrivate =>
    \A index \in 0..(hardenedOffset - 1) :
      LET private == Child(ek, index)
          public == Child(AsPublic(ek), index)
          neutered == Child(Neutered(ek), index)
      IN  /\ Hashed(AsPublic(ek)) = Hashed(ek)
          /\ public.ChainCode = private.ChainCode /\ Hashed(public) # Hashed(private)
          /\ Hashed(Neutered(ek)) # Hashed(ek) /\ neutered.ChainCode # private.ChainCode
=============================================================================
