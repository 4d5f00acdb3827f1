-------------------------------- MODULE Signing --------------------------------
(***************************************************************************)
(* From keys to an installed image: sbl.py keygen, certgen, sign and       *)
(* verify, and app_slot_valid() of the boot loader that gets the image.    *)
(*                                                                         *)
(* The level 2 key is split with sss.py into shares, written as text; who  *)
(* signs types in as many of them as they please.  Certificates are signed *)
(* with one key or the other, on any date and with or without a chain:     *)
(* sbl.py compares none of it when it signs.                               *)
(***************************************************************************)
EXTENDS Sss, Zbase32, AppImage

CONSTANTS
  L1Key, L2Key,  \* the keys the certificates are for
  Quorums,       \* K of keygen --split K,N
  Shares,        \* its N
  Random,        \* what secrets.randbelow() may give
  Salt,          \* the bytes before the encrypted share
  Codes          \* what sign may be given

ASSUME SigningAssumption ==
  /\ Keys = Fe /\ {L1Key, L2Key} \subseteq Fe \ {Zero}
  /\ Random \subseteq Fe
  /\ Shares \in Nat /\ Shares < 2 ^ N
  /\ Quorums \subseteq 1 .. Shares
  /\ N <= ByteBits
  /\ Salt \in Seq(SUBSET (0 .. ByteBits - 1))
  /\ Codes \subseteq Seq(Words)

NoVault == [k |-> 0, text |-> <<>>]
NoFile == [sig |-> NoSig]

VARIABLES
  vault,   \* the shares of the level 2 key, and how many of them are needed
  hand,    \* the key that was joined, or NoKey
  cert1,   \* the primary certificate file: <<>> or <<cert>>
  cert0,   \* the secondary one: <<>>, <<cert>> or, with a chain, <<cert, primary>>
  file,    \* the signed image
  slot0,   \* the image that runs
  orderly  \* history: keys and dates of the file were in order

vars == <<vault, hand, cert1, cert0, file, slot0, orderly>>

SignDates == 0 .. MaxDate
-------------------------------------------------------------------------------
(* keygen: split_key, encode_split, dump_splits.  The encryption with the  *)
(* passphrase keeps a share as it is, or finds that it is not one.         *)
Text(share) == Encode(Append(Salt, share[2]))

Keygen ==
  /\ vault = NoVault /\ hand = NoKey
  /\ \E k \in Quorums : \E p \in RandPolys(L2Key, k, Random) :
       vault' = [k |-> k, text |-> [x \in 1 .. Shares |-> Text(Split(p, Shares)[x])]]
  /\ UNCHANGED <<hand, cert1, cert0, file, slot0, orderly>>

(* decode_split, join_key: shares number x of "numbers", in that order.    *)
Bytes(x) == Decode(vault.text[x], <<>>)
Whole(x) == Len(Bytes(x)) = Len(Salt) + 1 /\ SubSeq(Bytes(x), 1, Len(Salt)) = Salt
JoinKey(numbers) ==
  Join([i \in DOMAIN numbers |-> <<AsFe(numbers[i]), Bytes(numbers[i])[Len(Salt) + 1]>>])

Ascending(S) == CHOOSE q \in [1 .. Cardinality(S) -> S] : \A i, j \in DOMAIN q : i < j => q[i] < q[j]

(* Any of the shares, or one share twice.  They are put away again.        *)
LoadSplits ==
  /\ vault # NoVault /\ hand = NoKey
  /\ \E numbers \in {Ascending(S) : S \in SUBSET (1 .. Shares) \ {{}}}
                    \union {<<x, x>> : x \in 1 .. Shares} :
       /\ \A i \in DOMAIN numbers : Whole(numbers[i])
       /\ hand' = JoinKey(numbers)
  /\ vault' = NoVault
  /\ UNCHANGED <<cert1, cert0, file, slot0, orderly>>
-------------------------------------------------------------------------------
(* certgen *)

CertSigned(by, date, key, chain) ==
  LET cert == [sig |-> NoSig, date |-> date, key |-> key]
  IN [cert EXCEPT !.sig = Signature(by, CertContent(cert, chain))]

CertgenPrimary ==
  /\ hand # NoKey
  /\ \E by \in {RootKey, L1Key}, date \in SignDates :
       cert1' = <<CertSigned(by, date, L1Key, <<>>)>>
  /\ UNCHANGED <<vault, hand, cert0, file, slot0, orderly>>

CertgenSecondary ==
  /\ cert1 # <<>>
  /\ \E by \in {L1Key, RootKey}, date \in SignDates, chain \in {cert1, <<>>} :
       cert0' = <<CertSigned(by, date, L2Key, chain)>> \o chain
  /\ UNCHANGED <<vault, hand, cert1, file, slot0, orderly>>
-------------------------------------------------------------------------------
(* sign: a certificate without a chain ends the block alone, behind 0xff.  *)

CertsBugReversed(cert) ==
  [primary |-> Head(cert), secondary |-> IF Len(cert) = 2 THEN cert[2] ELSE NoCert]
Certs(cert) ==
  [primary |-> cert[Len(cert)], secondary |-> IF Len(cert) = 2 THEN Head(cert) ELSE NoCert]

(* Code whose text ends in one of the types: "-EFI", "-MFI" or "-AFI".     *)
Signable == {code \in Codes : Versioned(code) /\ What(code).type \in Types \ {APP_TYPE_ERROR}}

SignedImage(by, code, date, cert) ==
  LET image == [sig |-> NoSig, length |-> Len(code), date |-> date, hash |-> code,
                type |-> What(code).type, what |-> What(code), certs |-> Certs(cert),
                code |-> code]
  IN [image EXCEPT !.sig = Signature(by, BlockContent(image))]

(* Every certificate signed by the key above it, none dated before it.     *)
Orderly(by, date, cert) ==
  /\ Len(cert) = 2
  /\ cert[2].sig.by = RootKey
  /\ cert[1].sig.by = L1Key /\ cert[1].date >= cert[2].date
  /\ by = L2Key /\ date >= cert[1].date

Sign ==
  /\ hand # NoKey
  /\ \E cert \in {cert0, cert1} \ {<<>>}, code \in Signable, date \in SignDates :
       /\ file' = SignedImage(hand, code, date, cert)
       /\ orderly' = Orderly(hand, date, cert)
  /\ UNCHANGED <<vault, hand, cert1, cert0, slot0>>
-------------------------------------------------------------------------------
(* The boot loader: an image that is programmed into an empty device is    *)
(* run if it is valid, any other is installed over the one before it.      *)
Install ==
  /\ file # NoFile
  /\ IF slot0 = NoFile THEN AppImageValid(Flashed(file))
     ELSE AppSlotValid(Flashed(file), slot0)
  /\ slot0' = Flashed(file)
  /\ UNCHANGED <<vault, hand, cert1, cert0, file, orderly>>
-------------------------------------------------------------------------------
Init ==
  /\ vault = NoVault /\ hand = NoKey
  /\ cert1 = <<>> /\ cert0 = <<>>
  /\ file = NoFile /\ slot0 = NoFile /\ orderly = FALSE

Next == Keygen \/ LoadSplits \/ CertgenPrimary \/ CertgenSecondary \/ Sign \/ Install

Spec == Init /\ [][Next]_vars
-------------------------------------------------------------------------------
(* Properties *)

(* Whatever split and randpoly drew, from the text of any K or more of the *)
(* shares load_splits gets the key back, and from K - 1 of them another.   *)
Quorum ==
  vault # NoVault =>
  /\ \A x \in 1 .. Shares : Whole(x)
  /\ \A S \in SUBSET (1 .. Shares) :
       /\ Cardinality(S) >= vault.k => JoinKey(Ascending(S)) = L2Key
       /\ Cardinality(S) = vault.k - 1 /\ S # {} => JoinKey(Ascending(S)) # L2Key

(* What was signed with the right keys, chain and dates, and fits the      *)
(* slot, is accepted by app_image_valid(), and nothing else that sbl.py    *)
(* can be made to sign: with a wrong share, the wrong certificate file, a  *)
(* certificate without its chain, or dates out of order.                   *)
AcceptedIffOrderly ==
  file # NoFile => (AppImageValid(Flashed(file)) <=> orderly /\ file.length <= MaxLen)

Texts == {NoWhat} \union {What(code) : code \in Codes}

(* One thing altered: a word, a field of the block or of a certificate, or *)
(* the certificates exchanged for those of another run of certgen.         *)
Altered(image) ==
  {[image EXCEPT !.code[i] = w] : i \in DOMAIN image.code, w \in Words}
  \union {[image EXCEPT !.length = n] : n \in 0 .. MaxLen + 1}
  \union {[image EXCEPT !.date = d] : d \in Dates}
  \union {[image EXCEPT !.type = t] : t \in Types}
  \union {[image EXCEPT !.what = text] : text \in Texts}
  \union {[image EXCEPT !.hash = code] : code \in Codes}
  \union {[image EXCEPT !.certs.primary.date = d] : d \in Dates}
  \union {[image EXCEPT !.certs.secondary.date = d] : d \in Dates}
  \union {[image EXCEPT !.certs.secondary.key = hand], [image EXCEPT !.sig = NoSig]}
  \union {[image EXCEPT !.certs = Certs(cert)] : cert \in {cert1, cert0} \ {<<>>}}

(* The slot is what was signed, to its last word: an image that is valid   *)
(* is not after any one change, be it behind the code or of certificates   *)
(* that are valid themselves.                                              *)
DamageRefused ==
  \A image \in {Flashed(f) : f \in {file} \ {NoFile}} \union ({slot0} \ {NoFile}) :
    AppImageValid(image) =>
      \A other \in Altered(image) : AppImageValid(other) => other = image

(* sbl.py verify and the boot loader say the same of a file, damaged or    *)
(* not, but for two things: the tool does not know how long a slot is, and *)
(* takes words after the end for an error that look erased in flash.       *)
ToolAgrees ==
  file # NoFile =>
    \A f \in Altered(file) \union {[file EXCEPT !.code = Append(@, w)] : w \in Words} :
      /\ Len(f.code) = f.length =>
           (Verify(f) /\ f.length <= MaxLen <=> AppImageValid(Flashed(f)))
      /\ Verify(f) => Len(f.code) = f.length
===============================================================================
