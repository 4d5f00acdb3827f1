------------------------------- MODULE AppImage -------------------------------
(***************************************************************************)
(* The signature block of an application image (src-uc/signature.h) and    *)
(* the two programs that check it: the boot loader (apputils.c) a slot,    *)
(* and sbl.py verify a file.                                               *)
(*                                                                         *)
(* Ed25519 and SHA-512 are taken for what they promise: a signature is the *)
(* record of the key and of what it was made over, a hash is the code.  A  *)
(* key stands for both its parts.  A text of a version ("what") is one     *)
(* word of the code; of it counts the type that it ends in, and whether it *)
(* fits the block.                                                         *)
(***************************************************************************)
EXTENDS Integers, Sequences

CONSTANTS
  Keys,      \* what a signing key may be
  NoKey,     \* an erased key
  RootKey,   \* config.root_code_pk
  MaxLen,    \* the words of a slot after the signature block
  Words, Erased,
  WhatAt,    \* the text that begins at a word, for the words with one
  NoWhat,    \* a text without its end, or with what no text has
  MaxDate    \* bound: the latest date; one more is an erased date

APP_TYPE_ERROR == 3
Types == 0 .. APP_TYPE_ERROR
Dates == 0 .. MaxDate + 1
ROOT_CODE_PK_DATE == 0

ASSUME AppImageAssumption ==
  /\ NoKey \notin Keys /\ RootKey \in Keys
  /\ MaxLen \in Nat /\ MaxDate \in Nat
  /\ Erased \in Words
  /\ \A w \in DOMAIN WhatAt : WhatAt[w] \in [type : Types, fits : BOOLEAN] \union {NoWhat}

Code == UNION {[1 .. n -> Words] : n \in 0 .. MaxLen}
-------------------------------------------------------------------------------
(* Signatures *)

Signature(key, content) == [by |-> key, over |-> content]
NoSig == Signature(NoKey, [erased |-> TRUE])
Ed25519Verify(sig, content, pk) == sig = Signature(pk, content)

(* What each signature of the block is over: everything from behind it to  *)
(* the end of the block; for a certificate, that is the certificates from  *)
(* its own on.  certs[1] is the primary one.                               *)
CertContent(cert, chain) == [date |-> cert.date, key |-> cert.key, chain |-> chain]
BlockContentBugNoCerts(image) ==
  [length |-> image.length, date |-> image.date, hash |-> image.hash, type |-> image.type,
   what |-> image.what]
BlockContent(image) ==
  [length |-> image.length, date |-> image.date, hash |-> image.hash, type |-> image.type,
   what |-> image.what, certs |-> image.certs]

NoCert == [sig |-> NoSig, date |-> MaxDate + 1, key |-> NoKey]
-------------------------------------------------------------------------------
(* apputils.c.  An image is a signature block and the words behind it.     *)

AppCertValid(cert, chain, pk, ts) ==
  /\ Ed25519Verify(cert.sig, CertContent(cert, chain), pk)
  /\ cert.date >= ts

AppVerifyEmpty(image) ==
  image.length <= MaxLen /\ \A i \in image.length + 1 .. MaxLen : image.code[i] = Erased

AppVerifyHash(image) == image.hash = SubSeq(image.code, 1, image.length)

AppImageValidBugNoOrder(image) ==
  LET primary == image.certs.primary
      secondary == image.certs.secondary
  IN /\ AppCertValid(primary, <<>>, RootKey, ROOT_CODE_PK_DATE)
     /\ AppCertValid(secondary, <<primary>>, primary.key, ROOT_CODE_PK_DATE)
     /\ Ed25519Verify(image.sig, BlockContent(image), secondary.key)
     /\ AppVerifyEmpty(image)
     /\ AppVerifyHash(image)
     /\ image.what # NoWhat
     /\ image.type < APP_TYPE_ERROR
     /\ image.date >= secondary.date

AppImageValid(image) ==
  LET primary == image.certs.primary
      secondary == image.certs.secondary
  IN /\ AppCertValid(primary, <<>>, RootKey, ROOT_CODE_PK_DATE)
     /\ AppCertValid(secondary, <<primary>>, primary.key, primary.date)
     /\ Ed25519Verify(image.sig, BlockContent(image), secondary.key)
     /\ AppVerifyEmpty(image)
     /\ AppVerifyHash(image)
     /\ image.what # NoWhat
     /\ image.type < APP_TYPE_ERROR
     /\ image.date >= secondary.date

(* APP_SLOT_1, in a release build.                                         *)
AppSlotValid(new, old) ==
  /\ AppImageValid(old) /\ AppImageValid(new)
  /\ new.type >= old.type
  /\ new.certs.primary.date >= old.certs.primary.date
  /\ new.certs.secondary.date >= old.certs.secondary.date
  /\ new.date > old.date
-------------------------------------------------------------------------------
(* sbl.py verify.  A file ends where its code ends.                        *)

(* what(): the first text in the code.                                     *)
What(code) ==
  LET HasText(w) == w \in DOMAIN WhatAt
      texts == SelectSeq(code, HasText)
  IN IF texts = <<>> THEN NoWhat ELSE WhatAt[Head(texts)]

(* split_code() goes on.                                                   *)
Versioned(code) == What(code) # NoWhat /\ What(code).fits

VerifyCert(cert, chain, pk, date) ==
  /\ Ed25519Verify(cert.sig, CertContent(cert, chain), pk)
  /\ ~(cert.date < date)

Verify(file) ==
  LET primary == file.certs.primary
      secondary == file.certs.secondary
  IN /\ VerifyCert(primary, <<>>, RootKey, 0)
     /\ VerifyCert(secondary, <<primary>>, primary.key, primary.date)
     /\ Ed25519Verify(file.sig, BlockContent(file), secondary.key)
     /\ Len(file.code) = file.length
     /\ Versioned(file.code) /\ file.what = What(file.code)
     /\ file.code = file.hash
     /\ ~(secondary.date > file.date)
     /\ file.type \in 0 .. 2

(* A file programmed into an erased slot.                                  *)
Flashed(file) ==
  [file EXCEPT !.code =
     [i \in 1 .. MaxLen |-> IF i <= Len(file.code) THEN file.code[i] ELSE Erased]]
===============================================================================
