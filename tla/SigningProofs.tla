----------------------------- MODULE SigningProofs -----------------------------
(***************************************************************************)
(* Proofs about signed images, for all keys, dates, codes and lengths of a *)
(* slot: which of the files that sbl.py can be made to sign the boot       *)
(* loader accepts, and that an accepted image cannot be altered, whatever  *)
(* key join_key() gave; and, for all numbers of shares, that join_key()    *)
(* gives back what split_key() split, from the text that was printed.      *)
(***************************************************************************)
EXTENDS Signing, FiniteSetTheorems, SequenceTheorems, TLAPS

-------------------------------------------------------------------------------
(* What the files of certificates and images can be *)

PrimaryFiles ==
  {<<CertSigned(by, date, L1Key, <<>>)>> : by \in {RootKey, L1Key}, date \in SignDates}

SecondaryFile(by, date, chain) == <<CertSigned(by, date, L2Key, chain)>> \o chain
SecondaryFiles ==
  {SecondaryFile(by, date, chain) :
     by \in {L1Key, RootKey}, date \in SignDates, chain \in PrimaryFiles \union {<<>>}}

CertFiles == PrimaryFiles \union SecondaryFiles

(* Files are what certgen and sign made of the keys; once a key was joined *)
(* it is the one that signs.                                               *)
FilesInv ==
  /\ cert1 \in PrimaryFiles \union {<<>>}
  /\ cert0 \in SecondaryFiles \union {<<>>}
  /\ file # NoFile =>
       /\ hand # NoKey
       /\ \E cert \in CertFiles, code \in Signable, date \in SignDates :
            /\ file = SignedImage(hand, code, date, cert)
            /\ orderly = Orderly(hand, date, cert)
  /\ slot0 # NoFile =>
       /\ hand # NoKey
       /\ \E cert \in CertFiles, code \in Signable, date \in SignDates :
            slot0 = Flashed(SignedImage(hand, code, date, cert))

(* It holds of an empty vault and is kept by every tool.                   *)
LEMMA FilesInvInit == Init => FilesInv
  BY DEF Init, FilesInv

LEMMA FilesInvNext == FilesInv /\ [Next]_vars => FilesInv'
  <1> SUFFICES ASSUME FilesInv, [Next]_vars PROVE FilesInv'
    OBVIOUS
  <1> USE DEF FilesInv
  <1>1. CASE Keygen
    BY <1>1 DEF Keygen
  <1>2. CASE LoadSplits
    BY <1>2 DEF LoadSplits
  <1>3. CASE CertgenPrimary
    <2>1. cert1' \in PrimaryFiles
      BY <1>3 DEF CertgenPrimary, PrimaryFiles
    <2> QED BY <1>3, <2>1 DEF CertgenPrimary
  <1>4. CASE CertgenSecondary
    <2>1. cert0' \in SecondaryFiles
      <3>1. PICK by \in {L1Key, RootKey}, date \in SignDates, chain \in {cert1, <<>>} :
              cert0' = SecondaryFile(by, date, chain)
        BY <1>4 DEF CertgenSecondary, SecondaryFile
      <3>2. chain \in PrimaryFiles \union {<<>>}
        OBVIOUS
      <3> QED BY <3>1, <3>2 DEF SecondaryFiles
    <2> QED BY <1>4, <2>1 DEF CertgenSecondary
  <1>5. CASE Sign
    <2>1. PICK cert \in {cert0, cert1} \ {<<>>}, code \in Signable, date \in SignDates :
            /\ file' = SignedImage(hand, code, date, cert)
            /\ orderly' = Orderly(hand, date, cert)
      BY <1>5 DEF Sign
    <2>2. cert \in CertFiles
      BY DEF CertFiles
    <2> QED BY <1>5, <2>1, <2>2 DEF Sign
  <1>6. CASE Install
    <2>1. file # NoFile /\ slot0' = Flashed(file) /\ UNCHANGED <<hand, cert1, cert0, file, orderly>>
      BY <1>6 DEF Install
    <2> QED BY <2>1
  <1>7. CASE UNCHANGED vars
    BY <1>7 DEF vars
  <1> QED BY <1>1, <1>2, <1>3, <1>4, <1>5, <1>6, <1>7 DEF Next
-------------------------------------------------------------------------------
(* The checks of apputils.c, one by one *)

(* A certificate passes under the key that signed it, before the chain it  *)
(* was signed with, and no other.                                          *)
LEMMA CertChecked ==
  ASSUME NEW by, NEW date, NEW key, NEW chain, NEW over, NEW pk, NEW ts
  PROVE  LET cert == CertSigned(by, date, key, chain)
         IN /\ cert.date = date /\ cert.key = key /\ cert.sig.by = by
            /\ AppCertValid(cert, over, pk, ts) <=> by = pk /\ chain = over /\ date >= ts
  <1> DEFINE cert == CertSigned(by, date, key, chain)
  <1>1. /\ cert.date = date /\ cert.key = key
        /\ cert.sig = [by |-> by, over |-> [date |-> date, key |-> key, chain |-> chain]]
    BY DEF CertSigned, Signature, CertContent
  <1> HIDE DEF cert
  <1>2. CertContent(cert, over) = [date |-> date, key |-> key, chain |-> over]
    BY <1>1 DEF CertContent
  <1>3. Ed25519Verify(cert.sig, CertContent(cert, over), pk) <=> by = pk /\ chain = over
    BY <1>1, <1>2 DEF Ed25519Verify, Signature
  <1> QED BY <1>1, <1>3 DEF AppCertValid, cert

(* An empty place for a certificate never passes.                          *)
LEMMA NoCertRefused ==
  ASSUME NEW pk \in Keys, NEW over, NEW ts
  PROVE  ~AppCertValid(NoCert, over, pk, ts)
  BY AppImageAssumption DEF AppCertValid, NoCert, NoSig, Signature, Ed25519Verify

(* Code that fits reads back from flash as it was.                         *)
LEMMA FlashedCode ==
  ASSUME NEW code \in Seq(Words), Len(code) <= MaxLen
  PROVE  SubSeq([i \in 1 .. MaxLen |-> IF i <= Len(code) THEN code[i] ELSE Erased], 1, Len(code))
           = code
  <1> DEFINE flash == [i \in 1 .. MaxLen |-> IF i <= Len(code) THEN code[i] ELSE Erased]
             part == SubSeq(flash, 1, Len(code))
  <1>1. flash \in Seq(Words) /\ Len(flash) = MaxLen
    <2>1. \A i \in 1 .. MaxLen : (IF i <= Len(code) THEN code[i] ELSE Erased) \in Words
      BY AppImageAssumption
    <2>2. MaxLen \in Nat
      BY AppImageAssumption
    <2> QED BY <2>1, <2>2
  <1>2. \A i \in 1 .. Len(code) : i \in 1 .. MaxLen /\ flash[i] = code[i]
    BY AppImageAssumption
  <1>3. part \in Seq(Words) /\ Len(part) = Len(code) /\ \A i \in 1 .. Len(code) : part[i] = flash[i]
    <2> HIDE DEF flash
    <2>1. Len(code) \in 0 .. Len(flash)
      BY <1>1
    <2> QED BY <1>1, <2>1
  <1>4. \A i \in 1 .. Len(code) : part[i] = code[i]
    BY <1>2, <1>3
  <1> HIDE DEF part
  <1>5. part = code
    BY <1>3, <1>4, SeqEqual
  <1> QED BY <1>5 DEF part

(* A file in flash is what was signed, with its code in an erased slot.    *)
LEMMA FlashedImage ==
  ASSUME NEW by, NEW code \in Seq(Words), NEW date, NEW cert
  PROVE  LET image == Flashed(SignedImage(by, code, date, cert))
         IN /\ image.length = Len(code) /\ image.date = date /\ image.hash = code
            /\ image.type = What(code).type /\ image.what = What(code)
            /\ image.certs = Certs(cert)
            /\ image.sig = Signature(by, BlockContent(image))
            /\ image.code = [i \in 1 .. MaxLen |-> IF i <= Len(code) THEN code[i] ELSE Erased]
            /\ SignedImage(by, code, date, cert).length = Len(code)
  <1> DEFINE content == [length |-> Len(code), date |-> date, hash |-> code,
                         type |-> What(code).type, what |-> What(code), certs |-> Certs(cert)]
             signed == SignedImage(by, code, date, cert)
             image == Flashed(signed)
  <1>1. signed = [sig |-> Signature(by, content), length |-> Len(code), date |-> date,
                  hash |-> code, type |-> What(code).type, what |-> What(code),
                  certs |-> Certs(cert), code |-> code]
    BY DEF SignedImage, BlockContent
  <1>2. /\ image.length = Len(code) /\ image.date = date /\ image.hash = code
        /\ image.type = What(code).type /\ image.what = What(code)
        /\ image.certs = Certs(cert)
        /\ image.sig = Signature(by, content)
        /\ image.code = [i \in 1 .. MaxLen |-> IF i <= Len(code) THEN code[i] ELSE Erased]
    <2> HIDE DEF signed, content
    <2> QED BY <1>1 DEF Flashed
  <1>3. BlockContent(image) = content
    <2> HIDE DEF image
    <2> QED BY <1>2 DEF BlockContent
  <1>4. signed.length = Len(code)
    <2> HIDE DEF signed, content
    <2> QED BY <1>1
  <1> QED BY <1>2, <1>3, <1>4

(* The checks of an image but for its certificates.                        *)
BodyPass(image, pk, ts) ==
  /\ Ed25519Verify(image.sig, BlockContent(image), pk)
  /\ AppVerifyEmpty(image) /\ AppVerifyHash(image) /\ image.what # NoWhat
  /\ image.type < APP_TYPE_ERROR /\ image.date >= ts

(* They pass under the key that signed, if the code fits the slot.         *)
LEMMA BodyChecked ==
  ASSUME NEW by, NEW code \in Signable, NEW date, NEW cert, NEW signed, NEW image,
         signed = SignedImage(by, code, date, cert), image = Flashed(signed)
  PROVE  /\ image.certs = Certs(cert)
         /\ \A pk, ts : BodyPass(image, pk, ts)
                          <=> by = pk /\ date >= ts /\ signed.length <= MaxLen
  <1>1. /\ code \in Seq(Words) /\ Len(code) \in Nat /\ MaxLen \in Nat
        /\ What(code) # NoWhat /\ What(code).type < APP_TYPE_ERROR
    BY SigningAssumption, AppImageAssumption DEF Signable, Versioned, Types, APP_TYPE_ERROR
  <1>2. /\ image.length = Len(code) /\ image.date = date /\ image.hash = code
        /\ image.type = What(code).type /\ image.what = What(code)
        /\ image.sig = Signature(by, BlockContent(image)) /\ image.certs = Certs(cert)
        /\ image.code = [i \in 1 .. MaxLen |-> IF i <= Len(code) THEN code[i] ELSE Erased]
        /\ signed.length = Len(code)
    BY <1>1, FlashedImage
  <1>3. \A pk : Ed25519Verify(image.sig, BlockContent(image), pk) <=> by = pk
    BY <1>2 DEF Ed25519Verify, Signature
  <1>4. AppVerifyEmpty(image) <=> Len(code) <= MaxLen
    <2>1. \A i \in Len(code) + 1 .. MaxLen : i \in 1 .. MaxLen /\ ~(i <= Len(code))
      BY <1>1
    <2> QED BY <1>2, <2>1 DEF AppVerifyEmpty
  <1>5. Len(code) <= MaxLen => AppVerifyHash(image)
    BY <1>1, <1>2, FlashedCode DEF AppVerifyHash
  <1>6. image.type < APP_TYPE_ERROR /\ image.what # NoWhat
    BY <1>1, <1>2
  <1> QED BY <1>2, <1>3, <1>4, <1>5, <1>6 DEF BodyPass

(* Of the files of certgen only one with its chain passes, signed by the   *)
(* keys above and dated in order.                                          *)
CertsPass(certs) ==
  /\ AppCertValid(certs.primary, <<>>, RootKey, ROOT_CODE_PK_DATE)
  /\ AppCertValid(certs.secondary, <<certs.primary>>, certs.primary.key, certs.primary.date)

(* An erased key is none of those that certificates are for.               *)
LEMMA KeysDiffer == {L1Key, L2Key} \subseteq Keys /\ NoKey \notin {L1Key, L2Key}
  BY SigningAssumption, AppImageAssumption

(* They pass exactly when the history says that they were in order.        *)
LEMMA CertsChecked ==
  ASSUME NEW cert \in CertFiles, NEW by, NEW date
  PROVE  Orderly(by, date, cert) <=>
           /\ CertsPass(Certs(cert))
           /\ by = Certs(cert).secondary.key /\ date >= Certs(cert).secondary.date
  <1>1. ASSUME NEW c, c.key \in {L1Key, L2Key}, cert = <<c>>
        PROVE  ~Orderly(by, date, cert) /\ ~CertsPass(Certs(cert))
    <2>1. Len(cert) = 1 /\ cert[1] = c
      BY <1>1
    <2>2. Certs(cert) = [primary |-> c, secondary |-> NoCert]
      BY <2>1 DEF Certs
    <2>3. ~CertsPass(Certs(cert))
      BY <1>1, <2>2, KeysDiffer, NoCertRefused DEF CertsPass
    <2> QED BY <2>1, <2>3 DEF Orderly
  <1>2. ASSUME cert \in PrimaryFiles
        PROVE  \E b \in {RootKey, L1Key}, d \in SignDates : cert = <<CertSigned(b, d, L1Key, <<>>)>>
    BY <1>2 DEF PrimaryFiles
  <1>3. CASE cert \in PrimaryFiles
    <2>1. PICK b, d : cert = <<CertSigned(b, d, L1Key, <<>>)>>
      BY <1>2, <1>3
    <2> QED BY <1>1, <2>1, CertChecked
  <1>4. CASE cert \in SecondaryFiles
    <2>1. PICK b \in {L1Key, RootKey}, d \in SignDates, chain \in PrimaryFiles \union {<<>>} :
            cert = SecondaryFile(b, d, chain)
      BY <1>4 DEF SecondaryFiles
    <2> DEFINE c0 == CertSigned(b, d, L2Key, chain)
    <2>2. CASE chain = <<>>
      <3>1. cert = <<c0>>
        BY <2>1, <2>2 DEF SecondaryFile
      <3>2. c0.key = L2Key
        BY CertChecked
      <3> HIDE DEF c0
      <3> QED BY <1>1, <3>1, <3>2
    <2>3. CASE chain \in PrimaryFiles
      <3>1. PICK b1 \in {RootKey, L1Key}, d1 \in SignDates :
              chain = <<CertSigned(b1, d1, L1Key, <<>>)>>
        BY <2>3 DEF PrimaryFiles
      <3> DEFINE c1 == CertSigned(b1, d1, L1Key, <<>>)
      <3>2. cert = <<c0, c1>> /\ chain = <<c1>>
        <4> HIDE DEF c0, c1
        <4>1. cert = <<c0>> \o <<c1>>
          BY <2>1, <3>1 DEF SecondaryFile, c0, c1
        <4>2. <<c0>> \o <<c1>> = <<c0, c1>>
          <5>1. /\ <<c0>> \in Seq({c0, c1}) /\ <<c1>> \in Seq({c0, c1})
                /\ <<c0, c1>> \in Seq({c0, c1})
            OBVIOUS
          <5>2. /\ <<c0>> \o <<c1>> \in Seq({c0, c1}) /\ Len(<<c0>> \o <<c1>>) = 2
                /\ (<<c0>> \o <<c1>>)[1] = c0 /\ (<<c0>> \o <<c1>>)[2] = c1
            BY <5>1
          <5>3. \A i \in 1 .. 2 : (<<c0>> \o <<c1>>)[i] = <<c0, c1>>[i]
            BY <5>2
          <5> QED BY <5>1, <5>2, <5>3, SeqEqual
        <4> QED BY <3>1, <4>1, <4>2 DEF c1
      <3>3. /\ c1.key = L1Key /\ c1.date = d1 /\ c1.sig.by = b1
            /\ AppCertValid(c1, <<>>, RootKey, ROOT_CODE_PK_DATE)
                 <=> b1 = RootKey /\ d1 >= ROOT_CODE_PK_DATE
        BY CertChecked
      <3>4. /\ c0.key = L2Key /\ c0.date = d /\ c0.sig.by = b
            /\ AppCertValid(c0, <<c1>>, L1Key, d1) <=> b = L1Key /\ chain = <<c1>> /\ d >= d1
        <4> HIDE DEF c1
        <4> QED BY CertChecked
      <3> HIDE DEF c0, c1
      <3>5. /\ Len(cert) = 2 /\ cert[1] = c0 /\ cert[2] = c1
            /\ Certs(cert) = [primary |-> c1, secondary |-> c0]
        BY <3>2 DEF Certs
      <3>6. d1 >= ROOT_CODE_PK_DATE
        BY AppImageAssumption DEF SignDates, ROOT_CODE_PK_DATE
      <3>7. CertsPass(Certs(cert)) <=> b1 = RootKey /\ b = L1Key /\ d >= d1
        BY <3>2, <3>3, <3>4, <3>5, <3>6 DEF CertsPass
      <3>8. Orderly(by, date, cert)
              <=> b1 = RootKey /\ b = L1Key /\ d >= d1 /\ by = L2Key /\ date >= d
        BY <3>3, <3>4, <3>5 DEF Orderly
      <3> QED BY <3>4, <3>5, <3>7, <3>8
    <2> QED BY <2>2, <2>3
  <1> QED BY <1>3, <1>4 DEF CertFiles

(* Whatever certificates, keys and dates were used, in whatever order:     *)
(* what was signed by L2Key with both certificates, each signed by the key *)
(* above it and dated in order, and fits the slot, is accepted by          *)
(* app_image_valid(), and nothing else that sbl.py can be made to sign.    *)
THEOREM AcceptsWhatIsOrderly == Spec => []AcceptedIffOrderly
  <1>1. Spec => []FilesInv
    BY FilesInvInit, FilesInvNext, PTL DEF Spec
  <1>2. FilesInv => AcceptedIffOrderly
    <2> SUFFICES ASSUME FilesInv, file # NoFile
                 PROVE  AppImageValid(Flashed(file)) <=> orderly /\ file.length <= MaxLen
      BY DEF AcceptedIffOrderly
    <2>1. PICK cert \in CertFiles, code \in Signable, date \in SignDates :
            /\ file = SignedImage(hand, code, date, cert)
            /\ orderly = Orderly(hand, date, cert)
      BY DEF FilesInv
    <2> DEFINE image == Flashed(file)
               secondary == Certs(cert).secondary
    <2>2. /\ image.certs = Certs(cert)
          /\ BodyPass(image, secondary.key, secondary.date)
               <=> /\ hand = secondary.key /\ date >= secondary.date
                   /\ file.length <= MaxLen
      BY <2>1, BodyChecked
    <2>3. orderly <=> /\ CertsPass(Certs(cert))
                      /\ hand = secondary.key /\ date >= secondary.date
      BY <2>1, CertsChecked
    <2> HIDE DEF image
    <2>4. AppImageValid(image) <=>
            CertsPass(image.certs)
            /\ BodyPass(image, image.certs.secondary.key, image.certs.secondary.date)
      BY DEF AppImageValid, CertsPass, BodyPass
    <2> QED BY <2>2, <2>3, <2>4 DEF image
  <1> QED BY <1>1, <1>2, PTL
-------------------------------------------------------------------------------
(* What a valid image binds *)

(* Both signed and both valid under the same signature: the same block.    *)
LEMMA SignatureBinds ==
  ASSUME NEW image, NEW other, AppImageValid(image), AppImageValid(other),
         image.sig = other.sig
  PROVE  /\ image.length = other.length /\ image.date = other.date
         /\ image.hash = other.hash /\ image.type = other.type
         /\ image.what = other.what /\ image.certs = other.certs
  <1>1. BlockContent(image) = BlockContent(other)
    BY DEF AppImageValid, Ed25519Verify, Signature
  <1> QED BY <1>1 DEF BlockContent

(* And the words of the slot, those behind the code included.              *)
LEMMA HashBinds ==
  ASSUME NEW image, AppImageValid(image), image.code \in [1 .. MaxLen -> Words],
         image.length \in Nat
  PROVE  \A i \in 1 .. MaxLen :
           image.code[i] = IF i <= image.length THEN image.hash[i] ELSE Erased
  <1>1. /\ image.length <= MaxLen
        /\ \A i \in image.length + 1 .. MaxLen : image.code[i] = Erased
        /\ image.hash = SubSeq(image.code, 1, image.length)
    BY DEF AppImageValid, AppVerifyEmpty, AppVerifyHash
  <1>2. MaxLen \in Nat
    BY AppImageAssumption
  <1> DEFINE code == image.code
             n == image.length
  <1>3. code \in Seq(Words) /\ Len(code) = MaxLen
    BY <1>2
  <1> SUFFICES ASSUME NEW i \in 1 .. MaxLen
               PROVE  code[i] = IF i <= n THEN image.hash[i] ELSE Erased
    OBVIOUS
  <1>4. CASE i <= n
    <2>1. n \in 0 .. Len(code) /\ i \in 1 .. n
      BY <1>1, <1>2, <1>3, <1>4
    <2> HIDE DEF code, n
    <2>2. SubSeq(code, 1, n)[i] = code[i]
      BY <1>3, <2>1
    <2> QED BY <1>1, <1>4, <2>2 DEF code, n
  <1>5. CASE ~(i <= n)
    <2>1. i \in n + 1 .. MaxLen
      BY <1>2, <1>5
    <2> QED BY <1>1, <1>5, <2>1
  <1> QED BY <1>4, <1>5

(* A slot as it is read back.                                              *)
IsImage(image) ==
  /\ image = [sig |-> image.sig, length |-> image.length, date |-> image.date,
              hash |-> image.hash, type |-> image.type, what |-> image.what,
              certs |-> image.certs, code |-> image.code]
  /\ image.length \in Nat /\ image.code \in [1 .. MaxLen -> Words]

(* So of all that Altered can do to a valid image nothing is left.         *)
LEMMA OneChange ==
  ASSUME NEW image, IsImage(image),
         AppImageValid(image), NEW other \in Altered(image), AppImageValid(other)
  PROVE  other = image
  <1> DEFINE sig == image.sig
             length == image.length
             date == image.date
             hash == image.hash
             type == image.type
             what == image.what
             certs == image.certs
             code == image.code
  <1>0. /\ image = [sig |-> sig, length |-> length, date |-> date, hash |-> hash,
                    type |-> type, what |-> what, certs |-> certs, code |-> code]
        /\ length \in Nat /\ code \in [1 .. MaxLen -> Words]
    BY DEF IsImage
  <1> HIDE DEF sig, length, date, hash, type, what, certs, code
  <1>1. CASE \E i \in DOMAIN image.code, w \in Words : other = [image EXCEPT !.code[i] = w]
    <2>1. PICK i \in 1 .. MaxLen, w \in Words : other = [image EXCEPT !.code[i] = w]
      BY <1>0, <1>1
    <2>2. /\ other = [image EXCEPT !.code = [code EXCEPT ![i] = w]]
          /\ other.code = [code EXCEPT ![i] = w]
          /\ other.length = length /\ other.hash = hash /\ image.length = length
          /\ image.hash = hash /\ image.code = code
      BY <1>0, <2>1
    <2>3. other.code \in [1 .. MaxLen -> Words] /\ other.code[i] = w
      BY <1>0, <2>2
    <2>4. other.code[i] = IF i <= length THEN hash[i] ELSE Erased
      <3>1. other.length \in Nat
        BY <1>0, <2>2
      <3>2. other.code[i] = IF i <= other.length THEN other.hash[i] ELSE Erased
        BY <2>3, <3>1, HashBinds
      <3> QED BY <2>2, <3>2
    <2>5. code[i] = IF i <= length THEN hash[i] ELSE Erased
      <3>1. image.code[i] = IF i <= image.length THEN image.hash[i] ELSE Erased
        BY <1>0, <2>2, HashBinds
      <3> QED BY <2>2, <3>1
    <2>6. [code EXCEPT ![i] = w] = code
      BY <1>0, <2>3, <2>4, <2>5
    <2> QED BY <1>0, <2>2, <2>6
  <1>2. ASSUME other.sig = image.sig
        PROVE  /\ other.length = length /\ other.date = date /\ other.hash = hash
               /\ other.type = type /\ other.what = what /\ other.certs = certs
    BY <1>0, <1>2, SignatureBinds
  <1>3. CASE \E n \in 0 .. MaxLen + 1 : other = [image EXCEPT !.length = n]
    BY <1>0, <1>2, <1>3
  <1>4. CASE \E d \in Dates : other = [image EXCEPT !.date = d]
    BY <1>0, <1>2, <1>4
  <1>5. CASE \E t \in Types : other = [image EXCEPT !.type = t]
    BY <1>0, <1>2, <1>5
  <1>6. CASE \E x \in Codes : other = [image EXCEPT !.hash = x]
    BY <1>0, <1>2, <1>6
  <1>11. CASE \E x : other = [image EXCEPT !.what = x]
    BY <1>0, <1>2, <1>11
  <1>7. CASE \E c : other = [image EXCEPT !.certs = c]
    BY <1>0, <1>2, <1>7
  <1>8. CASE other = [image EXCEPT !.sig = NoSig]
    <2>1. /\ image.sig = Signature(image.certs.secondary.key, BlockContent(image))
          /\ other.sig = Signature(other.certs.secondary.key, BlockContent(other))
      BY DEF AppImageValid, Ed25519Verify
    <2>2. other.certs = image.certs /\ BlockContent(other) = BlockContent(image)
      BY <1>0, <1>8 DEF BlockContent
    <2>3. other.sig = sig
      BY <1>0, <2>1, <2>2
    <2> QED BY <1>0, <1>8, <2>3
  <1>9. ASSUME NEW d PROVE /\ [image EXCEPT !.certs.primary.date = d]
                                = [image EXCEPT !.certs = [certs EXCEPT !.primary.date = d]]
                           /\ [image EXCEPT !.certs.secondary.date = d]
                                = [image EXCEPT !.certs = [certs EXCEPT !.secondary.date = d]]
                           /\ [image EXCEPT !.certs.secondary.key = d]
                                = [image EXCEPT !.certs = [certs EXCEPT !.secondary.key = d]]
    BY <1>0
  <1>10. CASE \E d : \/ other = [image EXCEPT !.certs.primary.date = d]
                     \/ other = [image EXCEPT !.certs.secondary.date = d]
                     \/ other = [image EXCEPT !.certs.secondary.key = d]
    BY <1>7, <1>9, <1>10
  <1> QED BY <1>1, <1>3, <1>4, <1>5, <1>6, <1>7, <1>8, <1>10, <1>11 DEF Altered

(* In every state, no one change to a signed or installed image that the   *)
(* boot loader accepts leaves it acceptable: neither of a word, behind the *)
(* code or in it, nor of a field, nor of the certificates for others.      *)
THEOREM AlteredIsRefused == Spec => []DamageRefused
  <1>1. Spec => []FilesInv
    BY FilesInvInit, FilesInvNext, PTL DEF Spec
  <1>2. ASSUME NEW by, NEW code \in Signable, NEW date, NEW cert, NEW image,
               image = Flashed(SignedImage(by, code, date, cert)),
               AppImageValid(image), NEW other \in Altered(image), AppImageValid(other)
        PROVE  other = image
    <2> DEFINE flash == [i \in 1 .. MaxLen |-> IF i <= Len(code) THEN code[i] ELSE Erased]
               signed == SignedImage(by, code, date, cert)
               sig == signed.sig
    <2>1. code \in Seq(Words) /\ Len(code) \in Nat
      BY SigningAssumption DEF Signable
    <2>2. flash \in [1 .. MaxLen -> Words]
      BY <2>1, AppImageAssumption
    <2>3. signed = [sig |-> sig, length |-> Len(code), date |-> date, hash |-> code,
                    type |-> What(code).type, what |-> What(code), certs |-> Certs(cert),
                    code |-> code]
      BY DEF SignedImage
    <2>4. image = [sig |-> sig, length |-> Len(code), date |-> date, hash |-> code,
                   type |-> What(code).type, what |-> What(code), certs |-> Certs(cert),
                   code |-> flash]
      <3>1. image = Flashed(signed)
        BY <1>2
      <3> HIDE DEF signed, sig
      <3> QED BY <2>3, <3>1 DEF Flashed
    <2> HIDE DEF flash, sig
    <2>5. IsImage(image)
      BY <2>1, <2>2, <2>4 DEF IsImage
    <2> QED BY <1>2, <2>5, OneChange
  <1>3. FilesInv => DamageRefused
    <2> SUFFICES ASSUME FilesInv,
                        NEW image \in {Flashed(f) : f \in {file} \ {NoFile}}
                                        \union ({slot0} \ {NoFile}),
                        AppImageValid(image), NEW other \in Altered(image), AppImageValid(other)
                 PROVE  other = image
      BY DEF DamageRefused
    <2>1. PICK cert \in CertFiles, code \in Signable, date \in SignDates :
            image = Flashed(SignedImage(hand, code, date, cert))
      BY DEF FilesInv
    <2> QED BY <1>2, <2>1
  <1> QED BY <1>1, <1>3, PTL
-------------------------------------------------------------------------------
(* The tool and the boot loader *)

(* A file as sbl.py reads it, damaged or not: numbers are numbers.         *)
IsCert(c) == c = [sig |-> c.sig, date |-> c.date, key |-> c.key] /\ c.date \in Int
IsCerts(x) ==
  /\ x = [primary |-> x.primary, secondary |-> x.secondary]
  /\ IsCert(x.primary) /\ IsCert(x.secondary)
IsFile(f) ==
  /\ f = [sig |-> f.sig, length |-> f.length, date |-> f.date, hash |-> f.hash,
          type |-> f.type, what |-> f.what, certs |-> f.certs, code |-> f.code]
  /\ f.code \in Seq(Words) /\ f.type \in Types /\ f.date \in Int
  /\ IsCerts(f.certs)

(* What is signed with the hash of a code is its text, and one that the    *)
(* block has room for.                                                     *)
WhatTold(f) ==
  \A pk : Ed25519Verify(f.sig, BlockContent(f), pk) =>
            Versioned(f.hash) /\ f.what = What(f.hash)

(* So are the certificates that one may be altered with.                   *)
CertOfFiles ==
  \A cert \in {cert1, cert0} \ {<<>>} : IsCerts(Certs(cert))

(* Of any such file that ends where it says, both say the same.            *)
LEMMA SameVerdict ==
  ASSUME NEW f, IsFile(f), WhatTold(f), Len(f.code) = f.length
  PROVE  Verify(f) /\ f.length <= MaxLen <=> AppImageValid(Flashed(f))
  <1> DEFINE flash == [i \in 1 .. MaxLen |-> IF i <= Len(f.code) THEN f.code[i] ELSE Erased]
             image == Flashed(f)
  <1>1. /\ image.sig = f.sig /\ image.length = f.length /\ image.date = f.date
        /\ image.hash = f.hash /\ image.type = f.type /\ image.what = f.what
        /\ image.certs = f.certs
        /\ image.code = flash
    <2> HIDE DEF flash
    <2> DEFINE a == f.sig
               b == f.length
               c == f.date
               d == f.hash
               e == f.type
               t == f.what
               g == f.certs
               h == f.code
    <2>1. f = [sig |-> a, length |-> b, date |-> c, hash |-> d, type |-> e, what |-> t,
               certs |-> g, code |-> h]
      BY DEF IsFile
    <2>2. image = [f EXCEPT !.code = flash]
      BY DEF Flashed, flash
    <2> HIDE DEF a, b, c, d, e, t, g, h, image
    <2>3. image = [sig |-> a, length |-> b, date |-> c, hash |-> d, type |-> e, what |-> t,
                   certs |-> g, code |-> flash]
      BY <2>1, <2>2
    <2>4. /\ image.sig = a /\ image.length = b /\ image.date = c /\ image.hash = d
          /\ image.type = e /\ image.what = t /\ image.certs = g /\ image.code = flash
      BY <2>3
    <2> QED BY <2>4 DEF a, b, c, d, e, t, g, h
  <1> HIDE DEF image
  <1>2. /\ f.code \in Seq(Words) /\ Len(f.code) \in Nat /\ MaxLen \in Nat
    BY AppImageAssumption DEF IsFile
  <1>3. AppVerifyEmpty(image) <=> f.length <= MaxLen
    <2>1. \A i \in f.length + 1 .. MaxLen : i \in 1 .. MaxLen /\ ~(i <= Len(f.code))
      BY <1>2
    <2> QED BY <1>1, <2>1 DEF AppVerifyEmpty
  <1>4. f.length <= MaxLen => (AppVerifyHash(image) <=> f.code = f.hash)
    BY <1>1, <1>2, FlashedCode DEF AppVerifyHash
  <1>5. \A cert, chain, pk, ts : cert.date \in Int /\ ts \in Int =>
          (VerifyCert(cert, chain, pk, ts) <=> AppCertValid(cert, chain, pk, ts))
    BY DEF VerifyCert, AppCertValid
  <1>6. /\ VerifyCert(f.certs.primary, <<>>, RootKey, 0)
             <=> AppCertValid(image.certs.primary, <<>>, RootKey, ROOT_CODE_PK_DATE)
        /\ VerifyCert(f.certs.secondary, <<f.certs.primary>>, f.certs.primary.key,
                      f.certs.primary.date)
             <=> AppCertValid(image.certs.secondary, <<image.certs.primary>>,
                              image.certs.primary.key, image.certs.primary.date)
    BY <1>1, <1>5 DEF IsFile, IsCerts, IsCert, ROOT_CODE_PK_DATE
  <1>7. BlockContent(image) = BlockContent(f)
    BY <1>1 DEF BlockContent
  <1>8. (~(f.certs.secondary.date > f.date) <=> image.date >= image.certs.secondary.date)
        /\ (f.type \in 0 .. 2 <=> image.type < APP_TYPE_ERROR)
    BY <1>1 DEF IsFile, IsCerts, IsCert, Types, APP_TYPE_ERROR
  <1>9. /\ Ed25519Verify(f.sig, BlockContent(f), f.certs.secondary.key) =>
              image.what # NoWhat /\ Versioned(f.hash) /\ f.what = What(f.hash)
        /\ Ed25519Verify(image.sig, BlockContent(image), image.certs.secondary.key)
             <=> Ed25519Verify(f.sig, BlockContent(f), f.certs.secondary.key)
    BY <1>1, <1>7 DEF WhatTold, Versioned
  <1>10. f.code = f.hash => /\ Versioned(f.code) <=> Versioned(f.hash)
                            /\ What(f.code) = What(f.hash)
    OBVIOUS
  <1>11. Verify(f) /\ f.length <= MaxLen <=> AppImageValid(image)
    <2>1. AppImageValid(image) => Verify(f) /\ f.length <= MaxLen
      BY <1>1, <1>3, <1>4, <1>6, <1>8, <1>9, <1>10 DEF Verify, AppImageValid
    <2>2. Verify(f) /\ f.length <= MaxLen => AppImageValid(image)
      BY <1>1, <1>3, <1>4, <1>6, <1>8, <1>9 DEF Verify, AppImageValid
    <2> QED BY <2>1, <2>2
  <1> QED BY <1>11 DEF image

(* The certificates that certgen makes are such certificates.              *)
LEMMA CertgenCerts ==
  ASSUME NEW cert \in CertFiles
  PROVE  IsCerts(Certs(cert))
  <1>1. IsCert(NoCert)
    BY AppImageAssumption DEF NoCert, IsCert
  <1>2. ASSUME NEW b, NEW d \in SignDates, NEW key, NEW chain
        PROVE  IsCert(CertSigned(b, d, key, chain))
    <2>1. d \in Int
      BY AppImageAssumption DEF SignDates
    <2>2. CertSigned(b, d, key, chain)
            = [sig |-> CertSigned(b, d, key, chain).sig, date |-> d, key |-> key]
      BY DEF CertSigned
    <2> HIDE DEF CertSigned
    <2> QED BY <2>1, <2>2 DEF IsCert
  <1>3. ASSUME NEW c, IsCert(c), cert = <<c>>
        PROVE  IsCerts(Certs(cert))
    <2>1. Certs(cert) = [primary |-> c, secondary |-> NoCert]
      BY <1>3 DEF Certs
    <2> QED BY <1>1, <1>3, <2>1 DEF IsCerts
  <1>4. ASSUME NEW c0, NEW c1, IsCert(c0), IsCert(c1), cert = <<c0>> \o <<c1>>
        PROVE  IsCerts(Certs(cert))
    <2>1. <<c0>> \in Seq({c0, c1}) /\ <<c1>> \in Seq({c0, c1})
      OBVIOUS
    <2>2. Len(cert) = 2 /\ cert[1] = c0 /\ cert[2] = c1 /\ cert \in Seq({c0, c1})
      BY <1>4, <2>1
    <2>3. Certs(cert) = [primary |-> c1, secondary |-> c0]
      BY <2>2 DEF Certs
    <2>4. IsCert(c0) /\ IsCert(c1)
      BY <1>4
    <2> QED BY <2>3, <2>4 DEF IsCerts
  <1>5. ASSUME NEW c \in PrimaryFiles PROVE \E x : IsCert(x) /\ c = <<x>>
    <2>1. PICK b \in {RootKey, L1Key}, d \in SignDates : c = <<CertSigned(b, d, L1Key, <<>>)>>
      BY <1>5 DEF PrimaryFiles
    <2> QED BY <1>2, <2>1
  <1>6. CASE cert \in PrimaryFiles
    BY <1>3, <1>5, <1>6
  <1>7. CASE cert \in SecondaryFiles
    <2>1. PICK b \in {L1Key, RootKey}, d \in SignDates,
              chain \in PrimaryFiles \union {<<>>} :
            cert = SecondaryFile(b, d, chain)
      BY <1>7 DEF SecondaryFiles
    <2> DEFINE c0 == CertSigned(b, d, L2Key, chain)
    <2>2. IsCert(c0)
      BY <1>2
    <2>3. cert = <<c0>> \o chain
      BY <2>1 DEF SecondaryFile
    <2> HIDE DEF c0
    <2>4. CASE chain = <<>>
      <3>1. cert = <<c0>>
        BY <2>3, <2>4
      <3> QED BY <1>3, <2>2, <3>1
    <2>5. CASE chain \in PrimaryFiles
      BY <1>4, <1>5, <2>2, <2>3, <2>5
    <2> QED BY <2>4, <2>5
  <1> QED BY <1>6, <1>7 DEF CertFiles

(* One change leaves a file one that sbl.py reads, if the certificates     *)
(* exchanged are some of its own.                                          *)
LEMMA AlteredIsFile ==
  ASSUME NEW f, IsFile(f), NEW other \in Altered(f), CertOfFiles
  PROVE  IsFile(other) /\ other.sig \in {f.sig, NoSig}
  <1> DEFINE a == f.sig
             b == f.length
             c == f.date
             d == f.hash
             e == f.type
             v == f.what
             g == f.certs
             h == f.code
  <1>0. /\ f = [sig |-> a, length |-> b, date |-> c, hash |-> d, type |-> e, what |-> v,
                certs |-> g, code |-> h]
        /\ h \in Seq(Words) /\ e \in Types /\ c \in Int /\ IsCerts(g)
        /\ f.code = h /\ f.certs = g
    BY DEF IsFile
  <1> HIDE DEF a, b, c, d, e, v, g, h
  <1>1. \A x \in Dates : x \in Int
    BY AppImageAssumption DEF Dates
  <1>2. CASE \E i \in DOMAIN f.code, w \in Words : other = [f EXCEPT !.code[i] = w]
    <2>1. PICK i \in DOMAIN h, w \in Words : other = [f EXCEPT !.code = [h EXCEPT ![i] = w]]
      <3>1. PICK i \in DOMAIN f.code, w \in Words : other = [f EXCEPT !.code[i] = w]
        BY <1>2
      <3>2. [f EXCEPT !.code[i] = w] = [f EXCEPT !.code = [f.code EXCEPT ![i] = w]]
        BY <1>0
      <3> QED BY <1>0, <3>1, <3>2
    <2>2. [h EXCEPT ![i] = w] \in Seq(Words)
      BY <1>0
    <2> QED BY <1>0, <2>1, <2>2 DEF IsFile
  <1>3. CASE \E n \in 0 .. MaxLen + 1 : other = [f EXCEPT !.length = n]
    BY <1>0, <1>3 DEF IsFile
  <1>4. CASE \E x \in Dates : other = [f EXCEPT !.date = x]
    BY <1>0, <1>1, <1>4 DEF IsFile
  <1>5. CASE \E t \in Types : other = [f EXCEPT !.type = t]
    BY <1>0, <1>5 DEF IsFile
  <1>6. CASE \E x \in Codes : other = [f EXCEPT !.hash = x]
    BY <1>0, <1>6 DEF IsFile
  <1>16. CASE \E x : other = [f EXCEPT !.what = x]
    BY <1>0, <1>16 DEF IsFile
  <1>7. ASSUME NEW x, other = [f EXCEPT !.certs = x], IsCerts(x)
        PROVE  IsFile(other) /\ other.sig \in {f.sig, NoSig}
    BY <1>0, <1>7 DEF IsFile
  <1>8. CASE \E cert \in {cert1, cert0} \ {<<>>} : other = [f EXCEPT !.certs = Certs(cert)]
    BY <1>7, <1>8 DEF CertOfFiles
  <1>9. CASE other = [f EXCEPT !.sig = NoSig]
    BY <1>0, <1>9 DEF IsFile
  <1>10. /\ g = [primary |-> g.primary, secondary |-> g.secondary]
         /\ IsCert(g.primary) /\ IsCert(g.secondary)
    BY <1>0 DEF IsCerts
  <1>11. ASSUME NEW cert, NEW x, IsCert(cert)
         PROVE  /\ x \in Int => IsCert([cert EXCEPT !.date = x])
                /\ IsCert([cert EXCEPT !.key = x])
    <2> DEFINE s == cert.sig
               y == cert.date
               k == cert.key
    <2>1. cert = [sig |-> s, date |-> y, key |-> k] /\ y \in Int
      BY <1>11 DEF IsCert
    <2> HIDE DEF s, y, k
    <2> QED BY <2>1 DEF IsCert
  <1>12. ASSUME NEW cert, IsCert(cert)
         PROVE  IsCerts([g EXCEPT !.primary = cert]) /\ IsCerts([g EXCEPT !.secondary = cert])
    <2> DEFINE p == g.primary
               s == g.secondary
    <2>1. g = [primary |-> p, secondary |-> s] /\ IsCert(p) /\ IsCert(s)
      BY <1>10
    <2> HIDE DEF p, s
    <2> QED BY <1>12, <2>1 DEF IsCerts
  <1>13. CASE \E x \in Dates : other = [f EXCEPT !.certs.primary.date = x]
    <2>1. PICK x \in Dates : other = [f EXCEPT !.certs =
                                        [g EXCEPT !.primary = [g.primary EXCEPT !.date = x]]]
      BY <1>0, <1>13
    <2> QED BY <1>1, <1>7, <1>10, <1>11, <1>12, <2>1
  <1>14. CASE \E x \in Dates : other = [f EXCEPT !.certs.secondary.date = x]
    <2>1. PICK x \in Dates : other = [f EXCEPT !.certs =
                                        [g EXCEPT !.secondary = [g.secondary EXCEPT !.date = x]]]
      BY <1>0, <1>14
    <2> QED BY <1>1, <1>7, <1>10, <1>11, <1>12, <2>1
  <1>15. CASE other = [f EXCEPT !.certs.secondary.key = hand]
    <2>1. other = [f EXCEPT !.certs =
                     [g EXCEPT !.secondary = [g.secondary EXCEPT !.key = hand]]]
      BY <1>0, <1>15
    <2> QED BY <1>7, <1>10, <1>11, <1>12, <2>1
  <1> QED
    BY <1>2, <1>3, <1>4, <1>5, <1>6, <1>8, <1>9, <1>13, <1>14, <1>15, <1>16 DEF Altered

(* A signature of sign tells the text of the code, an erased one nothing.  *)
LEMMA SignedTells ==
  ASSUME NEW by, NEW code \in Signable, NEW date, NEW cert,
         NEW f, f.sig \in {SignedImage(by, code, date, cert).sig, NoSig}
  PROVE  WhatTold(f)
  <1> DEFINE content == [length |-> Len(code), date |-> date, hash |-> code,
                         type |-> What(code).type, what |-> What(code), certs |-> Certs(cert)]
  <1>1. SignedImage(by, code, date, cert).sig = Signature(by, content)
    BY DEF SignedImage, BlockContent
  <1> SUFFICES ASSUME NEW pk, f.sig = Signature(pk, BlockContent(f))
               PROVE  Versioned(f.hash) /\ f.what = What(f.hash)
    BY DEF WhatTold, Ed25519Verify
  <1>2. f.sig # NoSig
    <2>1. NoSig.over = [erased |-> TRUE] /\ f.sig.over = BlockContent(f)
      BY DEF NoSig, Signature
    <2>2. DOMAIN [erased |-> TRUE] # DOMAIN BlockContent(f)
      BY DEF BlockContent
    <2> QED BY <2>1, <2>2
  <1>3. BlockContent(f) = content
    <2>1. Signature(pk, BlockContent(f)).over = Signature(by, content).over
      BY <1>1, <1>2
    <2> QED BY <2>1 DEF Signature
  <1>4. f.hash = code /\ f.what = What(code)
    <2>1. BlockContent(f).hash = content.hash /\ BlockContent(f).what = content.what
      BY <1>3
    <2> QED BY <2>1 DEF BlockContent
  <1> QED BY <1>4 DEF Signable

(* Of every file that sbl.py was made to sign, and of one that was altered *)
(* or has a word too many, sbl.py verify and the boot loader say the same, *)
(* but for the length of a slot and for words after the end that look      *)
(* erased.                                                                 *)
THEOREM ToolAgreesWithLoader == Spec => []ToolAgrees
  <1>1. Spec => []FilesInv
    BY FilesInvInit, FilesInvNext, PTL DEF Spec
  <1>2. FilesInv => ToolAgrees
    <2> SUFFICES ASSUME FilesInv, file # NoFile,
                        NEW f \in Altered(file)
                                  \union {[file EXCEPT !.code = Append(@, w)] : w \in Words}
                 PROVE  /\ Len(f.code) = f.length =>
                             (Verify(f) /\ f.length <= MaxLen <=> AppImageValid(Flashed(f)))
                        /\ Verify(f) => Len(f.code) = f.length
      BY DEF ToolAgrees
    <2>1. PICK cert \in CertFiles, code \in Signable, date \in SignDates :
            file = SignedImage(hand, code, date, cert)
      BY DEF FilesInv
    <2>2. IsFile(file)
      <3> DEFINE type == What(code).type
                 what == What(code)
                 certs == Certs(cert)
                 sig == SignedImage(hand, code, date, cert).sig
      <3>1. code \in Seq(Words) /\ type \in Types /\ date \in Int
        BY SigningAssumption, AppImageAssumption DEF Signable, SignDates
      <3>2. IsCerts(certs)
        BY CertgenCerts
      <3>3. file = [sig |-> sig, length |-> Len(code), date |-> date, hash |-> code,
                    type |-> type, what |-> what, certs |-> certs, code |-> code]
        <4>1. file = SignedImage(hand, code, date, cert)
          BY <2>1
        <4>2. SignedImage(hand, code, date, cert)
                = [sig |-> sig, length |-> Len(code), date |-> date, hash |-> code,
                   type |-> type, what |-> what, certs |-> certs, code |-> code]
          BY DEF SignedImage
        <4> QED BY <4>1, <4>2
      <3> HIDE DEF type, what, certs, sig
      <3> QED BY <3>1, <3>2, <3>3 DEF IsFile
    <2>3. CertOfFiles
      <3>1. \A c \in {cert1, cert0} \ {<<>>} : c \in CertFiles
        BY DEF FilesInv, CertFiles
      <3> QED BY <3>1, CertgenCerts DEF CertOfFiles
    <2>4. IsFile(f) /\ f.sig \in {file.sig, NoSig}
      <3>1. CASE f \in Altered(file)
        BY <2>2, <2>3, <3>1, AlteredIsFile
      <3>2. CASE \E w \in Words : f = [file EXCEPT !.code = Append(@, w)]
        <4>1. PICK w \in Words : f = [file EXCEPT !.code = Append(file.code, w)]
          BY <2>2, <3>2 DEF IsFile
        <4> DEFINE a == file.sig
                   b == file.length
                   c == file.date
                   d == file.hash
                   e == file.type
                   v == file.what
                   g == file.certs
                   h == Append(file.code, w)
        <4>2. /\ file = [sig |-> a, length |-> b, date |-> c, hash |-> d, type |-> e,
                         what |-> v, certs |-> g, code |-> file.code]
              /\ h \in Seq(Words) /\ e \in Types /\ c \in Int /\ IsCerts(g)
          BY <2>2 DEF IsFile
        <4>3. f = [file EXCEPT !.code = h]
          BY <4>1
        <4> HIDE DEF a, b, c, d, e, v, g, h
        <4>4. f = [sig |-> a, length |-> b, date |-> c, hash |-> d, type |-> e, what |-> v,
                   certs |-> g, code |-> h]
          BY <4>2, <4>3
        <4>5. f.sig = file.sig
          BY <4>2, <4>4
        <4> QED BY <4>2, <4>4, <4>5 DEF IsFile
      <3> QED BY <3>1, <3>2
    <2>5. Verify(f) => Len(f.code) = f.length
      BY DEF Verify
    <2>6. WhatTold(f)
      BY <2>1, <2>4, SignedTells
    <2> QED BY <2>4, <2>5, <2>6, SameVerdict
  <1> QED BY <1>1, <1>2, PTL
-------------------------------------------------------------------------------
(* Induction *)

LEMMA LeastOf ==
  ASSUME NEW T, T \subseteq Nat, T # {}
  PROVE  \E x \in T : \A y \in T : x <= y
  <1>1. IsWellFoundedOn(OpToRel(<,Nat), Nat)
    BY NatLessThanWellFounded
  <1>2. PICK x \in T : \A y \in T : ~(<<y, x>> \in OpToRel(<,Nat))
    BY <1>1, WFMin
  <1>3. ASSUME NEW y \in T PROVE x <= y
    <2>1. x \in Nat /\ y \in Nat
      OBVIOUS
    <2>2. ~(y < x)
      BY <1>2, <2>1 DEF OpToRel
    <2> QED BY <2>1, <2>2
  <1> QED BY <1>3

LEMMA Climbs ==
  ASSUME NEW n \in Nat, NEW T, 0 \in T, \A k \in 0 .. n - 1 : k \in T => k + 1 \in T
  PROVE  \A k \in 0 .. n : k \in T
  <1> DEFINE U == {k \in 0 .. n : k \notin T}
  <1> SUFFICES ASSUME U # {} PROVE FALSE
    OBVIOUS
  <1>1. PICK x \in U : \A y \in U : x <= y
    <2>1. U \subseteq Nat
      OBVIOUS
    <2> HIDE DEF U
    <2> QED BY <2>1, LeastOf
  <1>2. x \in 1 .. n /\ x \notin T
    OBVIOUS
  <1>3. x - 1 \in 0 .. n - 1 /\ x - 1 \in T
    <2>1. x - 1 \notin U
      BY <1>1, <1>2
    <2> QED BY <1>2, <2>1
  <1>4. (x - 1) + 1 = x
    BY <1>2
  <1> QED BY <1>2, <1>3, <1>4

LEMMA Product ==
  ASSUME NEW a \in Int, NEW w \in Nat
  PROVE  /\ a * w \in Int
         /\ (a + 1) * w = a * w + w
         /\ (a - 1) * w = a * w - w
         /\ a >= 0 => a * w >= 0
  <1>1. a * w \in Int /\ (a + 1) * w = a * w + w /\ (a - 1) * w = a * w - w
    OBVIOUS
  <1>2. a >= 0 => a * w >= 0
    OBVIOUS
  <1> QED BY <1>1, <1>2

LEMMA ProductLess ==
  ASSUME NEW a \in Int, NEW b \in Int, NEW w \in Nat, a < b
  PROVE  a * w \in Int /\ b * w \in Int /\ a * w + w <= b * w
  <1>1. (b - a - 1) * w >= 0
    <2> DEFINE d == b - a - 1
    <2>1. d \in Int /\ d >= 0
      OBVIOUS
    <2> HIDE DEF d
    <2> QED BY <2>1, Product DEF d
  <1>2. (b - a - 1) * w = b * w - a * w - w
    OBVIOUS
  <1> QED BY <1>1, <1>2
-------------------------------------------------------------------------------
(* Sums and products *)

Ap(op, a, b) == op[a][b]

Monoid(op, e) ==
  /\ e \in Fe
  /\ \A a, b \in Fe : Ap(op, a, b) \in Fe /\ Ap(op, a, b) = Ap(op, b, a)
  /\ \A a, b, c \in Fe : Ap(op, a, Ap(op, b, c)) = Ap(op, Ap(op, a, b), c)
  /\ \A a \in Fe : Ap(op, e, a) = a

Terms(n) == [1 .. n -> Fe]

(* s[i] is what the first i terms come to.                                 *)
Steps(s, op, e, g, n) ==
  /\ s[0] = e
  /\ \A i \in 1 .. n : s[i] = Ap(op, s[i - 1], g[i])

Total(op, e, g, n) == CHOOSE v : \E s : Steps(s, op, e, g, n) /\ v = s[n]

LEMMA StepsExist ==
  ASSUME NEW op, NEW e, NEW g, NEW n \in Nat
  PROVE  \E s : Steps(s, op, e, g, n)
  <1> DEFINE T == {k \in 0 .. n : \E s : Steps(s, op, e, g, k)}
  <1>1. 0 \in T
    <2>1. Steps([i \in 0 .. 0 |-> e], op, e, g, 0)
      BY DEF Steps
    <2> QED BY <2>1
  <1>2. ASSUME NEW k \in 0 .. n - 1, k \in T PROVE k + 1 \in T
    <2>1. PICK s : Steps(s, op, e, g, k)
      BY <1>2
    <2> DEFINE t == [i \in 0 .. k + 1 |-> IF i <= k THEN s[i] ELSE Ap(op, s[k], g[k + 1])]
    <2>2. \A i \in 0 .. k : t[i] = s[i]
      OBVIOUS
    <2>3. t[k + 1] = Ap(op, s[k], g[k + 1])
      OBVIOUS
    <2> HIDE DEF t
    <2>4. \A i \in 1 .. k + 1 : t[i] = Ap(op, t[i - 1], g[i])
      <3> SUFFICES ASSUME NEW i \in 1 .. k + 1 PROVE t[i] = Ap(op, t[i - 1], g[i])
        OBVIOUS
      <3>1. CASE i = k + 1
        <4>1. t[i - 1] = s[k]
          BY <2>2, <3>1
        <4> QED BY <2>3, <3>1, <4>1
      <3>2. CASE i # k + 1
        <4>1. i \in 1 .. k /\ i \in 0 .. k /\ i - 1 \in 0 .. k
          BY <3>2
        <4>2. s[i] = Ap(op, s[i - 1], g[i])
          BY <2>1, <4>1 DEF Steps
        <4> QED BY <2>2, <4>1, <4>2
      <3> QED BY <3>1, <3>2
    <2>5. t[0] = e
      BY <2>1, <2>2 DEF Steps
    <2> QED BY <2>4, <2>5 DEF Steps
  <1> HIDE DEF T
  <1>3. \A k \in 0 .. n : k \in T
    BY <1>1, <1>2, Climbs
  <1> QED BY <1>3 DEF T

LEMMA TotalIs ==
  ASSUME NEW op, NEW e, NEW g, NEW n \in Nat, NEW s, Steps(s, op, e, g, n), NEW k \in 0 .. n
  PROVE  Total(op, e, g, k) = s[k]
  <1>1. ASSUME NEW t, Steps(t, op, e, g, k) PROVE t[k] = s[k]
    <2> DEFINE T == {j \in 0 .. k : t[j] = s[j]}
    <2>1. 0 \in T
      BY <1>1 DEF Steps
    <2>2. ASSUME NEW j \in 0 .. k - 1, j \in T PROVE j + 1 \in T
      <3>1. j + 1 \in 1 .. k /\ j + 1 \in 1 .. n /\ (j + 1) - 1 = j /\ j + 1 \in 0 .. k
        OBVIOUS
      <3>2. t[j + 1] = Ap(op, t[j], g[j + 1])
        BY <1>1, <3>1 DEF Steps
      <3>3. s[j + 1] = Ap(op, s[j], g[j + 1])
        BY <3>1 DEF Steps
      <3>4. t[j] = s[j]
        BY <2>2
      <3> QED BY <3>1, <3>2, <3>3, <3>4
    <2> HIDE DEF T
    <2>3. \A j \in 0 .. k : j \in T
      BY <2>1, <2>2, Climbs
    <2> QED BY <2>3 DEF T
  <1>2. Steps(s, op, e, g, k)
    BY DEF Steps
  <1>3. \E v : \E t : Steps(t, op, e, g, k) /\ v = t[k]
    BY <1>2
  <1> QED BY <1>1, <1>3 DEF Total

Grows(op, e, g, n) ==
  /\ Total(op, e, g, 0) = e
  /\ \A k \in 0 .. n - 1 : Total(op, e, g, k + 1) = Ap(op, Total(op, e, g, k), g[k + 1])

LEMMA Totals ==
  ASSUME NEW op, NEW e, NEW g, NEW n \in Nat
  PROVE  Grows(op, e, g, n)
  <1>1. PICK s : Steps(s, op, e, g, n)
    BY StepsExist
  <1>2. \A k \in 0 .. n : Total(op, e, g, k) = s[k]
    BY <1>1, TotalIs
  <1>3. 0 \in 0 .. n /\ s[0] = e
    BY <1>1 DEF Steps
  <1>4. ASSUME NEW k \in 0 .. n - 1
        PROVE  Total(op, e, g, k + 1) = Ap(op, Total(op, e, g, k), g[k + 1])
    <2>1. k \in 0 .. n /\ k + 1 \in 0 .. n /\ k + 1 \in 1 .. n /\ (k + 1) - 1 = k
      OBVIOUS
    <2>2. s[k + 1] = Ap(op, s[k], g[k + 1])
      BY <1>1, <2>1 DEF Steps
    <2> QED BY <1>2, <2>1, <2>2
  <1> QED BY <1>2, <1>3, <1>4 DEF Grows

LEMMA TotalIn ==
  ASSUME NEW op, NEW e, Monoid(op, e), NEW n \in Nat, NEW g \in Terms(n)
  PROVE  \A k \in 0 .. n : Total(op, e, g, k) \in Fe
  <1> DEFINE T == {k \in 0 .. n : Total(op, e, g, k) \in Fe}
  <1>g. Grows(op, e, g, n)
    BY Totals
  <1>1. 0 \in T
    BY <1>g DEF Monoid, Grows
  <1>2. ASSUME NEW k \in 0 .. n - 1, k \in T PROVE k + 1 \in T
    <2>1. k + 1 \in 1 .. n /\ k + 1 \in 0 .. n
      OBVIOUS
    <2>2. g[k + 1] \in Fe
      BY <2>1 DEF Terms
    <2>3. Total(op, e, g, k + 1) = Ap(op, Total(op, e, g, k), g[k + 1])
      BY <1>g DEF Grows
    <2> QED BY <1>2, <2>1, <2>2, <2>3 DEF Monoid
  <1> HIDE DEF T
  <1>3. \A k \in 0 .. n : k \in T
    BY <1>1, <1>2, Climbs
  <1> QED BY <1>3 DEF T

LEMMA FourSwap ==
  ASSUME NEW op, NEW e, Monoid(op, e), NEW a \in Fe, NEW b \in Fe, NEW c \in Fe, NEW d \in Fe
  PROVE  Ap(op, Ap(op, a, b), Ap(op, c, d)) = Ap(op, Ap(op, a, c), Ap(op, b, d))
  <1>1. Ap(op, a, b) \in Fe /\ Ap(op, c, d) \in Fe /\ Ap(op, a, c) \in Fe /\ Ap(op, b, d) \in Fe
    BY DEF Monoid
  <1>2. Ap(op, Ap(op, a, b), Ap(op, c, d)) = Ap(op, Ap(op, Ap(op, a, b), c), d)
    BY <1>1 DEF Monoid
  <1>3. Ap(op, Ap(op, a, b), c) = Ap(op, a, Ap(op, b, c)) /\ Ap(op, b, c) = Ap(op, c, b)
    BY DEF Monoid
  <1>4. Ap(op, a, Ap(op, c, b)) = Ap(op, Ap(op, a, c), b)
    BY DEF Monoid
  <1>5. Ap(op, Ap(op, Ap(op, a, c), b), d) = Ap(op, Ap(op, a, c), Ap(op, b, d))
    BY <1>1 DEF Monoid
  <1> QED BY <1>2, <1>3, <1>4, <1>5

LEMMA TotalBoth ==
  ASSUME NEW op, NEW e, Monoid(op, e), NEW n \in Nat,
         NEW f \in Terms(n), NEW g \in Terms(n), NEW h,
         \A i \in 1 .. n : h[i] = Ap(op, f[i], g[i])
  PROVE  Total(op, e, h, n) = Ap(op, Total(op, e, f, n), Total(op, e, g, n))
  <1> DEFINE F(k) == Total(op, e, f, k)
             G(k) == Total(op, e, g, k)
             H(k) == Total(op, e, h, k)
             T == {k \in 0 .. n : H(k) = Ap(op, F(k), G(k))}
  <1>1. /\ F(0) = e /\ G(0) = e /\ H(0) = e
        /\ \A k \in 0 .. n - 1 : F(k + 1) = Ap(op, F(k), f[k + 1])
        /\ \A k \in 0 .. n - 1 : G(k + 1) = Ap(op, G(k), g[k + 1])
        /\ \A k \in 0 .. n - 1 : H(k + 1) = Ap(op, H(k), h[k + 1])
    <2>1. F(0) = e /\ \A k \in 0 .. n - 1 : F(k + 1) = Ap(op, F(k), f[k + 1])
      <3>1. Grows(op, e, f, n)
        BY Totals
      <3> QED BY <3>1 DEF Grows
    <2>2. G(0) = e /\ \A k \in 0 .. n - 1 : G(k + 1) = Ap(op, G(k), g[k + 1])
      <3>1. Grows(op, e, g, n)
        BY Totals
      <3> QED BY <3>1 DEF Grows
    <2>3. H(0) = e /\ \A k \in 0 .. n - 1 : H(k + 1) = Ap(op, H(k), h[k + 1])
      <3>1. Grows(op, e, h, n)
        BY Totals
      <3> QED BY <3>1 DEF Grows
    <2> QED BY <2>1, <2>2, <2>3
  <1>2. \A k \in 0 .. n : F(k) \in Fe /\ G(k) \in Fe
    BY TotalIn
  <1> HIDE DEF F, G, H
  <1>3. 0 \in T
    BY <1>1 DEF Monoid
  <1>4. ASSUME NEW k \in 0 .. n - 1, k \in T PROVE k + 1 \in T
    <2>1. k + 1 \in 1 .. n /\ k + 1 \in 0 .. n /\ k \in 0 .. n
      OBVIOUS
    <2>2. f[k + 1] \in Fe /\ g[k + 1] \in Fe /\ h[k + 1] = Ap(op, f[k + 1], g[k + 1])
      BY <2>1 DEF Terms
    <2>3. H(k) = Ap(op, F(k), G(k)) /\ F(k) \in Fe /\ G(k) \in Fe
      BY <1>2, <1>4, <2>1
    <2>4. Ap(op, Ap(op, F(k), G(k)), Ap(op, f[k + 1], g[k + 1]))
            = Ap(op, Ap(op, F(k), f[k + 1]), Ap(op, G(k), g[k + 1]))
      BY <2>2, <2>3, FourSwap
    <2> QED BY <1>1, <2>1, <2>2, <2>3, <2>4
  <1> HIDE DEF T
  <1>5. \A k \in 0 .. n : k \in T
    BY <1>3, <1>4, Climbs
  <1> QED BY <1>5 DEF T, F, G, H

(* All terms but one are nothing.                                          *)
LEMMA TotalOne ==
  ASSUME NEW op, NEW e, Monoid(op, e), NEW n \in Nat, NEW a \in 1 .. n, NEW v \in Fe, NEW g,
         \A i \in 1 .. n : g[i] = IF i = a THEN v ELSE e
  PROVE  Total(op, e, g, n) = v
  <1> DEFINE G(k) == Total(op, e, g, k)
             T == {k \in 0 .. n : G(k) = IF k < a THEN e ELSE v}
  <1>1. G(0) = e /\ \A k \in 0 .. n - 1 : G(k + 1) = Ap(op, G(k), g[k + 1])
    <2>1. Grows(op, e, g, n)
      BY Totals
    <2> QED BY <2>1 DEF Grows
  <1> HIDE DEF G
  <1>2. 0 \in T
    BY <1>1
  <1>3. ASSUME NEW k \in 0 .. n - 1, k \in T PROVE k + 1 \in T
    <2>1. k + 1 \in 1 .. n /\ k + 1 \in 0 .. n
      OBVIOUS
    <2>2. Ap(op, e, e) = e /\ Ap(op, e, v) = v /\ Ap(op, v, e) = v
      BY DEF Monoid
    <2>3. G(k) = IF k < a THEN e ELSE v
      BY <1>3
    <2>4. G(k + 1) = Ap(op, G(k), IF k + 1 = a THEN v ELSE e)
      BY <1>1, <2>1
    <2>5. CASE k + 1 < a
      BY <2>1, <2>2, <2>3, <2>4, <2>5
    <2>6. CASE k + 1 = a
      BY <2>1, <2>2, <2>3, <2>4, <2>6
    <2>7. CASE k + 1 > a
      BY <2>1, <2>2, <2>3, <2>4, <2>7
    <2> QED BY <2>5, <2>6, <2>7
  <1> HIDE DEF T
  <1>4. \A k \in 0 .. n : k \in T
    BY <1>2, <1>3, Climbs
  <1>5. n \in T /\ ~(n < a)
    BY <1>4
  <1> QED BY <1>5 DEF T, G

(* The terms with a number in I, and nothing for the others.               *)
Only(e, g, I, n) == [i \in 1 .. n |-> IF i \in I THEN g[i] ELSE e]
Over(op, e, g, I, n) == Total(op, e, Only(e, g, I, n), n)

LEMMA OnlyTerms ==
  ASSUME NEW op, NEW e, Monoid(op, e), NEW n \in Nat, NEW g, NEW I, \A i \in 1 .. n : i \in I => g[i] \in Fe
  PROVE  Only(e, g, I, n) \in Terms(n)
  BY DEF Monoid, Only, Terms

LEMMA OverIn ==
  ASSUME NEW op, NEW e, Monoid(op, e), NEW n \in Nat, NEW g, NEW I, \A i \in 1 .. n : i \in I => g[i] \in Fe
  PROVE  Over(op, e, g, I, n) \in Fe
  <1>1. Only(e, g, I, n) \in Terms(n)
    BY OnlyTerms
  <1> DEFINE h == Only(e, g, I, n)
  <1> HIDE DEF h
  <1>2. \A k \in 0 .. n : Total(op, e, h, k) \in Fe
    BY <1>1, TotalIn DEF h
  <1>3. n \in 0 .. n
    OBVIOUS
  <1> QED BY <1>2, <1>3 DEF Over, h

LEMMA OverSame ==
  ASSUME NEW op, NEW e, NEW n \in Nat, NEW g, NEW h, NEW I, NEW J,
         \A i \in 1 .. n : (i \in I <=> i \in J) /\ (i \in I => g[i] = h[i])
  PROVE  Over(op, e, g, I, n) = Over(op, e, h, J, n)
  <1>1. Only(e, g, I, n) = Only(e, h, J, n)
    BY DEF Only
  <1> QED BY <1>1 DEF Over

(* One term taken out.                                                     *)
LEMMA OverSplit ==
  ASSUME NEW op, NEW e, Monoid(op, e), NEW n \in Nat, NEW g, NEW I, NEW a \in I, a \in 1 .. n,
         \A i \in 1 .. n : i \in I => g[i] \in Fe
  PROVE  Over(op, e, g, I, n) = Ap(op, g[a], Over(op, e, g, I \ {a}, n))
  <1> DEFINE v == g[a]
             f == [i \in 1 .. n |-> IF i = a THEN v ELSE e]
             h == Only(e, g, I, n)
             r == Only(e, g, I \ {a}, n)
  <1>1. v \in Fe /\ e \in Fe /\ \A b \in Fe : Ap(op, e, b) = b /\ Ap(op, b, e) = b
    BY DEF Monoid
  <1>2. f \in Terms(n) /\ r \in Terms(n)
    <2>1. f \in Terms(n)
      BY <1>1 DEF Terms
    <2> QED BY <2>1, OnlyTerms
  <1>3. \A i \in 1 .. n : h[i] = Ap(op, f[i], r[i])
    <2> SUFFICES ASSUME NEW i \in 1 .. n PROVE h[i] = Ap(op, f[i], r[i])
      OBVIOUS
    <2>1. /\ f[i] = IF i = a THEN v ELSE e
          /\ h[i] = IF i \in I THEN g[i] ELSE e
          /\ r[i] = IF i \in I \ {a} THEN g[i] ELSE e
      BY DEF Only
    <2> HIDE DEF f, h, r
    <2>2. CASE i = a
      <3>1. h[i] = v /\ f[i] = v /\ r[i] = e
        BY <2>1, <2>2
      <3> HIDE DEF v
      <3> QED BY <1>1, <3>1
    <2>3. CASE i # a
      <3>1. f[i] = e /\ h[i] = r[i] /\ h[i] \in Fe
        BY <1>1, <2>1, <2>3
      <3> QED BY <1>1, <3>1
    <2> QED BY <2>2, <2>3
  <1>4. \A i \in 1 .. n : f[i] = IF i = a THEN v ELSE e
    OBVIOUS
  <1> HIDE DEF f, h, r, v
  <1>5. Total(op, e, h, n) = Ap(op, Total(op, e, f, n), Total(op, e, r, n))
    BY <1>2, <1>3, TotalBoth
  <1>6. Total(op, e, f, n) = v
    BY <1>1, <1>4, TotalOne
  <1> QED BY <1>5, <1>6 DEF Over, h, r, v
-------------------------------------------------------------------------------
(* The field *)

LEMMA Distributes ==
  ASSUME FieldLaws, NEW a \in Fe, NEW b \in Fe, NEW c \in Fe
  PROVE  Mul(a, Add(b, c)) = Add(Mul(a, b), Mul(a, c))
  <1>1. \A x, y, z \in Fe : Mul(x, Add(y, z)) = Add(Mul(x, y), Mul(x, z))
    BY DEF FieldLaws
  <1> QED BY <1>1

LEMMA InverseIs ==
  ASSUME FieldLaws, NEW a \in Fe, a # Zero
  PROVE  InverseOf(a) \in Fe /\ Mul(a, InverseOf(a)) = One /\ Mul(InverseOf(a), a) = One
  <1>1. \A x \in Fe \ {Zero} : InverseOf(x) \in Fe /\ Mul(x, InverseOf(x)) = One
    BY DEF FieldLaws
  <1>2. \A x, y \in Fe : Mul(x, y) = Mul(y, x)
    BY DEF FieldLaws
  <1>3. InverseOf(a) \in Fe /\ Mul(a, InverseOf(a)) = One
    BY <1>1
  <1> QED BY <1>2, <1>3

LEMMA AddLaws ==
  /\ Zero \in Fe
  /\ \A a, b \in Fe : Add(a, b) \in Fe /\ Add(a, b) = Add(b, a)
  /\ \A a, b, c \in Fe : Add(a, Add(b, c)) = Add(Add(a, b), c)
  /\ \A a \in Fe : Add(Zero, a) = a /\ Add(a, Zero) = a /\ Add(a, a) = Zero
  <1>1. \A a, b, c : Add(a, Add(b, c)) = Add(Add(a, b), c)
    BY DEF Add
  <1>2. \A a, b \in Fe : Add(a, b) \in Fe /\ Add(a, b) = Add(b, a)
    BY DEF Add, Fe
  <1>3. \A a : Add(Zero, a) = a /\ Add(a, Zero) = a /\ Add(a, a) = Zero
    BY DEF Add, Zero
  <1> QED BY <1>1, <1>2, <1>3 DEF Zero, Fe

LEMMA MulZero ==
  ASSUME FieldLaws, NEW a \in Fe
  PROVE  Mul(a, Zero) = Zero /\ Mul(Zero, a) = Zero
  <1>1. Zero = Add(a, a) /\ Zero \in Fe /\ Mul(a, a) \in Fe
    BY AddLaws DEF FieldLaws
  <1>2. Mul(a, Add(a, a)) = Add(Mul(a, a), Mul(a, a))
    BY DEF FieldLaws
  <1>3. Add(Mul(a, a), Mul(a, a)) = Zero
    BY <1>1, AddLaws
  <1> QED BY <1>1, <1>2, <1>3 DEF FieldLaws

(* Two that are not zero have a product that is not.                       *)
LEMMA MulNotZero ==
  ASSUME FieldLaws, NEW a \in Fe, NEW b \in Fe, a # Zero, b # Zero
  PROVE  Mul(a, b) \in Fe /\ Mul(a, b) # Zero
  <1> DEFINE i == InverseOf(a)
  <1>1. i \in Fe /\ Mul(a, i) = One /\ Mul(i, a) = One
    BY InverseIs
  <1> HIDE DEF i
  <1>2. Mul(i, Mul(a, b)) = Mul(Mul(i, a), b)
    BY <1>1 DEF FieldLaws
  <1>3. Mul(i, Mul(a, b)) = b
    BY <1>1, <1>2 DEF FieldLaws
  <1>4. Mul(i, Zero) = Zero
    BY <1>1, MulZero
  <1> QED BY <1>3, <1>4 DEF FieldLaws

LEMMA AddNotZero ==
  ASSUME NEW a \in Fe, NEW b \in Fe, a # b
  PROVE  Add(a, b) \in Fe /\ Add(a, b) # Zero
  <1>1. Add(a, b) \in Fe
    BY AddLaws
  <1>2. ASSUME Add(a, b) = Zero PROVE FALSE
    <2>1. a \ b = {} /\ b \ a = {}
      BY <1>2 DEF Add, Zero
    <2>2. \A i : i \in a <=> i \in b
      BY <2>1
    <2> QED BY <2>2
  <1> QED BY <1>1, <1>2

(* A factor above and below the line is no matter.                         *)
LEMMA Reduce ==
  ASSUME FieldLaws, NEW d \in Fe, NEW q \in Fe, NEW g \in Fe, d # Zero, q # Zero
  PROVE  Mul(Mul(d, g), InverseOf(Mul(d, q))) = Mul(g, InverseOf(q))
  <1> DEFINE p == Mul(d, q)
             u == InverseOf(p)
             w == InverseOf(q)
  <1>1. p \in Fe /\ p # Zero
    BY MulNotZero
  <1>2. u \in Fe /\ Mul(p, u) = One
    BY <1>1, InverseIs
  <1>3. w \in Fe /\ Mul(q, w) = One /\ Mul(w, q) = One
    BY InverseIs
  <1>4. Mul(Mul(d, q), u) = One
    BY <1>2
  <1>m. \A a, b \in Fe : Mul(a, b) \in Fe /\ Mul(a, b) = Mul(b, a)
    BY DEF FieldLaws
  <1>a. \A a, b, c \in Fe : Mul(a, Mul(b, c)) = Mul(Mul(a, b), c)
    BY DEF FieldLaws
  <1>o. One \in Fe /\ \A a \in Fe : Mul(One, a) = a
    BY DEF FieldLaws
  <1> HIDE DEF u, w
  <1>5. Mul(d, u) \in Fe /\ Mul(q, Mul(d, u)) = One
    <2>1. Mul(q, Mul(d, u)) = Mul(Mul(q, d), u)
      BY <1>2, <1>a
    <2>2. Mul(q, d) = Mul(d, q)
      BY <1>m
    <2> QED BY <1>2, <1>4, <1>m, <2>1, <2>2
  <1> DEFINE x == Mul(d, u)
  <1> HIDE DEF x
  <1>6. x \in Fe /\ Mul(q, x) = One
    BY <1>5 DEF x
  <1>7. x = w
    <2>1. Mul(w, Mul(q, x)) = Mul(Mul(w, q), x)
      BY <1>3, <1>6, <1>a
    <2>2. Mul(w, One) = w
      BY <1>3, <1>m, <1>o
    <2> QED BY <1>3, <1>6, <1>o, <2>1, <2>2
  <1>8. Mul(Mul(d, g), u) = Mul(g, x)
    <2>1. Mul(d, g) = Mul(g, d)
      BY <1>m
    <2>2. Mul(Mul(g, d), u) = Mul(g, Mul(d, u))
      BY <1>2, <1>a
    <2> QED BY <2>1, <2>2 DEF x
  <1> QED BY <1>7, <1>8 DEF u, w

-------------------------------------------------------------------------------
(* Sums and products in the field *)

AddOp == [a \in Fe |-> [b \in Fe |-> Add(a, b)]]
MulOp == [a \in Fe |-> [b \in Fe |-> Mul(a, b)]]

Sum(g, I, n) == Over(AddOp, Zero, g, I, n)
Prod(g, I, n) == Over(MulOp, One, g, I, n)

LEMMA AddApplied == \A a, b \in Fe : Ap(AddOp, a, b) = Add(a, b)
  BY DEF Ap, AddOp

LEMMA MulApplied == \A a, b \in Fe : Ap(MulOp, a, b) = Mul(a, b)
  BY DEF Ap, MulOp

LEMMA AddMonoid == Monoid(AddOp, Zero)
  BY AddApplied, AddLaws DEF Monoid

LEMMA MulMonoid == FieldLaws => Monoid(MulOp, One)
  BY MulApplied DEF Monoid, FieldLaws

(* The terms with a number in I are in the field.                          *)
Among(g, I, n) == \A i \in 1 .. n : i \in I => g[i] \in Fe

LEMMA SumIn ==
  ASSUME NEW n \in Nat, NEW g, NEW I, Among(g, I, n)
  PROVE  Sum(g, I, n) \in Fe
  BY AddMonoid, OverIn DEF Sum, Among

LEMMA ProdIn ==
  ASSUME FieldLaws, NEW n \in Nat, NEW g, NEW I, Among(g, I, n)
  PROVE  Prod(g, I, n) \in Fe
  BY MulMonoid, OverIn DEF Prod, Among

LEMMA SumSame ==
  ASSUME NEW n \in Nat, NEW g, NEW h, NEW I, \A i \in 1 .. n : i \in I => g[i] = h[i]
  PROVE  Sum(g, I, n) = Sum(h, I, n)
  BY OverSame DEF Sum

LEMMA ProdSame ==
  ASSUME NEW n \in Nat, NEW g, NEW h, NEW I, \A i \in 1 .. n : i \in I => g[i] = h[i]
  PROVE  Prod(g, I, n) = Prod(h, I, n)
  BY OverSame DEF Prod

LEMMA SumSplit ==
  ASSUME NEW n \in Nat, NEW g, NEW I, NEW a \in I, a \in 1 .. n, Among(g, I, n)
  PROVE  /\ g[a] \in Fe /\ Sum(g, I \ {a}, n) \in Fe
         /\ Sum(g, I, n) = Add(g[a], Sum(g, I \ {a}, n))
  <1>1. g[a] \in Fe /\ Among(g, I \ {a}, n)
    BY DEF Among
  <1>2. Sum(g, I \ {a}, n) \in Fe
    BY <1>1, SumIn
  <1>3. Sum(g, I, n) = Ap(AddOp, g[a], Sum(g, I \ {a}, n))
    BY AddMonoid, OverSplit DEF Sum, Among
  <1> QED BY <1>1, <1>2, <1>3, AddApplied

LEMMA ProdSplit ==
  ASSUME FieldLaws, NEW n \in Nat, NEW g, NEW I, NEW a \in I, a \in 1 .. n, Among(g, I, n)
  PROVE  /\ g[a] \in Fe /\ Prod(g, I \ {a}, n) \in Fe
         /\ Prod(g, I, n) = Mul(g[a], Prod(g, I \ {a}, n))
  <1>1. g[a] \in Fe /\ Among(g, I \ {a}, n)
    BY DEF Among
  <1>2. Prod(g, I \ {a}, n) \in Fe
    BY <1>1, ProdIn
  <1>3. Prod(g, I, n) = Ap(MulOp, g[a], Prod(g, I \ {a}, n))
    BY MulMonoid, OverSplit DEF Prod, Among
  <1> QED BY <1>1, <1>2, <1>3, MulApplied

LEMMA OverNone ==
  ASSUME NEW op, NEW e, Monoid(op, e), NEW n \in Nat, NEW g
  PROVE  Over(op, e, g, {}, n) = e
  <1> DEFINE h == Only(e, g, {}, n)
             T == {k \in 0 .. n : Total(op, e, h, k) = e}
  <1>g. Grows(op, e, h, n)
    BY Totals
  <1>h. \A k \in 1 .. n : h[k] = e
    BY DEF Only
  <1> HIDE DEF h
  <1>1. 0 \in T
    BY <1>g DEF Grows
  <1>2. ASSUME NEW k \in 0 .. n - 1, k \in T PROVE k + 1 \in T
    <2>1. k + 1 \in 1 .. n /\ k + 1 \in 0 .. n
      OBVIOUS
    <2>2. h[k + 1] = e
      BY <1>h, <2>1
    <2>3. Total(op, e, h, k + 1) = Ap(op, Total(op, e, h, k), h[k + 1])
      BY <1>g DEF Grows
    <2>4. Ap(op, e, e) = e
      BY DEF Monoid
    <2> QED BY <1>2, <2>1, <2>2, <2>3, <2>4
  <1> HIDE DEF T
  <1>3. \A k \in 0 .. n : k \in T
    BY <1>1, <1>2, Climbs
  <1> QED BY <1>3 DEF T, Over, h

LEMMA SumNone == ASSUME NEW n \in Nat, NEW g PROVE Sum(g, {}, n) = Zero
  BY AddMonoid, OverNone DEF Sum

LEMMA ProdNone == ASSUME FieldLaws, NEW n \in Nat, NEW g PROVE Prod(g, {}, n) = One
  BY MulMonoid, OverNone DEF Prod

(* Induction over the numbers of the terms.                                *)
LEMMA SetClimbs ==
  ASSUME NEW n \in Nat, NEW P,
         \A I \in SUBSET (1 .. n) : (\A a \in I : I \ {a} \in P) => I \in P
  PROVE  \A I \in SUBSET (1 .. n) : I \in P
  <1> DEFINE T == {k \in 0 .. n : \A I \in SUBSET (1 .. n) : Cardinality(I) <= k => I \in P}
  <1>c. IsFiniteSet(1 .. n) /\ Cardinality(1 .. n) = n
    BY FS_Interval
  <1>f. \A I \in SUBSET (1 .. n) : IsFiniteSet(I) /\ Cardinality(I) \in 0 .. n
    <2> TAKE I \in SUBSET (1 .. n)
    <2> DEFINE S == 1 .. n
    <2>s. IsFiniteSet(S) /\ Cardinality(S) = n /\ I \in SUBSET S
      BY <1>c
    <2> HIDE DEF S
    <2>1. IsFiniteSet(I) /\ Cardinality(I) <= n
      BY <2>s, FS_Subset
    <2>2. Cardinality(I) \in Nat
      BY <2>1, FS_CardinalityType
    <2> QED BY <2>1, <2>2
  <1>1. 0 \in T
    <2> SUFFICES ASSUME NEW I \in SUBSET (1 .. n), Cardinality(I) <= 0 PROVE I \in P
      OBVIOUS
    <2>1. I = {}
      BY <1>f, FS_EmptySet
    <2> QED BY <2>1
  <1>2. ASSUME NEW k \in 0 .. n - 1, k \in T PROVE k + 1 \in T
    <2>1. k + 1 \in 0 .. n
      OBVIOUS
    <2>2. ASSUME NEW I \in SUBSET (1 .. n), Cardinality(I) <= k + 1 PROVE I \in P
      <3>1. ASSUME NEW a \in I PROVE I \ {a} \in P
        <4>1. Cardinality(I \ {a}) = Cardinality(I) - 1
          BY <1>f, FS_RemoveElement
        <4>2. Cardinality(I \ {a}) <= k
          BY <1>f, <2>2, <4>1
        <4> QED BY <1>2, <4>2
      <3> QED BY <3>1
    <2> QED BY <2>1, <2>2
  <1> HIDE DEF T
  <1>3. n \in T
    BY <1>1, <1>2, Climbs
  <1> QED BY <1>3, <1>f DEF T

LEMMA SumScale ==
  ASSUME FieldLaws, NEW n \in Nat, NEW c \in Fe, NEW g, NEW h, NEW I \in SUBSET (1 .. n),
         Among(g, I, n), \A i \in I : h[i] = Mul(c, g[i])
  PROVE  Sum(h, I, n) = Mul(c, Sum(g, I, n))
  <1> DEFINE P == {J \in SUBSET (1 .. n) : J \subseteq I => Sum(h, J, n) = Mul(c, Sum(g, J, n))}
  <1>1. ASSUME NEW J \in SUBSET (1 .. n), \A a \in J : J \ {a} \in P PROVE J \in P
    <2> SUFFICES ASSUME J \subseteq I PROVE Sum(h, J, n) = Mul(c, Sum(g, J, n))
      OBVIOUS
    <2>1. CASE J = {}
      BY <2>1, SumNone, MulZero
    <2>2. ASSUME NEW a \in J PROVE Sum(h, J, n) = Mul(c, Sum(g, J, n))
      <3>1. Among(g, J, n)
        BY DEF Among
      <3>2. \A i \in 1 .. n : i \in J => h[i] = Mul(c, g[i]) /\ h[i] \in Fe
        <4> SUFFICES ASSUME NEW i \in 1 .. n, i \in J PROVE h[i] = Mul(c, g[i]) /\ h[i] \in Fe
          OBVIOUS
        <4>1. g[i] \in Fe /\ h[i] = Mul(c, g[i])
          BY DEF Among
        <4> QED BY <4>1 DEF FieldLaws
      <3>3. Among(h, J, n)
        BY <3>2 DEF Among
      <3>a. a \in 1 .. n
        OBVIOUS
      <3>4. /\ g[a] \in Fe /\ Sum(g, J \ {a}, n) \in Fe
            /\ Sum(g, J, n) = Add(g[a], Sum(g, J \ {a}, n))
        BY <3>1, <3>a, SumSplit
      <3>5. Sum(h, J, n) = Add(h[a], Sum(h, J \ {a}, n))
        BY <3>3, <3>a, SumSplit
      <3>6. Sum(h, J \ {a}, n) = Mul(c, Sum(g, J \ {a}, n))
        BY <1>1
      <3>7. Mul(c, Add(g[a], Sum(g, J \ {a}, n))) = Add(Mul(c, g[a]), Mul(c, Sum(g, J \ {a}, n)))
        BY <3>4, Distributes
      <3> QED BY <3>2, <3>4, <3>5, <3>6, <3>7, <3>a
    <2> QED BY <2>1, <2>2
  <1> HIDE DEF P
  <1>2. \A J \in SUBSET (1 .. n) : J \in P
    BY <1>1, SetClimbs
  <1> QED BY <1>2 DEF P

LEMMA AddFourSwap ==
  ASSUME NEW a \in Fe, NEW b \in Fe, NEW c \in Fe, NEW d \in Fe
  PROVE  Add(Add(a, b), Add(c, d)) = Add(Add(a, c), Add(b, d))
  <1>1. Add(a, b) \in Fe /\ Add(c, d) \in Fe /\ Add(a, c) \in Fe /\ Add(b, d) \in Fe
    BY AddLaws
  <1>2. Ap(AddOp, Ap(AddOp, a, b), Ap(AddOp, c, d)) = Ap(AddOp, Ap(AddOp, a, c), Ap(AddOp, b, d))
    BY AddMonoid, FourSwap
  <1> QED BY <1>1, <1>2, AddApplied

LEMMA SumBoth ==
  ASSUME NEW n \in Nat, NEW f, NEW g, NEW h, NEW I \in SUBSET (1 .. n),
         Among(f, I, n), Among(g, I, n), \A i \in I : h[i] = Add(f[i], g[i])
  PROVE  Sum(h, I, n) = Add(Sum(f, I, n), Sum(g, I, n))
  <1> DEFINE P == {J \in SUBSET (1 .. n) : J \subseteq I => Sum(h, J, n) = Add(Sum(f, J, n), Sum(g, J, n))}
  <1>1. ASSUME NEW J \in SUBSET (1 .. n), \A a \in J : J \ {a} \in P PROVE J \in P
    <2> SUFFICES ASSUME J \subseteq I PROVE Sum(h, J, n) = Add(Sum(f, J, n), Sum(g, J, n))
      OBVIOUS
    <2>1. CASE J = {}
      BY <2>1, SumNone, AddLaws
    <2>2. ASSUME NEW a \in J PROVE Sum(h, J, n) = Add(Sum(f, J, n), Sum(g, J, n))
      <3>1. Among(f, J, n) /\ Among(g, J, n)
        BY DEF Among
      <3>2. \A i \in 1 .. n : i \in J => h[i] = Add(f[i], g[i]) /\ h[i] \in Fe
        BY AddLaws DEF Among
      <3>3. Among(h, J, n)
        BY <3>2 DEF Among
      <3>a. a \in 1 .. n
        OBVIOUS
      <3>4. /\ f[a] \in Fe /\ Sum(f, J \ {a}, n) \in Fe
            /\ Sum(f, J, n) = Add(f[a], Sum(f, J \ {a}, n))
        BY <3>1, <3>a, SumSplit
      <3>5. /\ g[a] \in Fe /\ Sum(g, J \ {a}, n) \in Fe
            /\ Sum(g, J, n) = Add(g[a], Sum(g, J \ {a}, n))
        BY <3>1, <3>a, SumSplit
      <3>6. Sum(h, J, n) = Add(h[a], Sum(h, J \ {a}, n))
        BY <3>3, <3>a, SumSplit
      <3>7. Sum(h, J \ {a}, n) = Add(Sum(f, J \ {a}, n), Sum(g, J \ {a}, n))
        BY <1>1
      <3>8. h[a] = Add(f[a], g[a])
        BY <3>2, <3>a
      <3> QED BY <3>4, <3>5, <3>6, <3>7, <3>8, AddFourSwap
    <2> QED BY <2>1, <2>2
  <1> HIDE DEF P
  <1>2. \A J \in SUBSET (1 .. n) : J \in P
    BY <1>1, SetClimbs
  <1> QED BY <1>2 DEF P

LEMMA ProdNotZero ==
  ASSUME FieldLaws, NEW n \in Nat, NEW g, NEW I \in SUBSET (1 .. n),
         \A i \in I : g[i] \in Fe \ {Zero}
  PROVE  Prod(g, I, n) \in Fe /\ Prod(g, I, n) # Zero
  <1> DEFINE P == {J \in SUBSET (1 .. n) : J \subseteq I => Prod(g, J, n) \in Fe /\ Prod(g, J, n) # Zero}
  <1>1. ASSUME NEW J \in SUBSET (1 .. n), \A a \in J : J \ {a} \in P PROVE J \in P
    <2> SUFFICES ASSUME J \subseteq I PROVE Prod(g, J, n) \in Fe /\ Prod(g, J, n) # Zero
      OBVIOUS
    <2>1. CASE J = {}
      BY <2>1, ProdNone DEF FieldLaws
    <2>2. ASSUME NEW a \in J PROVE Prod(g, J, n) \in Fe /\ Prod(g, J, n) # Zero
      <3>1. Among(g, J, n) /\ a \in 1 .. n /\ g[a] # Zero
        BY DEF Among
      <3>2. g[a] \in Fe /\ Prod(g, J, n) = Mul(g[a], Prod(g, J \ {a}, n))
        BY <3>1, ProdSplit
      <3>3. Prod(g, J \ {a}, n) \in Fe /\ Prod(g, J \ {a}, n) # Zero
        BY <1>1
      <3> QED BY <3>1, <3>2, <3>3, MulNotZero
    <2> QED BY <2>1, <2>2
  <1> HIDE DEF P
  <1>2. \A J \in SUBSET (1 .. n) : J \in P
    BY <1>1, SetClimbs
  <1> QED BY <1>2 DEF P
-------------------------------------------------------------------------------
(* Divided differences *)

(* Points of shares: no two are the same.                                  *)
Points(x, n) == x \in Terms(n) /\ \A i, j \in 1 .. n : i # j => x[i] # x[j]

Gaps(x, i, n) == [j \in 1 .. n |-> Add(x[i], x[j])]
Gap(x, i, I, n) == Prod(Gaps(x, i, n), I \ {i}, n)
Parts(x, f, I, n) == [i \in 1 .. n |-> Mul(f[i], InverseOf(Gap(x, i, I, n)))]
Divided(x, f, I, n) == Sum(Parts(x, f, I, n), I, n)

LEMMA GapNotZero ==
  ASSUME FieldLaws, NEW n \in Nat, NEW x, Points(x, n), NEW i \in 1 .. n, NEW I \in SUBSET (1 .. n)
  PROVE  Gap(x, i, I, n) \in Fe /\ Gap(x, i, I, n) # Zero
  <1>1. \A j \in I \ {i} : Gaps(x, i, n)[j] \in Fe \ {Zero}
    <2> SUFFICES ASSUME NEW j \in I \ {i} PROVE Gaps(x, i, n)[j] \in Fe \ {Zero}
      OBVIOUS
    <2>1. x[i] \in Fe /\ x[j] \in Fe /\ x[i] # x[j] /\ Gaps(x, i, n)[j] = Add(x[i], x[j])
      BY DEF Points, Terms, Gaps
    <2> QED BY <2>1, AddNotZero
  <1>2. I \ {i} \in SUBSET (1 .. n)
    OBVIOUS
  <1> QED BY <1>1, <1>2, ProdNotZero DEF Gap

LEMMA PartIn ==
  ASSUME FieldLaws, NEW n \in Nat, NEW x, Points(x, n), NEW f \in Terms(n), NEW I \in SUBSET (1 .. n)
  PROVE  /\ Among(Parts(x, f, I, n), I, n)
         /\ \A i \in 1 .. n :
              /\ InverseOf(Gap(x, i, I, n)) \in Fe
              /\ Parts(x, f, I, n)[i] = Mul(f[i], InverseOf(Gap(x, i, I, n)))
  <1>1. \A i \in 1 .. n : InverseOf(Gap(x, i, I, n)) \in Fe
    BY GapNotZero DEF FieldLaws
  <1>2. \A i \in 1 .. n : f[i] \in Fe
    BY DEF Terms
  <1>3. \A i \in 1 .. n : Parts(x, f, I, n)[i] = Mul(f[i], InverseOf(Gap(x, i, I, n)))
    BY DEF Parts
  <1>4. \A i \in 1 .. n : Parts(x, f, I, n)[i] \in Fe
    BY <1>1, <1>2, <1>3 DEF FieldLaws
  <1> QED BY <1>1, <1>3, <1>4 DEF Among

LEMMA DividedIn ==
  ASSUME FieldLaws, NEW n \in Nat, NEW x, Points(x, n), NEW f \in Terms(n), NEW I \in SUBSET (1 .. n)
  PROVE  Divided(x, f, I, n) \in Fe
  BY PartIn, SumIn DEF Divided

(* Times the distance to a point, a function has the difference it has     *)
(* without that point.                                                     *)
LEMMA DividedLess ==
  ASSUME FieldLaws, NEW n \in Nat, NEW x, Points(x, n), NEW f \in Terms(n), NEW h \in Terms(n),
         NEW I \in SUBSET (1 .. n), NEW z \in I, \A i \in I : h[i] = Mul(Add(x[i], x[z]), f[i])
  PROVE  Divided(x, h, I, n) = Divided(x, f, I \ {z}, n)
  <1> DEFINE J == I \ {z}
             u == Parts(x, h, I, n)
             w == Parts(x, f, J, n)
  <1>z. z \in 1 .. n /\ J \in SUBSET (1 .. n)
    OBVIOUS
  <1>1. /\ Among(u, I, n) /\ Among(w, J, n)
        /\ \A i \in 1 .. n : u[i] = Mul(h[i], InverseOf(Gap(x, i, I, n)))
        /\ \A i \in 1 .. n : w[i] = Mul(f[i], InverseOf(Gap(x, i, J, n)))
    <2>1. Among(u, I, n) /\ \A i \in 1 .. n : u[i] = Mul(h[i], InverseOf(Gap(x, i, I, n)))
      BY PartIn
    <2> HIDE DEF J
    <2>2. Among(w, J, n) /\ \A i \in 1 .. n : w[i] = Mul(f[i], InverseOf(Gap(x, i, J, n)))
      BY <1>z, PartIn
    <2> QED BY <2>1, <2>2
  <1>x. \A i \in 1 .. n : x[i] \in Fe
    BY DEF Points, Terms
  <1> HIDE DEF u, w
  <1>2. u[z] = Zero
    <2>1. h[z] = Mul(Add(x[z], x[z]), f[z]) /\ f[z] \in Fe
      BY DEF Terms
    <2>2. Add(x[z], x[z]) = Zero
      BY <1>x, <1>z, AddLaws
    <2>3. h[z] = Zero
      BY <2>1, <2>2, MulZero
    <2>4. InverseOf(Gap(x, z, I, n)) \in Fe
      BY <1>z, GapNotZero DEF FieldLaws
    <2>5. u[z] = Mul(h[z], InverseOf(Gap(x, z, I, n)))
      BY <1>1, <1>z
    <2> QED BY <2>3, <2>4, <2>5, MulZero
  <1>3. ASSUME NEW i \in 1 .. n, i \in J PROVE u[i] = w[i]
    <2> DEFINE d == Add(x[i], x[z])
               q == Gap(x, i, J, n)
    <2>1. d \in Fe /\ d # Zero
      <3>1. x[i] \in Fe /\ x[z] \in Fe /\ x[i] # x[z]
        BY <1>3, <1>x, <1>z DEF Points
      <3> QED BY <3>1, AddNotZero
    <2>2. q \in Fe /\ q # Zero
      BY <1>z, GapNotZero
    <2>3. Gap(x, i, I, n) = Mul(d, q)
      <3> DEFINE g == Gaps(x, i, n)
                 K == I \ {i}
      <3>1. g[z] = d
        BY <1>z DEF Gaps
      <3>2. \A j \in 1 .. n : g[j] = Add(x[i], x[j]) /\ g[j] \in Fe
        <4>1. \A j \in 1 .. n : g[j] = Add(x[i], x[j])
          BY DEF Gaps
        <4> QED BY <4>1, <1>x, AddLaws
      <3>3. Among(g, K, n) /\ z \in K /\ K \ {z} = J \ {i}
        <4>1. z \in K /\ K \ {z} = J \ {i}
          BY <1>3
        <4> QED BY <3>2, <4>1 DEF Among
      <3> HIDE DEF g, d, K
      <3>4. Prod(g, K, n) = Mul(g[z], Prod(g, K \ {z}, n))
        BY <1>z, <3>3, ProdSplit
      <3> QED BY <3>1, <3>3, <3>4 DEF Gap, g, K
    <2>4. h[i] = Mul(d, f[i]) /\ f[i] \in Fe
      BY <1>3 DEF Terms
    <2>5. u[i] = Mul(h[i], InverseOf(Gap(x, i, I, n)))
      BY <1>1
    <2>6. w[i] = Mul(f[i], InverseOf(q))
      BY <1>1
    <2> HIDE DEF d, q
    <2> QED BY <2>1, <2>2, <2>3, <2>4, <2>5, <2>6, Reduce
  <1>4. Sum(u, J, n) \in Fe /\ Sum(u, I, n) = Add(u[z], Sum(u, J, n))
    BY <1>1, <1>z, SumSplit
  <1>5. Sum(u, J, n) = Sum(w, J, n)
    BY <1>3, SumSame
  <1>6. Add(Zero, Sum(u, J, n)) = Sum(u, J, n)
    BY <1>4, AddLaws
  <1> QED BY <1>2, <1>4, <1>5, <1>6 DEF Divided, u, w, J

LEMMA DividedBoth ==
  ASSUME FieldLaws, NEW n \in Nat, NEW x, Points(x, n), NEW f \in Terms(n), NEW g \in Terms(n),
         NEW h \in Terms(n), NEW I \in SUBSET (1 .. n), \A i \in I : h[i] = Add(f[i], g[i])
  PROVE  Divided(x, h, I, n) = Add(Divided(x, f, I, n), Divided(x, g, I, n))
  <1> DEFINE v(i) == InverseOf(Gap(x, i, I, n))
             F == Parts(x, f, I, n)
             G == Parts(x, g, I, n)
             H == Parts(x, h, I, n)
  <1>1. /\ Among(F, I, n) /\ Among(G, I, n)
        /\ \A i \in 1 .. n : /\ v(i) \in Fe
                             /\ F[i] = Mul(f[i], v(i)) /\ G[i] = Mul(g[i], v(i)) /\ H[i] = Mul(h[i], v(i))
    <2>1. Among(F, I, n) /\ \A i \in 1 .. n : v(i) \in Fe /\ F[i] = Mul(f[i], v(i))
      BY PartIn
    <2>2. Among(G, I, n) /\ \A i \in 1 .. n : G[i] = Mul(g[i], v(i))
      BY PartIn
    <2>3. \A i \in 1 .. n : H[i] = Mul(h[i], v(i))
      BY PartIn
    <2> QED BY <2>1, <2>2, <2>3
  <1> HIDE DEF v, F, G, H
  <1>2. ASSUME NEW i \in I PROVE H[i] = Add(F[i], G[i])
    <2>1. i \in 1 .. n /\ f[i] \in Fe /\ g[i] \in Fe /\ v(i) \in Fe /\ h[i] = Add(f[i], g[i])
      BY <1>1 DEF Terms
    <2>2. F[i] = Mul(f[i], v(i)) /\ G[i] = Mul(g[i], v(i)) /\ H[i] = Mul(h[i], v(i))
      BY <1>1, <2>1
    <2>3. Add(f[i], g[i]) \in Fe
      BY <2>1, AddLaws
    <2>4. Mul(v(i), Add(f[i], g[i])) = Add(Mul(v(i), f[i]), Mul(v(i), g[i]))
      BY <2>1, Distributes
    <2>5. \A a, b \in Fe : Mul(a, b) = Mul(b, a)
      BY DEF FieldLaws
    <2> QED BY <2>1, <2>2, <2>3, <2>4, <2>5
  <1>3. Sum(H, I, n) = Add(Sum(F, I, n), Sum(G, I, n))
    BY <1>1, <1>2, SumBoth
  <1> QED BY <1>3 DEF Divided, F, G, H

LEMMA DividedScale ==
  ASSUME FieldLaws, NEW n \in Nat, NEW x, Points(x, n), NEW c \in Fe, NEW f \in Terms(n),
         NEW h \in Terms(n), NEW I \in SUBSET (1 .. n), \A i \in I : h[i] = Mul(c, f[i])
  PROVE  Divided(x, h, I, n) = Mul(c, Divided(x, f, I, n))
  <1> DEFINE v(i) == InverseOf(Gap(x, i, I, n))
             F == Parts(x, f, I, n)
             H == Parts(x, h, I, n)
  <1>1. Among(F, I, n) /\ \A i \in 1 .. n : v(i) \in Fe /\ F[i] = Mul(f[i], v(i))
    BY PartIn
  <1>2. \A i \in 1 .. n : H[i] = Mul(h[i], v(i))
    BY PartIn
  <1> HIDE DEF v, F, H
  <1>3. ASSUME NEW i \in I PROVE H[i] = Mul(c, F[i])
    <2>1. i \in 1 .. n /\ f[i] \in Fe /\ v(i) \in Fe /\ h[i] = Mul(c, f[i])
      BY <1>1 DEF Terms
    <2>2. F[i] = Mul(f[i], v(i)) /\ H[i] = Mul(h[i], v(i))
      BY <1>1, <1>2, <2>1
    <2>3. Mul(c, Mul(f[i], v(i))) = Mul(Mul(c, f[i]), v(i))
      <3>1. \A a, b, d \in Fe : Mul(a, Mul(b, d)) = Mul(Mul(a, b), d)
        BY DEF FieldLaws
      <3> QED BY <2>1, <3>1
    <2> QED BY <2>1, <2>2, <2>3
  <1>4. Sum(H, I, n) = Mul(c, Sum(F, I, n))
    BY <1>1, <1>3, SumScale
  <1> QED BY <1>4 DEF Divided, F, H

Constant(c, n) == [i \in 1 .. n |-> c]

LEMMA DividedSingle ==
  ASSUME FieldLaws, NEW n \in Nat, NEW x, Points(x, n), NEW f \in Terms(n), NEW a \in 1 .. n
  PROVE  Divided(x, f, {a}, n) = f[a]
  <1> DEFINE u == Parts(x, f, {a}, n)
             v == InverseOf(Gap(x, a, {a}, n))
             A == {a}
  <1>a. a \in A /\ A \in SUBSET (1 .. n) /\ A \ {a} = {}
    OBVIOUS
  <1>1. Gap(x, a, A, n) = One
    BY <1>a, ProdNone DEF Gap
  <1>2. v = One
    <2>1. InverseOf(One) \in Fe /\ Mul(One, InverseOf(One)) = One /\ Mul(One, InverseOf(One)) = InverseOf(One)
      BY DEF FieldLaws
    <2> QED BY <1>1, <2>1
  <1> HIDE DEF A
  <1>3. Among(Parts(x, f, A, n), A, n) /\ Parts(x, f, A, n)[a] = Mul(f[a], InverseOf(Gap(x, a, A, n)))
    BY <1>a, PartIn
  <1>4. f[a] \in Fe /\ Mul(f[a], One) = f[a]
    <2>1. f[a] \in Fe
      BY DEF Terms
    <2>2. One \in Fe /\ \A b, c \in Fe : Mul(b, c) = Mul(c, b)
      BY DEF FieldLaws
    <2>3. Mul(One, f[a]) = f[a]
      BY <2>1 DEF FieldLaws
    <2> QED BY <2>1, <2>2, <2>3
  <1>5. Sum(Parts(x, f, A, n), A, n) = Add(Parts(x, f, A, n)[a], Sum(Parts(x, f, A, n), A \ {a}, n))
    BY <1>a, <1>3, SumSplit
  <1>6. Sum(Parts(x, f, A, n), A \ {a}, n) = Zero
    BY <1>a, SumNone
  <1>7. Parts(x, f, A, n)[a] = f[a]
    BY <1>1, <1>2, <1>3, <1>4 DEF A
  <1>8. Add(f[a], Zero) = f[a]
    BY <1>4, AddLaws
  <1> QED BY <1>5, <1>6, <1>7, <1>8 DEF Divided, A

(* Over two points or more the difference of a constant is nothing.        *)
LEMMA DividedOne ==
  ASSUME FieldLaws, NEW n \in Nat, NEW x, Points(x, n),
         NEW I \in SUBSET (1 .. n), NEW a \in I, NEW b \in I, a # b
  PROVE  Divided(x, Constant(One, n), I, n) = Zero
  <1> DEFINE e == Constant(One, n)
             D(J) == Divided(x, e, J, n)
             P == {J \in SUBSET (1 .. n) : \A z, t \in J : z # t => D(J) = Zero}
  <1>e. e \in Terms(n) /\ \A i \in 1 .. n : e[i] = One
    BY DEF Terms, Constant, FieldLaws
  <1>x. \A i \in 1 .. n : x[i] \in Fe
    BY DEF Points, Terms
  <1>o. One \in Fe /\ \A c \in Fe : Mul(c, One) = c
    <2>1. One \in Fe /\ \A c, d \in Fe : Mul(c, d) = Mul(d, c)
      BY DEF FieldLaws
    <2>2. \A c \in Fe : Mul(One, c) = c
      BY DEF FieldLaws
    <2> QED BY <2>1, <2>2
  <1> HIDE DEF e
  <1>1. ASSUME NEW J \in SUBSET (1 .. n), \A z \in J : J \ {z} \in P PROVE J \in P
    <2> SUFFICES ASSUME NEW z \in J, NEW t \in J, z # t PROVE D(J) = Zero
      OBVIOUS
    <2>n. z \in 1 .. n /\ t \in 1 .. n
      OBVIOUS
    <2> DEFINE c == Add(x[z], x[t])
               hz == [i \in 1 .. n |-> Mul(Add(x[i], x[z]), e[i])]
               ht == [i \in 1 .. n |-> Mul(Add(x[i], x[t]), e[i])]
               h == [i \in 1 .. n |-> Mul(c, e[i])]
    <2>c. c \in Fe /\ c # Zero
      BY <1>x, <2>n, AddNotZero DEF Points
    <2>h. \A i \in 1 .. n : hz[i] = Add(x[i], x[z]) /\ ht[i] = Add(x[i], x[t]) /\ h[i] = c
      <3> SUFFICES ASSUME NEW i \in 1 .. n
                   PROVE  hz[i] = Add(x[i], x[z]) /\ ht[i] = Add(x[i], x[t]) /\ h[i] = c
        OBVIOUS
      <3>1. Add(x[i], x[z]) \in Fe /\ Add(x[i], x[t]) \in Fe
        BY <1>x, <2>n, AddLaws
      <3>2. hz[i] = Mul(Add(x[i], x[z]), One) /\ ht[i] = Mul(Add(x[i], x[t]), One) /\ h[i] = Mul(c, One)
        BY <1>e
      <3> HIDE DEF hz, ht, h, c
      <3> QED BY <1>o, <2>c, <3>1, <3>2
    <2>i. /\ \A i \in J : hz[i] = Mul(Add(x[i], x[z]), e[i])
          /\ \A i \in J : ht[i] = Mul(Add(x[i], x[t]), e[i])
          /\ \A i \in J : h[i] = Mul(c, e[i])
      OBVIOUS
    <2>t. hz \in Terms(n) /\ ht \in Terms(n) /\ h \in Terms(n)
      <3>1. \A i \in 1 .. n : hz[i] \in Fe /\ ht[i] \in Fe /\ h[i] \in Fe
        <4> HIDE DEF hz, ht, h, c
        <4> QED BY <1>x, <2>n, <2>c, <2>h, AddLaws, SMTT(30)
      <3> QED BY <3>1 DEF Terms
    <2>s. \A i \in J : h[i] = Add(hz[i], ht[i])
      <3> SUFFICES ASSUME NEW i \in J PROVE h[i] = Add(hz[i], ht[i])
        OBVIOUS
      <3>1. x[i] \in Fe /\ x[z] \in Fe /\ x[t] \in Fe
        BY <1>x, <2>n
      <3>2. Add(Add(x[i], x[z]), Add(x[i], x[t])) = Add(Add(x[i], x[i]), Add(x[z], x[t]))
        BY <3>1, AddFourSwap
      <3>3. Add(x[i], x[i]) = Zero /\ Add(Zero, c) = c
        BY <3>1, <2>c, AddLaws
      <3>4. i \in 1 .. n
        OBVIOUS
      <3>5. hz[i] = Add(x[i], x[z]) /\ ht[i] = Add(x[i], x[t]) /\ h[i] = c
        BY <2>h, <3>4
      <3> HIDE DEF hz, ht, h
      <3> QED BY <3>2, <3>3, <3>5
    <2> HIDE DEF hz, ht, h, c
    <2>1. Divided(x, hz, J, n) = D(J \ {z})
      BY <1>e, <2>i, <2>t, DividedLess
    <2>2. Divided(x, ht, J, n) = D(J \ {t})
      BY <1>e, <2>i, <2>t, DividedLess
    <2>3. Divided(x, h, J, n) = Add(Divided(x, hz, J, n), Divided(x, ht, J, n))
      BY <2>s, <2>t, DividedBoth
    <2>4. Divided(x, h, J, n) = Mul(c, D(J))
      BY <1>e, <2>c, <2>i, <2>t, DividedScale
    <2>5. D(J) \in Fe
      BY <1>e, DividedIn
    <2>6. Add(D(J \ {z}), D(J \ {t})) = Zero
      <3>1. CASE \E y \in J : y # z /\ y # t
        <4>1. PICK y \in J : y # z /\ y # t
          BY <3>1
        <4>2. J \ {z} \in P /\ J \ {t} \in P /\ y \in J \ {z} /\ t \in J \ {z} /\ y \in J \ {t}
                /\ z \in J \ {t}
          BY <1>1, <4>1
        <4>3. D(J \ {z}) = Zero /\ D(J \ {t}) = Zero
          BY <4>1, <4>2
        <4>4. Add(Zero, Zero) = Zero
          BY AddLaws
        <4> QED BY <4>3, <4>4
      <3>2. CASE ~ \E y \in J : y # z /\ y # t
        <4>1. J \ {z} = {t} /\ J \ {t} = {z}
          BY <3>2
        <4>2. D({t}) = e[t] /\ D({z}) = e[z]
          BY <1>e, <2>n, DividedSingle
        <4>3. Add(One, One) = Zero
          BY <1>o, AddLaws
        <4> QED BY <1>e, <2>n, <4>1, <4>2, <4>3
      <3> QED BY <3>1, <3>2
    <2>7. Mul(c, D(J)) = Zero
      BY <2>1, <2>2, <2>3, <2>4, <2>6
    <2> QED BY <2>c, <2>5, <2>7, MulNotZero
  <1> HIDE DEF P
  <1>2. I \in P
    BY <1>1, SetClimbs
  <1>3. D(I) = Zero
    BY <1>2 DEF P
  <1> QED BY <1>3 DEF e

-------------------------------------------------------------------------------
(* Polynomials *)

Horner(v, x, p, k) ==
  /\ v \in [1 .. k + 1 -> Fe]
  /\ v[k + 1] = Zero
  /\ \A i \in 1 .. k : v[i] = Add(Mul(v[i + 1], x), p[i])

LEMMA Sizes ==
  ASSUME NEW n \in Nat, NEW I \in SUBSET (1 .. n)
  PROVE  /\ IsFiniteSet(I) /\ Cardinality(I) \in 0 .. n
         /\ \A z \in I : I \ {z} \in SUBSET (1 .. n) /\ Cardinality(I \ {z}) = Cardinality(I) - 1
         /\ Cardinality(I) >= 1 => I # {}
         /\ Cardinality(I) >= 2 => \E a, b \in I : a # b
  <1> DEFINE S == 1 .. n
  <1>s. IsFiniteSet(S) /\ Cardinality(S) = n /\ I \in SUBSET S
    BY FS_Interval
  <1> HIDE DEF S
  <1>1. IsFiniteSet(I) /\ Cardinality(I) <= n
    BY <1>s, FS_Subset
  <1>2. Cardinality(I) \in Nat
    BY <1>1, FS_CardinalityType
  <1>3. \A z \in I : I \ {z} \in SUBSET (1 .. n) /\ Cardinality(I \ {z}) = Cardinality(I) - 1
    BY <1>1, FS_RemoveElement
  <1>4. Cardinality({}) = 0
    BY FS_EmptySet
  <1>5. Cardinality(I) >= 1 => I # {}
    BY <1>4
  <1>6. ASSUME Cardinality(I) >= 2 PROVE \E a, b \in I : a # b
    <2>0. I # {}
      BY <1>5, <1>6, <1>2
    <2>1. PICK a \in I : TRUE
      BY <2>0
    <2>2. Cardinality(I \ {a}) = Cardinality(I) - 1
      BY <1>3
    <2>3. I \ {a} # {}
      BY <1>2, <1>4, <1>6, <2>2
    <2> QED BY <2>3
  <1> QED BY <1>1, <1>2, <1>3, <1>5, <1>6

(* A polynomial has no difference over more points than coefficients, and  *)
(* its last coefficient over as many.                                      *)
LEMMA DividedPoly ==
  ASSUME FieldLaws, NEW n \in Nat, NEW x, Points(x, n), NEW k \in Nat \ {0}, NEW p \in Terms(k),
         NEW w, \A i \in 1 .. n : Horner(w[i], x[i], p, k),
         NEW f \in Terms(n), \A i \in 1 .. n : f[i] = w[i][1],
         NEW I \in SUBSET (1 .. n)
  PROVE  /\ Cardinality(I) > k => Divided(x, f, I, n) = Zero
         /\ Cardinality(I) = k => Divided(x, f, I, n) = p[k]
  <1> DEFINE E(j) == [i \in 1 .. n |-> w[i][k + 1 - j]]
             T == {j \in 0 .. k : \A J \in SUBSET (1 .. n) :
                      /\ Cardinality(J) > j => Divided(x, E(j), J, n) = Zero
                      /\ Cardinality(J) = j /\ j >= 1 => Divided(x, E(j), J, n) = p[k]}
             one == Constant(One, n)
  <1>x. \A i \in 1 .. n : x[i] \in Fe
    BY DEF Points, Terms
  <1>e. \A j \in 0 .. k : E(j) \in Terms(n) /\ \A i \in 1 .. n : E(j)[i] = w[i][k + 1 - j] /\ E(j)[i] \in Fe
    <2> TAKE j \in 0 .. k
    <2>1. \A i \in 1 .. n : w[i][k + 1 - j] \in Fe
      <3> TAKE i \in 1 .. n
      <3>1. k + 1 - j \in 1 .. k + 1
        OBVIOUS
      <3>2. w[i] \in [1 .. k + 1 -> Fe]
        BY DEF Horner
      <3> QED BY <3>1, <3>2
    <2> QED BY <2>1 DEF Terms
  <1>o. One \in Fe /\ one \in Terms(n) /\ \A i \in 1 .. n : one[i] = One
    BY DEF Terms, Constant, FieldLaws
  <1>z. \A i \in 1 .. n : E(0)[i] = Zero
    BY DEF Horner
  <1> HIDE DEF one
  <1>s. \A j \in 0 .. k - 1 : \A i \in 1 .. n : E(j + 1)[i] = Add(Mul(E(j)[i], x[i]), p[k - j])
    <2> TAKE j \in 0 .. k - 1
    <2> TAKE i \in 1 .. n
    <2>1. k - j \in 1 .. k /\ k + 1 - (j + 1) = k - j /\ k + 1 - j = (k - j) + 1
      OBVIOUS
    <2>2. w[i][k - j] = Add(Mul(w[i][(k - j) + 1], x[i]), p[k - j])
      BY <2>1 DEF Horner
    <2> QED BY <2>1, <2>2
  <1>p. \A j \in 1 .. k : p[j] \in Fe
    BY DEF Terms
  <1>1. 0 \in T
    <2> SUFFICES ASSUME NEW J \in SUBSET (1 .. n), Cardinality(J) > 0 PROVE Divided(x, E(0), J, n) = Zero
      OBVIOUS
    <2> HIDE DEF E
    <2>1. \A i \in J : E(0)[i] = Mul(Zero, E(0)[i])
      <3> SUFFICES ASSUME NEW i \in J PROVE E(0)[i] = Mul(Zero, E(0)[i])
        OBVIOUS
      <3>1. i \in 1 .. n /\ E(0)[i] = Zero
        BY <1>z
      <3> QED BY <3>1, MulZero, AddLaws
    <2>2. E(0) \in Terms(n) /\ Zero \in Fe
      BY <1>e, AddLaws
    <2>3. Divided(x, E(0), J, n) = Mul(Zero, Divided(x, E(0), J, n))
      BY <2>1, <2>2, DividedScale
    <2>4. Divided(x, E(0), J, n) \in Fe
      BY <2>2, DividedIn
    <2> QED BY <2>3, <2>4, MulZero
  <1> HIDE DEF E
  <1>2. ASSUME NEW j \in 0 .. k - 1, j \in T PROVE j + 1 \in T
    <2>j. j \in 0 .. k /\ j + 1 \in 0 .. k /\ k - j \in 1 .. k
      OBVIOUS
    <2> SUFFICES ASSUME NEW J \in SUBSET (1 .. n), Cardinality(J) >= j + 1
                 PROVE  /\ Cardinality(J) > j + 1 => Divided(x, E(j + 1), J, n) = Zero
                        /\ Cardinality(J) = j + 1 => Divided(x, E(j + 1), J, n) = p[k]
      <3>1. \A J \in SUBSET (1 .. n) : Cardinality(J) \in Int
        BY Sizes
      <3>2. \A J \in SUBSET (1 .. n) : Cardinality(J) > j + 1 \/ Cardinality(J) = j + 1
              => Cardinality(J) >= j + 1
        BY <3>1
      <3> QED BY <2>j, <3>2
    <2>f. /\ IsFiniteSet(J) /\ Cardinality(J) \in Nat /\ J # {}
          /\ \A z \in J : J \ {z} \in SUBSET (1 .. n) /\ Cardinality(J \ {z}) = Cardinality(J) - 1
          /\ Cardinality(J) >= 2 => \E a, b \in J : a # b
      BY <2>j, Sizes
    <2>z. PICK z \in J : TRUE
      BY <2>f
    <2> DEFINE c == p[k - j]
               J1 == J \ {z}
               g == E(j)
               ht == [i \in 1 .. n |-> Mul(Add(x[i], x[z]), g[i])]
               hz == [i \in 1 .. n |-> Mul(x[z], g[i])]
               hc == [i \in 1 .. n |-> Mul(c, one[i])]
               hs == [i \in 1 .. n |-> Add(ht[i], hz[i])]
               D(h) == Divided(x, h, J, n)
    <2>g. g \in Terms(n) /\ c \in Fe /\ x[z] \in Fe /\ \A i \in 1 .. n : g[i] \in Fe
      BY <1>e, <1>p, <1>x, <2>j
    <2>i. \A i \in 1 .. n : /\ ht[i] = Mul(Add(x[i], x[z]), g[i])
                            /\ hz[i] = Mul(x[z], g[i])
                            /\ hc[i] = Mul(c, one[i])
                            /\ hs[i] = Add(ht[i], hz[i])
      OBVIOUS
    <2>t. ht \in Terms(n) /\ hz \in Terms(n) /\ hc \in Terms(n) /\ hs \in Terms(n)
      <3>1. ASSUME NEW i \in 1 .. n PROVE ht[i] \in Fe /\ hz[i] \in Fe /\ hc[i] \in Fe /\ hs[i] \in Fe
        <4> HIDE DEF ht, hz, hc, hs, g, c
        <4>m. \A a, b \in Fe : Mul(a, b) \in Fe /\ Add(a, b) \in Fe
          BY AddLaws DEF FieldLaws
        <4>1. ht[i] = Mul(Add(x[i], x[z]), g[i]) /\ hz[i] = Mul(x[z], g[i]) /\ hc[i] = Mul(c, One)
                /\ hs[i] = Add(ht[i], hz[i])
          BY <2>i, <1>o
        <4>2. x[i] \in Fe /\ g[i] \in Fe
          BY <1>x, <2>g
        <4> QED BY <4>1, <4>2, <4>m, <2>g, <1>o
      <3> QED BY <3>1 DEF Terms
    <2>e. E(j + 1) \in Terms(n)
      BY <1>e, <2>j
    <2> HIDE DEF ht, hz, hc, hs, g, c
    <2>1. \A i \in J : E(j + 1)[i] = Add(hs[i], hc[i])
      <3> SUFFICES ASSUME NEW i \in J PROVE E(j + 1)[i] = Add(hs[i], hc[i])
        OBVIOUS
      <3>n. i \in 1 .. n
        OBVIOUS
      <3>m. \A a, b \in Fe : Mul(a, b) \in Fe /\ Mul(a, b) = Mul(b, a)
        BY DEF FieldLaws
      <3>d. \A a, b, d \in Fe : Mul(a, Add(b, d)) = Add(Mul(a, b), Mul(a, d))
        BY DEF FieldLaws
      <3>o. \A a \in Fe : Mul(One, a) = a
        BY DEF FieldLaws
      <3>1. x[i] \in Fe /\ x[z] \in Fe /\ g[i] \in Fe
        BY <3>n, <1>x, <2>g
      <3>2. hc[i] = c
        BY <3>n, <3>m, <3>o, <2>i, <2>g, <1>o
      <3>3. E(j + 1)[i] = Add(Mul(g[i], x[i]), c)
        BY <1>s, <3>n DEF g, c
      <3>4. hs[i] = Add(Mul(Add(x[i], x[z]), g[i]), Mul(x[z], g[i]))
        BY <2>i, <3>n
      <3>5. Mul(Add(x[i], x[z]), g[i]) = Add(Mul(g[i], x[i]), Mul(g[i], x[z]))
        <4>1. Add(x[i], x[z]) \in Fe
          BY <3>1, AddLaws
        <4>2. Mul(g[i], Add(x[i], x[z])) = Add(Mul(g[i], x[i]), Mul(g[i], x[z]))
          BY <3>1, Distributes
        <4>3. Mul(Add(x[i], x[z]), g[i]) = Mul(g[i], Add(x[i], x[z]))
          BY <4>1, <3>1, <3>m
        <4> QED BY <4>2, <4>3
      <3>6. Mul(x[z], g[i]) = Mul(g[i], x[z]) /\ Mul(g[i], x[z]) \in Fe /\ Mul(g[i], x[i]) \in Fe
        BY <3>1, <3>m
      <3> DEFINE A == Mul(g[i], x[i])
                 B == Mul(g[i], x[z])
      <3>7. A \in Fe /\ B \in Fe /\ hs[i] = Add(Add(A, B), B)
        BY <3>4, <3>5, <3>6
      <3>8. E(j + 1)[i] = Add(A, c)
        BY <3>3
      <3> HIDE DEF A, B
      <3>9. Add(Add(A, B), B) = Add(A, Add(B, B)) /\ Add(B, B) = Zero /\ Add(A, Zero) = A
        BY <3>7, AddLaws
      <3> QED BY <3>2, <3>7, <3>8, <3>9
    <2>2. D(E(j + 1)) = Add(D(hs), D(hc))
      BY <2>1, <2>t, <2>e, DividedBoth
    <2>3. D(hs) = Add(D(ht), D(hz))
      <3>1. \A i \in J : hs[i] = Add(ht[i], hz[i])
        BY <2>i
      <3> QED BY <3>1, <2>t, DividedBoth
    <2>4. D(ht) = Divided(x, g, J1, n)
      <3>1. \A i \in J : ht[i] = Mul(Add(x[i], x[z]), g[i])
        BY <2>i
      <3> QED BY <3>1, <2>t, <2>g, DividedLess
    <2>5. D(hz) = Mul(x[z], D(g))
      <3>1. \A i \in J : hz[i] = Mul(x[z], g[i])
        BY <2>i
      <3> QED BY <3>1, <2>t, <2>g, DividedScale
    <2>6. D(hc) = Mul(c, D(one))
      <3>1. \A i \in J : hc[i] = Mul(c, one[i])
        BY <2>i
      <3>2. c \in Fe /\ one \in Terms(n) /\ hc \in Terms(n)
        BY <2>t, <2>g, <1>o
      <3> QED BY <3>1, <3>2, DividedScale
    <2>7. D(g) = Zero
      <3>1. Cardinality(J) > j
        BY <2>f
      <3> QED BY <1>2, <3>1 DEF g
    <2>8. D(hz) = Zero
      BY <2>5, <2>7, <2>g, MulZero
    <2>9. D(hc) \in Fe
      BY <2>t, DividedIn
    <2>10. D(ht) \in Fe
      BY <2>t, DividedIn
    <2>11. D(E(j + 1)) = Add(Divided(x, g, J1, n), D(hc))
      <3> HIDE DEF D, J1
      <3>1. Add(D(ht), Zero) = D(ht)
        BY <2>10, AddLaws
      <3> QED BY <2>2, <2>3, <2>4, <2>8, <3>1
    <2>12. J1 \in SUBSET (1 .. n) /\ Cardinality(J1) = Cardinality(J) - 1
      BY <2>f
    <2>c. Cardinality(J) >= 2 => D(hc) = Zero
      <3> SUFFICES ASSUME Cardinality(J) >= 2 PROVE D(hc) = Zero
        OBVIOUS
      <3>1. D(one) = Zero
        BY <2>f, DividedOne DEF one
      <3> QED BY <2>6, <3>1, <2>g, MulZero
    <2>13. ASSUME Cardinality(J) > j + 1 PROVE D(E(j + 1)) = Zero
      <3>1. Cardinality(J1) > j /\ Cardinality(J) >= 2
        BY <2>f, <2>12, <2>13
      <3>2. Divided(x, g, J1, n) = Zero
        BY <1>2, <2>12, <3>1 DEF g
      <3>3. Add(Zero, Zero) = Zero
        BY AddLaws
      <3> QED BY <2>11, <2>c, <3>1, <3>2, <3>3
    <2>14. ASSUME Cardinality(J) = j + 1 PROVE D(E(j + 1)) = p[k]
      <3>p. p[k] \in Fe /\ Add(p[k], Zero) = p[k] /\ Add(Zero, p[k]) = p[k]
        <4>1. p[k] \in Fe
          BY <1>p
        <4> QED BY <4>1, AddLaws
      <3>1. CASE j >= 1
        <4>1. Cardinality(J1) = j /\ Cardinality(J) >= 2
          BY <2>12, <2>14, <3>1
        <4>2. Divided(x, g, J1, n) = p[k]
          BY <1>2, <2>12, <3>1, <4>1 DEF g
        <4> QED BY <2>11, <2>c, <3>p, <4>1, <4>2
      <3>2. CASE j = 0
        <4>1. Cardinality(J1) = 0 /\ IsFiniteSet(J1)
          <5>1. IsFiniteSet(J1)
            BY <2>12, Sizes
          <5> QED BY <2>12, <2>14, <3>2, <5>1
        <4>2. J1 = {} /\ J = {z}
          <5>1. J1 = {}
            BY <4>1, FS_EmptySet
          <5> QED BY <5>1
        <4>3. Divided(x, g, J1, n) = Zero
          BY <4>2, SumNone DEF Divided
        <4>4. z \in 1 .. n /\ Divided(x, hc, {z}, n) = hc[z]
          <5>1. z \in 1 .. n
            OBVIOUS
          <5> QED BY <5>1, <2>t, DividedSingle
        <4>5. hc[z] = c /\ c = p[k]
          <5>1. hc[z] = Mul(c, One)
            BY <2>i, <4>4, <1>o
          <5>2. Mul(c, One) = Mul(One, c) /\ Mul(One, c) = c
            BY <2>g, <1>o DEF FieldLaws
          <5> QED BY <5>1, <5>2, <3>2 DEF c
        <4>6. D(hc) = p[k]
          BY <4>2, <4>4, <4>5
        <4> QED BY <2>11, <3>p, <4>3, <4>6
      <3> QED BY <3>1, <3>2
    <2> QED BY <2>13, <2>14
  <1> HIDE DEF T
  <1>3. k \in T
    BY <1>1, <1>2, Climbs
  <1>4. f = E(k)
    BY DEF E, Terms
  <1> QED BY <1>3, <1>4 DEF T

(* f has the values of p at the points x, by the calculations w.           *)
Values(f, w, x, p, k, n) == \A i \in 1 .. n : Horner(w[i], x[i], p, k) /\ f[i] = w[i][1]

LEMMA DividedValues ==
  ASSUME FieldLaws, NEW n \in Nat, NEW x, Points(x, n), NEW k \in Nat \ {0}, NEW p \in Terms(k),
         NEW w, NEW f \in Terms(n), Values(f, w, x, p, k, n),
         NEW I \in SUBSET (1 .. n)
  PROVE  /\ Cardinality(I) > k => Divided(x, f, I, n) = Zero
         /\ Cardinality(I) = k => Divided(x, f, I, n) = p[k]
  <1>1. (\A i \in 1 .. n : Horner(w[i], x[i], p, k)) /\ (\A i \in 1 .. n : f[i] = w[i][1])
    BY DEF Values
  <1> QED BY <1>1, DividedPoly
-------------------------------------------------------------------------------
(* The recursions of sss.py *)

LEMMA LenIs ==
  ASSUME NEW m \in Nat, NEW S, NEW s \in [1 .. m -> S]
  PROVE  Len(s) = m /\ s \in Seq(S)
  <1>1. s \in Seq(S)
    BY SeqDef
  <1>2. Len(s) \in Nat /\ DOMAIN s = 1 .. Len(s)
    BY <1>1
  <1>3. DOMAIN s = 1 .. m
    OBVIOUS
  <1> QED BY <1>1, <1>2, <1>3

LEMMA ProductIs ==
  ASSUME FieldLaws, NEW m \in Nat, NEW g \in Terms(m)
  PROVE  ProductOf(g) = Total(MulOp, One, g, m)
  <1> DEFINE G(k) == Total(MulOp, One, g, k)
             part(f, i) == IF i = 0 THEN One ELSE Mul(f[i - 1], g[i])
             r == [i \in 0 .. m |-> G(i)]
             e == CHOOSE f : f = [i \in 0 .. m |-> part(f, i)]
  <1>l. Len(g) = m
    BY LenIs DEF Terms
  <1>g. \A i \in 1 .. m : g[i] \in Fe
    BY DEF Terms
  <1>1. G(0) = One /\ \A k \in 0 .. m - 1 : G(k + 1) = Ap(MulOp, G(k), g[k + 1])
    <2>1. Grows(MulOp, One, g, m)
      BY Totals
    <2> QED BY <2>1 DEF Grows
  <1>2. \A k \in 0 .. m : G(k) \in Fe
    BY MulMonoid, TotalIn
  <1> HIDE DEF G
  <1>3. \A k \in 0 .. m - 1 : G(k + 1) = Mul(G(k), g[k + 1])
    <2> TAKE k \in 0 .. m - 1
    <2>1. k \in 0 .. m /\ k + 1 \in 1 .. m
      OBVIOUS
    <2>2. G(k) \in Fe /\ g[k + 1] \in Fe
      BY <1>2, <1>g, <2>1
    <2> QED BY <1>1, <2>2, MulApplied
  <1>4. ASSUME NEW i \in 0 .. m PROVE r[i] = part(r, i)
    <2>1. CASE i = 0
      BY <1>1, <2>1
    <2>2. CASE i # 0
      <3>1. i - 1 \in 0 .. m - 1 /\ i - 1 \in 0 .. m /\ (i - 1) + 1 = i
        BY <2>2
      <3>2. r[i - 1] = G(i - 1) /\ r[i] = G(i)
        BY <3>1
      <3>3. G((i - 1) + 1) = Mul(G(i - 1), g[(i - 1) + 1])
        BY <1>3, <3>1
      <3> QED BY <2>2, <3>1, <3>2, <3>3
    <2> QED BY <2>1, <2>2
  <1>5. r = [i \in 0 .. m |-> part(r, i)]
    <2> HIDE DEF part
    <2> QED BY <1>4
  <1>6. e = [i \in 0 .. m |-> part(e, i)] /\ ProductOf(g) = e[m]
    BY <1>5, <1>l, Zenon DEF ProductOf
  <1> HIDE DEF e, r
  <1>7. \A i \in 0 .. m : e[i] = part(e, i)
    <2> HIDE DEF part
    <2> QED BY <1>6
  <1> DEFINE T == {k \in 0 .. m : e[k] = G(k)}
  <1>8. 0 \in T
    BY <1>1, <1>7
  <1>9. ASSUME NEW k \in 0 .. m - 1, k \in T PROVE k + 1 \in T
    <2>1. k + 1 \in 0 .. m /\ k + 1 # 0 /\ (k + 1) - 1 = k
      OBVIOUS
    <2>2. e[k + 1] = Mul(e[k], g[k + 1])
      BY <1>7, <2>1
    <2> QED BY <1>3, <1>9, <2>1, <2>2
  <1> HIDE DEF T
  <1>10. m \in T
    BY <1>8, <1>9, Climbs
  <1> QED BY <1>6, <1>10 DEF T, G

(* The product of all points but one.                                      *)
Skip(x, i, m) == [j \in 1 .. m - 1 |-> x[IF j < i THEN j ELSE j + 1]]

LEMMA SkipProduct ==
  ASSUME FieldLaws, NEW m \in Nat \ {0}, NEW g \in Terms(m), NEW a \in 1 .. m
  PROVE  Skip(g, a, m) \in Terms(m - 1) /\ ProductOf(Skip(g, a, m)) = Prod(g, (1 .. m) \ {a}, m)
  <1> DEFINE s == Skip(g, a, m)
             h == Only(One, g, (1 .. m) \ {a}, m)
             S(k) == Total(MulOp, One, s, k)
             H(k) == Total(MulOp, One, h, k)
             T == {k \in 0 .. m - 1 : S(k) = H(IF k < a THEN k ELSE k + 1)}
  <1>n. m - 1 \in Nat /\ m \in Nat
    OBVIOUS
  <1>s. s \in Terms(m - 1) /\ \A j \in 1 .. m - 1 : s[j] = g[IF j < a THEN j ELSE j + 1]
    <2>1. \A j \in 1 .. m - 1 : g[IF j < a THEN j ELSE j + 1] \in Fe
      BY DEF Terms
    <2> QED BY <2>1 DEF Terms, Skip
  <1>h. h \in Terms(m) /\ \A j \in 1 .. m : h[j] = IF j = a THEN One ELSE g[j]
    BY DEF Terms, Only, FieldLaws
  <1> HIDE DEF s, h
  <1>1. S(0) = One /\ \A k \in 0 .. m - 2 : S(k + 1) = Ap(MulOp, S(k), s[k + 1])
    <2>1. Grows(MulOp, One, s, m - 1)
      BY <1>n, Totals
    <2> QED BY <2>1 DEF Grows
  <1>2. H(0) = One /\ \A k \in 0 .. m - 1 : H(k + 1) = Ap(MulOp, H(k), h[k + 1])
    <2>1. Grows(MulOp, One, h, m)
      BY <1>n, Totals
    <2> QED BY <2>1 DEF Grows
  <1>3. \A k \in 0 .. m : H(k) \in Fe
    BY <1>n, <1>h, MulMonoid, TotalIn
  <1> HIDE DEF S, H
  <1>4. H(a) = H(a - 1)
    <2>1. a - 1 \in 0 .. m - 1 /\ (a - 1) + 1 = a /\ a - 1 \in 0 .. m
      OBVIOUS
    <2>2. H(a) = Ap(MulOp, H(a - 1), One)
      BY <1>2, <1>h, <2>1
    <2>3. H(a - 1) \in Fe
      BY <1>3, <2>1
    <2> QED BY <2>2, <2>3, MulMonoid DEF Monoid
  <1>5. 0 \in T
    BY <1>1, <1>2
  <1>6. ASSUME NEW k \in 0 .. (m - 1) - 1, k \in T PROVE k + 1 \in T
    <2>1. k \in 0 .. m - 2 /\ k + 1 \in 0 .. m - 1 /\ k + 1 \in 1 .. m - 1
      OBVIOUS
    <2>2. S(k + 1) = Ap(MulOp, S(k), s[k + 1])
      BY <1>1, <2>1
    <2>3. S(k) = H(IF k < a THEN k ELSE k + 1)
      BY <1>6
    <2>4. s[k + 1] = g[IF k + 1 < a THEN k + 1 ELSE (k + 1) + 1]
      BY <1>s, <2>1
    <2>5. CASE k + 1 < a
      <3>1. k < a /\ k + 1 # a /\ k + 1 \in 1 .. m /\ k \in 0 .. m - 1
        BY <2>5
      <3>2. h[k + 1] = g[k + 1] /\ H(k + 1) = Ap(MulOp, H(k), h[k + 1])
        BY <1>2, <1>h, <3>1
      <3> QED BY <2>1, <2>2, <2>3, <2>4, <2>5, <3>1, <3>2
    <2>6. CASE k + 1 >= a
      <3>1. S(k) = H(k + 1)
        <4>1. CASE k < a
          <5>1. a = k + 1
            BY <2>6, <4>1
          <5>2. H(k + 1) = H(k)
            BY <1>4, <5>1
          <5> QED BY <2>3, <4>1, <5>2
        <4>2. CASE ~(k < a)
          BY <2>3, <4>2
        <4> QED BY <4>1, <4>2
      <3>2. k + 1 \in 0 .. m - 1 /\ (k + 1) + 1 \in 1 .. m /\ (k + 1) + 1 # a /\ ~(k + 1 < a)
        BY <2>6
      <3>3. h[(k + 1) + 1] = g[(k + 1) + 1] /\ H((k + 1) + 1) = Ap(MulOp, H(k + 1), h[(k + 1) + 1])
        BY <1>2, <1>h, <3>2
      <3> QED BY <2>1, <2>2, <2>4, <3>1, <3>2, <3>3
    <2> QED BY <2>5, <2>6
  <1> HIDE DEF T
  <1>7. m - 1 \in T
    BY <1>n, <1>5, <1>6, Climbs
  <1>8. S(m - 1) = H(m)
    <2>1. CASE m - 1 < a
      <3>1. m = a
        BY <2>1
      <3> QED BY <1>4, <1>7, <2>1, <3>1 DEF T
    <2>2. CASE ~(m - 1 < a)
      BY <1>7, <2>2 DEF T
    <2> QED BY <2>1, <2>2
  <1>9. ProductOf(s) = S(m - 1)
    BY <1>n, <1>s, ProductIs DEF S
  <1> QED BY <1>s, <1>8, <1>9 DEF Prod, Over, H, h, s

LEMMA EvalPolyIs ==
  ASSUME FieldLaws, NEW x \in Fe, NEW k \in Nat \ {0}, NEW p \in Terms(k)
  PROVE  \E v : Horner(v, x, p, k) /\ EvalPoly(x, p) = v[1]
  <1> DEFINE op == [a \in Fe |-> [b \in Fe |-> Add(Mul(a, x), b)]]
             g == [j \in 1 .. k |-> p[k + 1 - j]]
             part(f, i) == IF i > Len(p) THEN Zero ELSE Add(Mul(f[i + 1], x), p[i])
             e == CHOOSE f : f = [i \in 1 .. Len(p) + 1 |-> part(f, i)]
  <1>l. Len(p) = k
    BY LenIs DEF Terms
  <1>p. \A i \in 1 .. k : p[i] \in Fe
    BY DEF Terms
  <1>m. \A a, b \in Fe : Add(Mul(a, x), b) \in Fe
    BY AddLaws DEF FieldLaws
  <1>o. \A a, b \in Fe : Ap(op, a, b) = Add(Mul(a, x), b)
    BY DEF Ap
  <1> HIDE DEF op
  <1>1. PICK s : Steps(s, op, Zero, g, k)
    BY StepsExist
  <1>2. \A j \in 0 .. k : s[j] \in Fe
    <2> DEFINE T == {j \in 0 .. k : s[j] \in Fe}
    <2>1. 0 \in T
      BY <1>1, AddLaws DEF Steps
    <2>2. ASSUME NEW j \in 0 .. k - 1, j \in T PROVE j + 1 \in T
      <3>1. j + 1 \in 1 .. k /\ (j + 1) - 1 = j /\ j + 1 \in 0 .. k /\ k + 1 - (j + 1) \in 1 .. k
        OBVIOUS
      <3>2. s[j + 1] = Ap(op, s[j], g[j + 1])
        BY <1>1, <3>1 DEF Steps
      <3>3. g[j + 1] \in Fe
        BY <1>p, <3>1
      <3> HIDE DEF g
      <3>4. s[j] \in Fe
        BY <2>2
      <3>5. s[j + 1] = Add(Mul(s[j], x), g[j + 1])
        BY <1>o, <3>2, <3>3, <3>4
      <3>6. s[j + 1] \in Fe
        BY <1>m, <3>3, <3>4, <3>5
      <3> QED BY <3>1, <3>6
    <2> HIDE DEF T
    <2>3. \A j \in 0 .. k : j \in T
      BY <2>1, <2>2, Climbs
    <2> QED BY <2>3 DEF T
  <1> DEFINE r == [i \in 1 .. k + 1 |-> s[k + 1 - i]]
  <1>3. ASSUME NEW i \in 1 .. Len(p) + 1 PROVE r[i] = part(r, i)
    <2>1. CASE i > Len(p)
      <3>1. i = k + 1 /\ k + 1 - i = 0
        BY <1>l, <2>1
      <3>2. r[i] = s[0]
        BY <3>1
      <3>3. s[0] = Zero
        BY <1>1 DEF Steps
      <3> QED BY <2>1, <3>2, <3>3
    <2>2. CASE ~(i > Len(p))
      <3>1. /\ i \in 1 .. k /\ i + 1 \in 1 .. k + 1 /\ k + 1 - i \in 1 .. k
            /\ (k + 1 - i) - 1 = k + 1 - (i + 1) /\ k + 1 - (i + 1) \in 0 .. k
            /\ k + 1 - (k + 1 - i) = i
        BY <1>l, <2>2
      <3>2. s[k + 1 - i] = Ap(op, s[(k + 1 - i) - 1], g[k + 1 - i])
        BY <1>1, <3>1 DEF Steps
      <3>3. g[k + 1 - i] = p[i]
        BY <3>1
      <3>4. r[i] = s[k + 1 - i] /\ r[i + 1] = s[k + 1 - (i + 1)]
        BY <3>1
      <3> HIDE DEF g, r
      <3>5. s[k + 1 - (i + 1)] \in Fe /\ p[i] \in Fe
        BY <1>2, <1>p, <3>1
      <3>6. r[i] = Add(Mul(r[i + 1], x), p[i])
        BY <1>o, <3>1, <3>2, <3>3, <3>4, <3>5
      <3> QED BY <2>2, <3>6
    <2> QED BY <2>1, <2>2
  <1>4. r = [i \in 1 .. Len(p) + 1 |-> part(r, i)]
    <2>1. r = [i \in 1 .. Len(p) + 1 |-> r[i]]
      BY <1>l
    <2> HIDE DEF part, r
    <2> QED BY <1>3, <2>1
  <1>5. e = [i \in 1 .. Len(p) + 1 |-> part(e, i)] /\ EvalPoly(x, p) = e[1]
    BY <1>4, Zenon DEF EvalPoly
  <1> HIDE DEF e, r
  <1>6. \A i \in 1 .. k + 1 : e[i] = part(e, i)
    <2> HIDE DEF part
    <2> QED BY <1>5, <1>l
  <1>7. e[k + 1] = Zero
    BY <1>6, <1>l
  <1>8. \A i \in 1 .. k : e[i] = Add(Mul(e[i + 1], x), p[i])
    BY <1>6, <1>l
  <1>9. \A i \in 1 .. k + 1 : e[i] \in Fe
    <2> DEFINE T == {j \in 0 .. k : e[k + 1 - j] \in Fe}
    <2>1. 0 \in T
      BY <1>7, AddLaws
    <2>2. ASSUME NEW j \in 0 .. k - 1, j \in T PROVE j + 1 \in T
      <3>1. k + 1 - (j + 1) \in 1 .. k /\ (k + 1 - (j + 1)) + 1 = k + 1 - j /\ j + 1 \in 0 .. k
        OBVIOUS
      <3>2. e[k + 1 - (j + 1)] = Add(Mul(e[k + 1 - j], x), p[k + 1 - (j + 1)])
        BY <1>8, <3>1
      <3>3. e[k + 1 - j] \in Fe /\ p[k + 1 - (j + 1)] \in Fe
        BY <1>p, <2>2, <3>1
      <3>4. e[k + 1 - (j + 1)] \in Fe
        BY <1>m, <3>2, <3>3
      <3> QED BY <3>1, <3>4
    <2> HIDE DEF T
    <2>3. \A j \in 0 .. k : j \in T
      BY <2>1, <2>2, Climbs
    <2> TAKE i \in 1 .. k + 1
    <2>4. k + 1 - i \in 0 .. k /\ k + 1 - (k + 1 - i) = i
      OBVIOUS
    <2>5. e[k + 1 - (k + 1 - i)] \in Fe
      BY <2>3, <2>4 DEF T
    <2> QED BY <2>4, <2>5
  <1>10. e \in [1 .. k + 1 -> Fe]
    <2> HIDE DEF part
    <2>1. e = [i \in 1 .. k + 1 |-> e[i]]
      BY <1>5, <1>l
    <2> QED BY <1>9, <2>1
  <1> QED BY <1>5, <1>7, <1>8, <1>10 DEF Horner

(* What the share of one point counts for at zero.                         *)
Weight(x, i, m) == Mul(Prod(x, (1 .. m) \ {i}, m), InverseOf(Gap(x, i, 1 .. m, m)))

LEMMA WeightIs ==
  ASSUME FieldLaws, NEW m \in Nat \ {0}, NEW x, Points(x, m), NEW i \in 1 .. m
  PROVE  Weight(x, i, m) \in Fe /\ LpI(x[i], Skip(x, i, m)) = Weight(x, i, m)
  <1>x. x \in Terms(m) /\ \A j \in 1 .. m : x[j] \in Fe
    BY DEF Points, Terms
  <1>1. ProductOf(Skip(x, i, m)) = Prod(x, (1 .. m) \ {i}, m)
    BY <1>x, SkipProduct
  <1>2. Gaps(x, i, m) \in Terms(m) /\ \A j \in 1 .. m : Gaps(x, i, m)[j] = Add(x[i], x[j])
    <2>1. \A j \in 1 .. m : Gaps(x, i, m)[j] = Add(x[i], x[j])
      BY DEF Gaps
    <2>2. \A j \in 1 .. m : Add(x[i], x[j]) \in Fe
      BY <1>x, AddLaws
    <2> QED BY <2>1, <2>2 DEF Gaps, Terms
  <1>3. [j \in DOMAIN Skip(x, i, m) |-> Add(x[i], Skip(x, i, m)[j])] = Skip(Gaps(x, i, m), i, m)
    <2>1. DOMAIN Skip(x, i, m) = 1 .. m - 1
      BY DEF Skip
    <2>2. \A j \in 1 .. m - 1 : Add(x[i], Skip(x, i, m)[j]) = Gaps(x, i, m)[IF j < i THEN j ELSE j + 1]
      <3> TAKE j \in 1 .. m - 1
      <3>1. Skip(x, i, m)[j] = x[IF j < i THEN j ELSE j + 1]
        BY DEF Skip
      <3>2. (IF j < i THEN j ELSE j + 1) \in 1 .. m
        OBVIOUS
      <3> QED BY <1>2, <3>1, <3>2
    <2>3. Skip(Gaps(x, i, m), i, m) = [j \in 1 .. m - 1 |-> Gaps(x, i, m)[IF j < i THEN j ELSE j + 1]]
      BY DEF Skip
    <2> QED BY <2>1, <2>2, <2>3
  <1>4. ProductOf(Skip(Gaps(x, i, m), i, m)) = Gap(x, i, 1 .. m, m)
    BY <1>2, SkipProduct DEF Gap
  <1>5. InverseOf(Gap(x, i, 1 .. m, m)) \in Fe
    <2>1. Gap(x, i, 1 .. m, m) \in Fe /\ Gap(x, i, 1 .. m, m) # Zero
      BY GapNotZero
    <2> QED BY <2>1 DEF FieldLaws
  <1>6. Prod(x, (1 .. m) \ {i}, m) \in Fe
    <2>1. Among(x, (1 .. m) \ {i}, m) /\ m \in Nat
      BY <1>x DEF Among
    <2> QED BY <2>1, ProdIn
  <1>7. Weight(x, i, m) \in Fe
    BY <1>5, <1>6 DEF Weight, FieldLaws
  <1>8. LpI(x[i], Skip(x, i, m))
          = Mul(ProductOf(Skip(x, i, m)),
                InverseOf(ProductOf([j \in DOMAIN Skip(x, i, m) |-> Add(x[i], Skip(x, i, m)[j])])))
    BY DEF LpI
  <1> QED BY <1>1, <1>3, <1>4, <1>7, <1>8 DEF Weight

Weighed(x, y, m) == [i \in 1 .. m |-> Mul(y[i], Weight(x, i, m))]

LEMMA JoinIs ==
  ASSUME FieldLaws, NEW m \in Nat \ {0}, NEW x, Points(x, m), NEW y \in Terms(m),
         NEW shares, Len(shares) = m, \A i \in 1 .. m : shares[i] = <<x[i], y[i]>>
  PROVE  Weighed(x, y, m) \in Terms(m) /\ Join(shares) = Sum(Weighed(x, y, m), 1 .. m, m)
  <1> DEFINE t == Weighed(x, y, m)
             h == Only(Zero, t, 1 .. m, m)
             G(k) == Total(AddOp, Zero, h, k)
             X(i) == shares[i][1]
             others(i) == [j \in 1 .. Len(shares) - 1 |-> X(IF j < i THEN j ELSE j + 1)]
             part(f, i) == IF i = 0 THEN Zero ELSE Add(f[i - 1], Mul(shares[i][2], LpI(X(i), others(i))))
             r == [i \in 0 .. Len(shares) |-> G(i)]
             e == CHOOSE f : f = [i \in 0 .. Len(shares) |-> part(f, i)]
  <1>m. m \in Nat
    OBVIOUS
  <1>t. t \in Terms(m) /\ \A i \in 1 .. m : t[i] = Mul(y[i], Weight(x, i, m)) /\ t[i] \in Fe
    <2>1. \A i \in 1 .. m : t[i] = Mul(y[i], Weight(x, i, m))
      BY DEF Weighed
    <2>2. \A i \in 1 .. m : y[i] \in Fe /\ Weight(x, i, m) \in Fe
      BY WeightIs DEF Terms
    <2>3. \A i \in 1 .. m : Mul(y[i], Weight(x, i, m)) \in Fe
      BY <2>2 DEF FieldLaws
    <2> QED BY <2>1, <2>3 DEF Terms, Weighed
  <1> HIDE DEF t
  <1>h. h \in Terms(m) /\ \A i \in 1 .. m : h[i] = t[i]
    <2>1. \A i \in 1 .. m : h[i] = t[i]
      BY DEF Only
    <2> QED BY <1>t, <2>1 DEF Terms, Only
  <1> HIDE DEF h
  <1>1. ASSUME NEW i \in 1 .. m PROVE Mul(shares[i][2], LpI(X(i), others(i))) = h[i]
    <2>1. X(i) = x[i] /\ shares[i][2] = y[i]
      OBVIOUS
    <2>2. others(i) = Skip(x, i, m)
      <3>1. \A j \in 1 .. m - 1 : X(IF j < i THEN j ELSE j + 1) = x[IF j < i THEN j ELSE j + 1]
        <4> TAKE j \in 1 .. m - 1
        <4>1. (IF j < i THEN j ELSE j + 1) \in 1 .. m
          OBVIOUS
        <4> QED BY <4>1
      <3> QED BY <3>1 DEF Skip
    <2>3. LpI(x[i], Skip(x, i, m)) = Weight(x, i, m)
      BY WeightIs
    <2> HIDE DEF X, others
    <2> QED BY <1>h, <1>t, <2>1, <2>2, <2>3
  <1>2. G(0) = Zero /\ \A k \in 0 .. m - 1 : G(k + 1) = Ap(AddOp, G(k), h[k + 1])
    <2>1. Grows(AddOp, Zero, h, m)
      BY <1>m, Totals
    <2> QED BY <2>1 DEF Grows
  <1>3. \A k \in 0 .. m : G(k) \in Fe
    BY <1>m, <1>h, AddMonoid, TotalIn
  <1> HIDE DEF G
  <1>4. \A k \in 0 .. m - 1 : G(k + 1) = Add(G(k), h[k + 1])
    <2> TAKE k \in 0 .. m - 1
    <2>1. k \in 0 .. m /\ k + 1 \in 1 .. m
      OBVIOUS
    <2>2. G(k) \in Fe /\ h[k + 1] \in Fe
      BY <1>3, <1>h, <1>t, <2>1
    <2> QED BY <1>2, <2>2, AddApplied
  <1>5. ASSUME NEW i \in 0 .. Len(shares) PROVE r[i] = part(r, i)
    <2>1. CASE i = 0
      BY <1>2, <2>1
    <2>2. CASE i # 0
      <3>1. i \in 1 .. m /\ i - 1 \in 0 .. m - 1 /\ i - 1 \in 0 .. Len(shares) /\ (i - 1) + 1 = i
        BY <2>2
      <3>2. r[i - 1] = G(i - 1) /\ r[i] = G(i)
        BY <3>1
      <3>3. G((i - 1) + 1) = Add(G(i - 1), h[(i - 1) + 1])
        BY <1>4, <3>1
      <3>4. Mul(shares[i][2], LpI(X(i), others(i))) = h[i]
        BY <1>1, <3>1
      <3> HIDE DEF r, X, others
      <3> QED BY <2>2, <3>1, <3>2, <3>3, <3>4
    <2> QED BY <2>1, <2>2
  <1>6. r = [i \in 0 .. Len(shares) |-> part(r, i)]
    <2> HIDE DEF part
    <2> QED BY <1>5
  <1>7. e = [i \in 0 .. Len(shares) |-> part(e, i)] /\ Join(shares) = e[Len(shares)]
    BY <1>6, Zenon DEF Join
  <1> HIDE DEF e, r
  <1>8. \A i \in 0 .. m : e[i] = part(e, i)
    <2> HIDE DEF part
    <2> QED BY <1>7
  <1> DEFINE T == {k \in 0 .. m : e[k] = G(k)}
  <1>9. 0 \in T
    <2> HIDE DEF X, others
    <2>1. 0 \in 0 .. m
      BY <1>m
    <2> QED BY <1>2, <1>8, <2>1
  <1>10. ASSUME NEW k \in 0 .. m - 1, k \in T PROVE k + 1 \in T
    <2>1. k + 1 \in 0 .. m /\ k + 1 # 0 /\ (k + 1) - 1 = k /\ k + 1 \in 1 .. m
      OBVIOUS
    <2>2. Mul(shares[k + 1][2], LpI(X(k + 1), others(k + 1))) = h[k + 1]
      BY <1>1, <2>1
    <2> HIDE DEF X, others
    <2>3. e[k + 1] = Add(e[k], h[k + 1])
      BY <1>8, <2>1, <2>2
    <2> QED BY <1>4, <1>10, <2>1, <2>3
  <1> HIDE DEF T
  <1>11. m \in T
    <2>1. \A k \in 0 .. m : k \in T
      BY <1>m, <1>9, <1>10, Climbs
    <2> QED BY <1>m, <2>1
  <1> QED BY <1>7, <1>11, <1>t DEF T, G, Sum, Over, h, t

-------------------------------------------------------------------------------
(* Interpolation at zero *)

LEMMA TotalSame ==
  ASSUME NEW op, NEW e, NEW n \in Nat, NEW g, NEW h, \A i \in 1 .. n : g[i] = h[i]
  PROVE  Total(op, e, g, n) = Total(op, e, h, n)
  <1>1. PICK s : Steps(s, op, e, g, n)
    BY StepsExist
  <1>2. Steps(s, op, e, h, n)
    BY <1>1 DEF Steps
  <1>3. n \in 0 .. n
    OBVIOUS
  <1>4. Total(op, e, g, n) = s[n]
    BY <1>1, <1>3, TotalIs
  <1>5. Total(op, e, h, n) = s[n]
    BY <1>2, <1>3, TotalIs
  <1> QED BY <1>4, <1>5

(* A number of a term that is left out is no matter.                       *)
LEMMA OverShorter ==
  ASSUME NEW op, NEW e, Monoid(op, e), NEW n \in Nat, NEW g, NEW h, NEW I \in SUBSET (1 .. n),
         \A i \in I : g[i] = h[i] /\ g[i] \in Fe
  PROVE  Over(op, e, h, I, n + 1) = Over(op, e, g, I, n)
  <1> DEFINE a == Only(e, h, I, n + 1)
             b == Only(e, g, I, n)
  <1>1. a[n + 1] = e /\ \A i \in 1 .. n : a[i] = b[i]
    BY DEF Only
  <1>2. b \in Terms(n)
    BY OnlyTerms
  <1> HIDE DEF a, b
  <1>3. Grows(op, e, a, n + 1)
    BY Totals
  <1>4. Total(op, e, a, n + 1) = Ap(op, Total(op, e, a, n), a[n + 1])
    BY <1>3 DEF Grows
  <1>5. Total(op, e, a, n) = Total(op, e, b, n)
    BY <1>1, TotalSame
  <1>6. Total(op, e, b, n) \in Fe
    BY <1>2, TotalIn
  <1>7. \A v \in Fe : Ap(op, v, e) = v
    BY DEF Monoid
  <1> QED BY <1>1, <1>4, <1>5, <1>6, <1>7 DEF Over, a, b

LEMMA ProdShorter ==
  ASSUME FieldLaws, NEW n \in Nat, NEW g, NEW h, NEW I \in SUBSET (1 .. n),
         \A i \in I : g[i] = h[i] /\ g[i] \in Fe
  PROVE  Prod(h, I, n + 1) = Prod(g, I, n)
  BY MulMonoid, OverShorter DEF Prod

LEMMA SumShorter ==
  ASSUME NEW n \in Nat, NEW g, NEW h, NEW I \in SUBSET (1 .. n),
         \A i \in I : g[i] = h[i] /\ g[i] \in Fe
  PROVE  Sum(h, I, n + 1) = Sum(g, I, n)
  BY AddMonoid, OverShorter DEF Sum

(* The points of the shares, and zero.                                     *)
AndZero(x, m) == [i \in 1 .. m + 1 |-> IF i <= m THEN x[i] ELSE Zero]

(* What the shares join to is the value at zero, but for a multiple of the *)
(* difference over their points and zero.                                  *)
LEMMA JoinDivided ==
  ASSUME FieldLaws, NEW m \in Nat \ {0}, NEW x, Points(x, m), \A i \in 1 .. m : x[i] # Zero,
         NEW f \in Terms(m + 1), NEW y, y = [i \in 1 .. m |-> f[i]]
  PROVE  /\ Points(AndZero(x, m), m + 1)
         /\ Prod(x, 1 .. m, m) \in Fe /\ Prod(x, 1 .. m, m) # Zero
         /\ Sum(Weighed(x, y, m), 1 .. m, m)
              = Add(f[m + 1], Mul(Prod(x, 1 .. m, m), Divided(AndZero(x, m), f, 1 .. m + 1, m + 1)))
  <1> DEFINE n == m + 1
             X == AndZero(x, m)
             I == 1 .. m
             J == 1 .. m + 1
             P == Prod(x, I, m)
             u == Parts(X, f, J, n)
             t == Weighed(x, y, m)
             c == f[n]
  <1>n. n \in Nat /\ m \in Nat /\ n \in J /\ n \in 1 .. n /\ I \in SUBSET (1 .. n) /\ J \in SUBSET (1 .. n)
        /\ I \in SUBSET (1 .. m) /\ J \ {n} = I
    OBVIOUS
  <1>x. \A i \in 1 .. m : x[i] \in Fe /\ x[i] # Zero
    BY DEF Points, Terms
  <1>X. X[n] = Zero /\ \A i \in 1 .. m : X[i] = x[i]
    BY DEF AndZero
  <1>1. Points(X, n)
    <2>1. \A i \in 1 .. n : X[i] \in Fe
      <3>1. Zero \in Fe
        BY AddLaws
      <3> QED BY <1>x, <3>1 DEF AndZero
    <2>2. X \in Terms(n)
      BY <2>1 DEF Terms, AndZero
    <2>3. \A i, j \in 1 .. n : i # j => X[i] # X[j]
      <3> SUFFICES ASSUME NEW i \in 1 .. n, NEW j \in 1 .. n, i # j PROVE X[i] # X[j]
        OBVIOUS
      <3> HIDE DEF X
      <3>1. CASE i = n
        <4>1. j \in 1 .. m
          BY <3>1
        <4> QED BY <1>x, <1>X, <3>1, <4>1
      <3>2. CASE j = n
        <4>1. i \in 1 .. m
          BY <3>2
        <4> QED BY <1>x, <1>X, <3>2, <4>1
      <3>3. CASE i # n /\ j # n
        <4>1. i \in 1 .. m /\ j \in 1 .. m
          BY <3>3
        <4> QED BY <1>X, <4>1 DEF Points
      <3> QED BY <3>1, <3>2, <3>3
    <2> QED BY <2>2, <2>3 DEF Points
  <1>2. P \in Fe /\ P # Zero
    <2>1. \A i \in I : x[i] \in Fe \ {Zero}
      BY <1>x
    <2> QED BY <1>n, <2>1, ProdNotZero
  <1>f. \A i \in 1 .. n : f[i] \in Fe
    BY DEF Terms
  <1>y. y \in Terms(m) /\ \A i \in 1 .. m : y[i] = f[i] /\ y[i] \in Fe
    <2>1. \A i \in 1 .. m : f[i] \in Fe
      BY <1>f
    <2> QED BY <2>1 DEF Terms
  <1> HIDE DEF X
  <1>u. Among(u, J, n) /\ \A i \in 1 .. n : u[i] = Mul(f[i], InverseOf(Gap(X, i, J, n)))
    <2> HIDE DEF J, n
    <2> QED BY <1>1, <1>n, PartIn DEF n
  <1>m. \A a, b \in Fe : Mul(a, b) \in Fe /\ Mul(a, b) = Mul(b, a)
    BY DEF FieldLaws
  <1>a. \A a, b, d \in Fe : Mul(a, Mul(b, d)) = Mul(Mul(a, b), d)
    BY DEF FieldLaws
  <1>o. One \in Fe /\ \A a \in Fe : Mul(One, a) = a
    BY DEF FieldLaws
  <1>3. Mul(P, u[n]) = c
    <2> DEFINE g == Gaps(X, n, n)
    <2>1. \A i \in I : g[i] = x[i]
      <3> TAKE i \in I
      <3>1. g[i] = Add(X[n], X[i])
        BY DEF Gaps
      <3>2. Add(Zero, x[i]) = x[i]
        BY <1>x, AddLaws
      <3> QED BY <1>X, <3>1, <3>2
    <2> HIDE DEF g
    <2>2. Prod(g, I, m + 1) = Prod(x, I, m)
      <3>1. \A i \in I : x[i] = g[i] /\ x[i] \in Fe
        BY <1>x, <2>1
      <3> HIDE DEF I
      <3> QED BY <1>n, <3>1, ProdShorter
    <2>3. Gap(X, n, J, n) = P
      BY <1>n, <2>2 DEF Gap, g
    <2>4. u[n] = Mul(c, InverseOf(P))
      BY <1>n, <1>u, <2>3
    <2>5. InverseOf(P) \in Fe /\ Mul(P, InverseOf(P)) = One
      <3> HIDE DEF P
      <3> QED BY <1>2 DEF FieldLaws
    <2>6. c \in Fe
      BY <1>f, <1>n
    <2> DEFINE q == InverseOf(P)
    <2> HIDE DEF q, P, c
    <2>7. Mul(P, Mul(c, q)) = Mul(Mul(P, c), q) /\ Mul(P, c) = Mul(c, P)
      BY <1>2, <1>a, <1>m, <2>5, <2>6 DEF q
    <2>8. Mul(Mul(c, P), q) = Mul(c, Mul(P, q))
      BY <1>2, <1>a, <2>5, <2>6 DEF q
    <2>9. Mul(c, One) = c
      BY <1>o, <1>m, <2>6
    <2> QED BY <2>4, <2>5, <2>7, <2>8, <2>9 DEF q
  <1>4. ASSUME NEW i \in I PROVE Mul(P, u[i]) = t[i]
    <2> DEFINE g == Gaps(X, i, n)
               K == I \ {i}
               A == Prod(x, K, m)
               q == Gap(x, i, I, m)
               b == x[i]
               v == InverseOf(Mul(b, q))
    <2>i. i \in 1 .. m /\ i \in 1 .. n /\ i \in J /\ i # n /\ K \in SUBSET (1 .. m) /\ n \in J \ {i}
            /\ (J \ {i}) \ {n} = K
      OBVIOUS
    <2>b. b \in Fe /\ b # Zero
      BY <1>x
    <2>1. P = Mul(b, A) /\ A \in Fe
      <3>1. Among(x, I, m)
        BY <1>x DEF Among
      <3> HIDE DEF I
      <3> QED BY <1>n, <2>i, <3>1, ProdSplit, ZenonT(30)
    <2>2. q \in Fe /\ q # Zero
      BY <2>i, <1>n, GapNotZero
    <2>g. g[n] = b /\ \A j \in 1 .. m : g[j] = Add(x[i], x[j]) /\ g[j] \in Fe
      <3>1. \A j \in 1 .. n : g[j] = Add(X[i], X[j])
        BY DEF Gaps
      <3>2. Add(b, Zero) = b
        BY <2>b, AddLaws
      <3>3. \A j \in 1 .. m : Add(x[i], x[j]) \in Fe
        BY <1>x, AddLaws
      <3>4. g[n] = b
        BY <1>n, <1>X, <3>1, <3>2, <2>i
      <3>5. \A j \in 1 .. m : g[j] = Add(x[i], x[j])
        BY <1>X, <3>1
      <3> QED BY <3>3, <3>4, <3>5
    <2> HIDE DEF g
    <2>3. Prod(g, K, m + 1) = q
      <3>1. \A j \in K : Gaps(x, i, m)[j] = g[j] /\ Gaps(x, i, m)[j] \in Fe
        BY <2>g DEF Gaps
      <3> HIDE DEF K
      <3>2. Prod(g, K, m + 1) = Prod(Gaps(x, i, m), K, m)
        BY <1>n, <2>i, <3>1, ProdShorter
      <3> QED BY <3>2 DEF Gap, K
    <2>4. Gap(X, i, J, n) = Mul(b, q)
      <3>1. Among(g, J \ {i}, n)
        <4>1. \A j \in 1 .. n : j = n \/ j \in 1 .. m
          OBVIOUS
        <4>2. \A j \in 1 .. n : g[j] \in Fe
          BY <2>g, <2>b, <4>1
        <4> QED BY <4>2 DEF Among
      <3> DEFINE L == J \ {i}
      <3>2. n \in L /\ L \ {n} = K /\ Among(g, L, n)
        BY <2>i, <3>1
      <3> HIDE DEF L, K
      <3>3. Prod(g, L, n) = Mul(g[n], Prod(g, L \ {n}, n))
        BY <1>n, <3>2, ProdSplit
      <3> QED BY <2>g, <2>3, <3>2, <3>3 DEF Gap, g, L
    <2>5. u[i] = Mul(f[i], v) /\ y[i] = f[i] /\ f[i] \in Fe
      BY <1>u, <1>y, <1>f, <2>i, <2>4
    <2>6. Mul(Mul(b, A), v) = Mul(A, InverseOf(q))
      BY <2>b, <2>1, <2>2, Reduce
    <2>7. v \in Fe
      <3>1. Mul(b, q) \in Fe /\ Mul(b, q) # Zero
        BY <2>b, <2>2, MulNotZero
      <3> QED BY <3>1 DEF FieldLaws
    <2>8. t[i] = Mul(y[i], Mul(A, InverseOf(q)))
      BY <2>i DEF Weighed, Weight
    <2> HIDE DEF P, v, t, A, q, b
    <2>9. Mul(P, Mul(f[i], v)) = Mul(Mul(P, f[i]), v) /\ Mul(P, f[i]) = Mul(f[i], P)
      <3>1. P \in Fe /\ f[i] \in Fe /\ v \in Fe
        BY <1>2, <2>5, <2>7
      <3>2. Mul(P, Mul(f[i], v)) = Mul(Mul(P, f[i]), v)
        BY <1>a, <3>1
      <3>3. Mul(P, f[i]) = Mul(f[i], P)
        BY <1>m, <3>1
      <3> QED BY <3>2, <3>3
    <2>10. Mul(Mul(f[i], P), v) = Mul(f[i], Mul(P, v))
      BY <1>2, <1>a, <2>5, <2>7
    <2> QED BY <2>1, <2>5, <2>6, <2>8, <2>9, <2>10
  <1>5. Divided(X, f, J, n) = Add(u[n], Sum(u, I, n)) /\ u[n] \in Fe /\ Sum(u, I, n) \in Fe
    <2>1. /\ u[n] \in Fe /\ Sum(u, J \ {n}, n) \in Fe
          /\ Sum(u, J, n) = Add(u[n], Sum(u, J \ {n}, n))
      <3> HIDE DEF n, J, u
      <3> QED BY <1>n, <1>u, SumSplit
    <2> QED BY <1>n, <2>1 DEF Divided
  <1>6. Sum(t, I, m) = Mul(P, Sum(u, I, n))
    <2>1. \A i \in I : t[i] \in Fe
      <3> TAKE i \in I
      <3>1. Mul(P, u[i]) \in Fe
        <4>1. u[i] \in Fe
          BY <1>u DEF Among
        <4> HIDE DEF P, u
        <4> QED BY <1>2, <1>m, <4>1
      <3> QED BY <1>4, <3>1
    <2> DEFINE h == [i \in 1 .. n |-> Mul(P, u[i])]
    <2>2. \A i \in I : h[i] = Mul(P, u[i]) /\ t[i] = h[i] /\ t[i] \in Fe
      BY <1>4, <2>1
    <2>3. Among(u, I, n)
      BY <1>u DEF Among
    <2> HIDE DEF h, u, t, I, P, n
    <2>4. Sum(h, I, n) = Mul(P, Sum(u, I, n))
      BY <1>n, <1>2, <2>2, <2>3, SumScale
    <2>5. Sum(h, I, m + 1) = Sum(t, I, m)
      BY <1>n, <2>2, SumShorter
    <2> QED BY <2>4, <2>5 DEF n
  <1>7. Mul(P, Divided(X, f, J, n)) = Add(c, Sum(t, I, m))
    <2> HIDE DEF P, u, t, c, n, I, J
    <2>1. Mul(P, Add(u[n], Sum(u, I, n))) = Add(Mul(P, u[n]), Mul(P, Sum(u, I, n)))
      BY <1>2, <1>5, Distributes
    <2> QED BY <1>3, <1>5, <1>6, <2>1
  <1>8. c \in Fe /\ Sum(t, I, m) \in Fe
    <2>1. Mul(P, Sum(u, I, n)) \in Fe
      <3> HIDE DEF P, u, I, n
      <3> QED BY <1>2, <1>5, <1>m
    <2> QED BY <1>f, <1>n, <1>6, <2>1
  <1>9. Add(c, Add(c, Sum(t, I, m))) = Sum(t, I, m)
    <2> DEFINE s == Sum(t, I, m)
    <2> HIDE DEF s, c
    <2>1. c \in Fe /\ s \in Fe
      BY <1>8 DEF s
    <2>2. Add(c, Add(c, s)) = Add(Add(c, c), s) /\ Add(c, c) = Zero /\ Add(Zero, s) = s
      BY <2>1, AddLaws
    <2> QED BY <2>2 DEF s
  <1> QED BY <1>1, <1>2, <1>7, <1>9 DEF X

(* Shares of a polynomial with k coefficients: as many or more join to the *)
(* first of them, one less does not.                                       *)
LEMMA Interpolates ==
  ASSUME FieldLaws, NEW k \in Nat \ {0}, NEW p \in Terms(k),
         NEW m \in Nat \ {0}, NEW x, Points(x, m), \A i \in 1 .. m : x[i] # Zero,
         NEW shares, Len(shares) = m, \A i \in 1 .. m : shares[i] = <<x[i], EvalPoly(x[i], p)>>
  PROVE  /\ m >= k => Join(shares) = p[1]
         /\ m = k - 1 /\ p[k] # Zero => Join(shares) # p[1]
  <1> DEFINE n == m + 1
             X == AndZero(x, m)
             J == 1 .. m + 1
             f == [i \in 1 .. n |-> EvalPoly(X[i], p)]
             y == [i \in 1 .. m |-> f[i]]
             w == [i \in 1 .. n |-> CHOOSE v : Horner(v, X[i], p, k) /\ EvalPoly(X[i], p) = v[1]]
             P == Prod(x, 1 .. m, m)
             d == Divided(X, f, J, n)
  <1>n. n \in Nat /\ m \in Nat /\ n \in 1 .. n /\ J \in SUBSET (1 .. n) /\ 1 \in 1 .. k /\ k \in 1 .. k
    OBVIOUS
  <1>z. Zero \in Fe
    BY AddLaws
  <1>X. X[n] = Zero /\ \A i \in 1 .. m : X[i] = x[i]
    BY DEF AndZero
  <1>x. \A i \in 1 .. n : X[i] \in Fe
    BY <1>z DEF AndZero, Points, Terms
  <1>p. \A i \in 1 .. k : p[i] \in Fe
    BY DEF Terms
  <1> HIDE DEF X
  <1>w. \A i \in 1 .. n : Horner(w[i], X[i], p, k) /\ f[i] = w[i][1]
    <2> TAKE i \in 1 .. n
    <2>1. \E v : Horner(v, X[i], p, k) /\ EvalPoly(X[i], p) = v[1]
      BY <1>x, EvalPolyIs
    <2>2. w[i] = CHOOSE v : Horner(v, X[i], p, k) /\ EvalPoly(X[i], p) = v[1]
      OBVIOUS
    <2>3. Horner(w[i], X[i], p, k) /\ EvalPoly(X[i], p) = w[i][1]
      <3> HIDE DEF w
      <3> QED BY <2>1, <2>2
    <2>4. f[i] = EvalPoly(X[i], p)
      OBVIOUS
    <2> QED BY <2>3, <2>4
  <1>f. f \in Terms(n)
    <2>1. \A i \in 1 .. n : f[i] \in Fe
      <3> TAKE i \in 1 .. n
      <3> HIDE DEF w, f
      <3>1. 1 \in 1 .. k + 1 /\ w[i] \in [1 .. k + 1 -> Fe]
        BY <1>n, <1>w DEF Horner
      <3> QED BY <1>w, <3>1
    <2> QED BY <2>1 DEF Terms
  <1>y. y \in Terms(m) /\ \A i \in 1 .. m : y[i] = EvalPoly(x[i], p)
    <2>1. \A i \in 1 .. m : f[i] \in Fe /\ f[i] = EvalPoly(x[i], p)
      BY <1>f, <1>X DEF Terms
    <2> HIDE DEF f
    <2> QED BY <2>1 DEF Terms
  <1>c. f[n] = p[1]
    <2> HIDE DEF w, f
    <2>1. w[n][1] = Add(Mul(w[n][1 + 1], Zero), p[1]) /\ w[n][1 + 1] \in Fe
      <3>1. Horner(w[n], Zero, p, k)
        BY <1>n, <1>w, <1>X
      <3>2. 1 + 1 \in 1 .. k + 1
        BY <1>n
      <3> QED BY <1>n, <3>1, <3>2 DEF Horner
    <2>2. Mul(w[n][1 + 1], Zero) = Zero
      BY <2>1, MulZero
    <2>3. p[1] \in Fe
      BY <1>p, <1>n
    <2>4. Add(Zero, p[1]) = p[1]
      BY <2>3, AddLaws
    <2> QED BY <1>n, <1>w, <2>1, <2>2, <2>4
  <1> HIDE DEF w, f
  <1>1. /\ Points(X, n) /\ P \in Fe /\ P # Zero
        /\ Sum(Weighed(x, y, m), 1 .. m, m) = Add(f[n], Mul(P, d))
    <2>1. f \in Terms(m + 1) /\ y = [i \in 1 .. m |-> f[i]]
      BY <1>f
    <2> HIDE DEF y
    <2> QED BY <2>1, JoinDivided DEF X
  <1>2. Join(shares) = Sum(Weighed(x, y, m), 1 .. m, m)
    <2>1. \A i \in 1 .. m : shares[i] = <<x[i], y[i]>>
      BY <1>y
    <2> HIDE DEF y
    <2> QED BY <1>y, <2>1, JoinIs
  <1>3. Join(shares) = Add(p[1], Mul(P, d))
    BY <1>1, <1>2, <1>c
  <1>4. Cardinality(J) = m + 1
    BY FS_Interval
  <1>5. /\ Cardinality(J) > k => d = Zero
        /\ Cardinality(J) = k => d = p[k]
    <2> HIDE DEF n, J
    <2>1. \A i \in 1 .. n : Horner(w[i], X[i], p, k)
      BY <1>w
    <2>2. \A i \in 1 .. n : f[i] = w[i][1]
      BY <1>w
    <2>3. n \in Nat /\ Points(X, n) /\ f \in Terms(n) /\ J \in SUBSET (1 .. n)
      BY <1>n, <1>1, <1>f
    <2> HIDE DEF f, w, X
    <2>v. Values(f, w, X, p, k, n)
      BY <2>1, <2>2 DEF Values
    <2>4. /\ Cardinality(J) > k => Divided(X, f, J, n) = Zero
          /\ Cardinality(J) = k => Divided(X, f, J, n) = p[k]
      BY <2>3, <2>v, DividedValues
    <2> QED BY <2>4
  <1>6. p[1] \in Fe /\ p[k] \in Fe
    BY <1>p, <1>n
  <1>7. ASSUME m >= k PROVE Join(shares) = p[1]
    <2>1. d = Zero
      <3>1. Cardinality(J) > k
        BY <1>4, <1>7
      <3> QED BY <1>5, <3>1
    <2>2. Mul(P, Zero) = Zero /\ Add(p[1], Zero) = p[1]
      <3> HIDE DEF P
      <3> QED BY <1>1, <1>6, MulZero, AddLaws
    <2> QED BY <1>3, <2>1, <2>2
  <1>8. ASSUME m = k - 1, p[k] # Zero PROVE Join(shares) # p[1]
    <2>1. d = p[k]
      <3>1. Cardinality(J) = k
        BY <1>4, <1>8
      <3> QED BY <1>5, <3>1
    <2> DEFINE q == Mul(P, p[k])
               c == p[1]
    <2>2. q \in Fe /\ q # Zero /\ c \in Fe
      <3> HIDE DEF P
      <3> QED BY <1>1, <1>6, <1>8, MulNotZero
    <2>3. Join(shares) = Add(c, q)
      BY <1>3, <2>1
    <2> HIDE DEF q, c, P
    <2>4. Add(c, Add(c, q)) = Add(Add(c, c), q) /\ Add(c, c) = Zero /\ Add(Zero, q) = q
      BY <2>2, AddLaws
    <2>5. Add(c, q) # c
      BY <2>2, <2>4
    <2> QED BY <2>3, <2>5 DEF c
  <1> QED BY <1>7, <1>8
-------------------------------------------------------------------------------
(* Numbers as field elements *)

LEMMA LargestIs ==
  ASSUME NEW S \in SUBSET Nat, IsFiniteSet(S), S # {}
  PROVE  Max(S) \in S /\ \A y \in S : Max(S) >= y
  <1> DEFINE T == {k \in 0 .. Cardinality(S) : \A R \in SUBSET S :
                     Cardinality(R) = k /\ R # {} => \E x \in R : \A y \in R : x >= y}
  <1>c. Cardinality(S) \in Nat
    BY FS_CardinalityType
  <1>f. \A R \in SUBSET S : IsFiniteSet(R)
    BY FS_Subset
  <1>1. 0 \in T
    BY <1>c, <1>f, FS_EmptySet
  <1>2. ASSUME NEW k \in 0 .. Cardinality(S) - 1, k \in T PROVE k + 1 \in T
    <2>1. k + 1 \in 0 .. Cardinality(S)
      BY <1>c
    <2>2. ASSUME NEW R \in SUBSET S, Cardinality(R) = k + 1, R # {} PROVE \E x \in R : \A y \in R : x >= y
      <3>1. PICK a \in R : TRUE
        BY <2>2
      <3>2. Cardinality(R \ {a}) = k
        <4>1. Cardinality(R \ {a}) = Cardinality(R) - 1
          BY <1>f, FS_RemoveElement
        <4> QED BY <2>2, <4>1
      <3>a. a \in Nat /\ R \subseteq Nat
        OBVIOUS
      <3>3. CASE R \ {a} = {}
        <4>1. \A y \in R : y = a
          BY <3>3
        <4>2. \A y \in R : a >= y
          BY <3>a, <4>1
        <4> QED BY <4>2
      <3>4. CASE R \ {a} # {}
        <4>1. PICK x \in R \ {a} : \A y \in R \ {a} : x >= y
          BY <1>2, <3>2, <3>4
        <4>2. CASE a >= x
          <5>1. \A y \in R : a >= y
            BY <3>a, <4>1, <4>2
          <5> QED BY <5>1
        <4>3. CASE ~(a >= x)
          <5>1. \A y \in R : x >= y
            BY <3>a, <4>1, <4>3
          <5> QED BY <5>1
        <4> QED BY <4>2, <4>3
      <3> QED BY <3>3, <3>4
    <2> QED BY <2>1, <2>2
  <1> HIDE DEF T
  <1>3. Cardinality(S) \in T
    <2>1. \A k \in 0 .. Cardinality(S) : k \in T
      BY <1>1, <1>2, <1>c, Climbs
    <2> QED BY <1>c, <2>1
  <1>4. \E x \in S : \A y \in S : x >= y
    BY <1>3 DEF T
  <1> QED BY <1>4 DEF Max

LEMMA NIsNat == N \in Nat
  <1>1. Poly \in SUBSET Nat /\ IsFiniteSet(Poly) /\ Poly # {}
    BY PolyAssumption
  <1> QED BY <1>1, LargestIs DEF N

LEMMA Quotient ==
  ASSUME NEW h \in Nat, NEW p \in Nat \ {0}
  PROVE  /\ h \div p \in Nat
         /\ (h \div p) * p <= h /\ h < (h \div p) * p + p
         /\ \A q \in Nat : q * p <= h /\ h < q * p + p => h \div p = q
  <1>1. h \div p \in Nat /\ (h \div p) * p <= h /\ h < (h \div p) * p + p
    OBVIOUS
  <1>2. ASSUME NEW q \in Nat, q * p <= h, h < q * p + p PROVE h \div p = q
    <2> DEFINE d == h \div p
    <2>1. d \in Nat /\ d * p <= h /\ h < d * p + p
      BY <1>1
    <2> HIDE DEF d
    <2>2. ~(d < q)
      <3>1. ASSUME d < q PROVE FALSE
        <4>1. d * p + p <= q * p /\ d * p \in Int /\ q * p \in Int
          BY <2>1, <3>1, ProductLess
        <4> QED BY <1>2, <2>1, <4>1
      <3> QED BY <3>1
    <2>3. ~(q < d)
      <3>1. ASSUME q < d PROVE FALSE
        <4>1. q * p + p <= d * p /\ d * p \in Int /\ q * p \in Int
          BY <2>1, <3>1, ProductLess
        <4> QED BY <1>2, <2>1, <4>1
      <3> QED BY <3>1
    <2>4. d = q
      BY <2>1, <2>2, <2>3
    <2> QED BY <2>4 DEF d
  <1> QED BY <1>1, <1>2

LEMMA HalfFirst ==
  ASSUME NEW v \in Nat, NEW p \in Nat \ {0}
  PROVE  (v \div 2) \div p = v \div (2 * p)
  <1> DEFINE q == v \div (2 * p)
             h == v \div 2
             x == q * p
             pp == 2 * p
  <1>p. pp \in Nat \ {0}
    OBVIOUS
  <1>1. q \in Nat /\ q * pp <= v /\ v < q * pp + pp
    <2> HIDE DEF pp
    <2>1. v \div pp \in Nat /\ (v \div pp) * pp <= v /\ v < (v \div pp) * pp + pp
      BY <1>p, Quotient
    <2> QED BY <2>1 DEF pp
  <1>2. h \in Nat /\ 2 * h <= v /\ v <= 2 * h + 1
    OBVIOUS
  <1> HIDE DEF q, h
  <1>3. x \in Int /\ q * pp = 2 * x
    <2>1. x \in Int
      BY <1>1, Product
    <2>2. q * (2 * p) = 2 * (q * p)
      BY <1>1
    <2> QED BY <2>1, <2>2
  <1> HIDE DEF x
  <1>4. x <= h /\ h < x + p
    BY <1>1, <1>2, <1>3
  <1>5. h \div p = q
    <2>1. q * p <= h /\ h < q * p + p
      BY <1>4 DEF x
    <2> QED BY <1>1, <1>2, <2>1, Quotient
  <1> QED BY <1>5 DEF h, q

Bit(v, i) == (v \div 2 ^ i) % 2

(* The powers of two that number bits are not zero.                        *)
LEMMA PowersPositive ==
  ASSUME Powers
  PROVE  \A i \in 0 .. N : 2 ^ i \in Nat \ {0}
  <1> DEFINE Pw(i) == 2 ^ i
             T == {i \in 0 .. N : Pw(i) \in Nat \ {0}}
  <1>n. N \in Nat
    BY NIsNat
  <1>p. Pw(0) = 1 /\ \A i \in 0 .. N - 1 : Pw(i + 1) = 2 * Pw(i)
    BY DEF Powers
  <1> HIDE DEF Pw
  <1>1. 0 \in T
    BY <1>n, <1>p
  <1>2. ASSUME NEW i \in 0 .. N - 1, i \in T PROVE i + 1 \in T
    BY <1>n, <1>p, <1>2
  <1> HIDE DEF T
  <1>3. \A i \in 0 .. N : i \in T
    BY <1>n, <1>1, <1>2, Climbs
  <1> QED BY <1>3 DEF T, Pw

(* A number below 2^n is what its lowest n bits are.                       *)
LEMMA BitsTell ==
  ASSUME Powers, NEW v \in Nat, NEW w \in Nat, v < 2 ^ N, w < 2 ^ N, AsFe(v) = AsFe(w)
  PROVE  v = w
  <1> DEFINE Pw(i) == 2 ^ i
             T == {n \in 0 .. N : Pw(n) \in Nat \ {0} /\
                     \A a, b \in Nat : a < Pw(n) /\ b < Pw(n) /\ (\A i \in 0 .. n - 1 : Bit(a, i) = Bit(b, i))
                       => a = b}
  <1>n. N \in Nat
    BY NIsNat
  <1>p. Pw(0) = 1 /\ \A i \in 0 .. N - 1 : Pw(i + 1) = 2 * Pw(i)
    BY DEF Powers
  <1>q. \A i \in 0 .. N : Pw(i) \in Nat \ {0}
    BY PowersPositive
  <1>b. \A a, i : Bit(a, i) = (a \div Pw(i)) % 2
    BY DEF Bit
  <1> HIDE DEF Pw
  <1>1. 0 \in T
    BY <1>n, <1>p
  <1>2. ASSUME NEW n \in 0 .. N - 1, n \in T PROVE n + 1 \in T
    <2> DEFINE p == Pw(n)
    <2>0. n + 1 \in 0 .. N /\ Pw(n + 1) = 2 * p /\ p \in Nat \ {0}
      BY <1>2, <1>n, <1>p
    <2>p. \A i \in 0 .. n : Pw(i) \in Nat \ {0}
      BY <1>q, <1>n
    <2> HIDE DEF p
    <2>1. ASSUME NEW a \in Nat, NEW b \in Nat, a < 2 * p, b < 2 * p,
                 \A i \in 0 .. n : Bit(a, i) = Bit(b, i)
          PROVE  a = b
      <3> DEFINE x == a \div 2
                 y == b \div 2
      <3>1. x \in Nat /\ y \in Nat /\ a = 2 * x + (a % 2) /\ b = 2 * y + (b % 2) /\ a % 2 \in 0 .. 1
              /\ b % 2 \in 0 .. 1
        OBVIOUS
      <3>2. ASSUME NEW i \in 0 .. n - 1 PROVE Bit(x, i) = Bit(y, i)
        <4>1. i \in 0 .. n /\ i + 1 \in 0 .. n /\ i \in 0 .. N - 1
          BY <1>n
        <4>2. Pw(i) \in Nat \ {0} /\ Pw(i + 1) = 2 * Pw(i)
          BY <1>p, <2>p, <4>1
        <4>3. x \div Pw(i) = a \div (2 * Pw(i)) /\ y \div Pw(i) = b \div (2 * Pw(i))
          BY <4>2, HalfFirst
        <4>4. Bit(a, i + 1) = Bit(b, i + 1)
          BY <2>1, <4>1
        <4> HIDE DEF x, y
        <4> QED BY <1>b, <4>2, <4>3, <4>4
      <3>3. a % 2 = b % 2
        <4>1. a \div 1 = a /\ b \div 1 = b
          OBVIOUS
        <4>2. Bit(a, 0) = Bit(b, 0)
          BY <2>1, <2>0
        <4> QED BY <1>b, <1>p, <4>1, <4>2
      <3> HIDE DEF x, y
      <3>4. x < p /\ y < p
        BY <2>0, <2>1, <3>1
      <3>5. x = y
        BY <1>2, <3>1, <3>2, <3>4 DEF p
      <3> QED BY <3>1, <3>3, <3>5
    <2>2. 2 * p \in Nat \ {0}
      BY <2>0
    <2>3. (n + 1) - 1 = n
      OBVIOUS
    <2> QED BY <2>0, <2>1, <2>2, <2>3
  <1> HIDE DEF T
  <1>3. N \in T
    <2>1. \A n \in 0 .. N : n \in T
      BY <1>1, <1>2, <1>n, Climbs
    <2> QED BY <1>n, <2>1
  <1>4. \A i \in 0 .. N - 1 : Bit(v, i) = Bit(w, i)
    <2> TAKE i \in 0 .. N - 1
    <2>1. i \in AsFe(v) <=> Bit(v, i) = 1
      BY DEF AsFe, Bit
    <2>2. i \in AsFe(w) <=> Bit(w, i) = 1
      BY DEF AsFe, Bit
    <2>3. Bit(v, i) \in 0 .. 1 /\ Bit(w, i) \in 0 .. 1
      <3>1. \A x \in Int : x % 2 \in 0 .. 1
        OBVIOUS
      <3>3. Pw(i) \in Nat \ {0}
        BY <1>n, <1>q
      <3>4. v \div Pw(i) \in Int /\ w \div Pw(i) \in Int
        BY <3>3
      <3> QED BY <1>b, <3>1, <3>4
    <2> QED BY <2>1, <2>2, <2>3
  <1> QED BY <1>3, <1>4 DEF T, Pw


(* Numbers of N bits are elements of the field, different ones for         *)
(* different numbers, and none but zero the zero of the field.             *)
LEMMA NumbersApart ==
  ASSUME Powers, NEW v \in Nat, NEW w \in Nat, v < 2 ^ N, w < 2 ^ N
  PROVE  /\ AsFe(v) \in Fe
         /\ v # 0 => AsFe(v) # Zero
         /\ v # w => AsFe(v) # AsFe(w)
  <1>1. AsFe(v) \in Fe
    BY DEF AsFe, Fe
  <1>2. v # w => AsFe(v) # AsFe(w)
    BY BitsTell
  <1>3. ASSUME v # 0 PROVE AsFe(v) # Zero
    <2>1. AsFe(0) = Zero
      <3>1. ASSUME NEW i \in 0 .. N - 1 PROVE (0 \div 2 ^ i) % 2 # 1
        <4> DEFINE p == 2 ^ i
        <4>1. p \in Nat \ {0}
          BY <3>1, PowersPositive, NIsNat
        <4> HIDE DEF p
        <4>2. 0 \div p = 0
          BY <4>1
        <4>3. 0 % 2 = 0
          OBVIOUS
        <4>4. (0 \div p) % 2 # 1
          BY <4>2, <4>3
        <4> QED BY <4>4 DEF p
      <3> QED BY <3>1 DEF AsFe, Zero
    <2>2. 0 < 2 ^ N
      BY PowersPositive, NIsNat
    <2>3. AsFe(v) # AsFe(0)
      BY <1>3, <2>2, BitsTell
    <2> QED BY <2>1, <2>3
  <1> QED BY <1>1, <1>2, <1>3
-------------------------------------------------------------------------------
(* Text *)

LEMMA EncodeRounds ==
  ASSUME NEW b, NEW m \in Nat, m = Len(b) * ByteBits
  PROVE  \E f : /\ f[0] = Start
                /\ \A k \in 1 .. m : f[k] = EncStep(b, f[k - 1])
                /\ Encode(b) = f[m].r
  <1> DEFINE Round(r, k) == IF k = 0 THEN Start
                            ELSE CHOOSE t \in {EncStep(b, s) : s \in {r[k - 1]}} : TRUE
             Is(r, n) == r = [k \in 0 .. n |-> Round(r, k)]
             T == {n \in 0 .. m : \E r : Is(r, n)}
             f == CHOOSE r : r = [k \in 0 .. Len(b) * ByteBits |-> Round(r, k)]
  <1>1. 0 \in T
    <2>1. Is([k \in 0 .. 0 |-> Start], 0)
      OBVIOUS
    <2> HIDE DEF Is
    <2> QED BY <2>1
  <1>2. ASSUME NEW n \in 0 .. m - 1, n \in T PROVE n + 1 \in T
    <2>1. PICK r : Is(r, n)
      BY <1>2
    <2> DEFINE q == [k \in 0 .. n + 1 |-> IF k <= n THEN r[k] ELSE Round(r, n + 1)]
    <2>2. \A k \in 0 .. n + 1 : q[k] = Round(r, k)
      <3>1. \A k \in 0 .. n : r[k] = Round(r, k)
        BY <2>1
      <3> HIDE DEF Round
      <3> QED BY <3>1
    <2>3. \A k \in 1 .. n + 1 : q[k - 1] = r[k - 1]
      OBVIOUS
    <2> HIDE DEF q
    <2>4. \A k \in 0 .. n + 1 : Round(q, k) = Round(r, k)
      BY <2>3
    <2>5. q = [k \in 0 .. n + 1 |-> q[k]]
      BY DEF q
    <2>6. Is(q, n + 1)
      <3> HIDE DEF Round
      <3> QED BY <2>2, <2>4, <2>5
    <2> HIDE DEF Is
    <2> QED BY <2>6
  <1>3. m \in T
    <2> HIDE DEF T
    <2>1. \A k \in 0 .. m : k \in T
      BY <1>1, <1>2, Climbs
    <2> QED BY <2>1
  <1>4. PICK r : r = [k \in 0 .. Len(b) * ByteBits |-> Round(r, k)]
    BY <1>3
  <1>5. f = [k \in 0 .. Len(b) * ByteBits |-> Round(f, k)] /\ Encode(b) = f[Len(b) * ByteBits].r
    BY <1>4, Zenon DEF Encode
  <1> HIDE DEF f
  <1>6. \A k \in 0 .. m : f[k] = Round(f, k)
    <2> HIDE DEF Round
    <2> QED BY <1>5
  <1>7. \A k \in 1 .. m : f[k] = EncStep(b, f[k - 1])
    BY <1>6
  <1>8. f[0] = Start
    BY <1>6
  <1> QED BY <1>5, <1>7, <1>8

Outcome(s, invalid) == IF s.v # {} THEN invalid ELSE s.r

LEMMA DecodeRounds ==
  ASSUME NEW text, NEW invalid, NEW m \in Nat, m = 2 * Len(text)
  PROVE  \E f : /\ f[0] = Start
                /\ \A k \in 1 .. m : f[k] = DecStep(text, f[k - 1])
                /\ Decode(text, invalid) = Outcome(f[m], invalid)
  <1> DEFINE Round(r, k) == IF k = 0 THEN Start
                            ELSE CHOOSE t \in {DecStep(text, s) : s \in {r[k - 1]}} : TRUE
             Is(r, n) == r = [k \in 0 .. n |-> Round(r, k)]
             T == {n \in 0 .. m : \E r : Is(r, n)}
             f == CHOOSE r : r = [k \in 0 .. 2 * Len(text) |-> Round(r, k)]
  <1>1. 0 \in T
    <2>1. Is([k \in 0 .. 0 |-> Start], 0)
      OBVIOUS
    <2> HIDE DEF Is
    <2> QED BY <2>1
  <1>2. ASSUME NEW n \in 0 .. m - 1, n \in T PROVE n + 1 \in T
    <2>1. PICK r : Is(r, n)
      BY <1>2
    <2> DEFINE q == [k \in 0 .. n + 1 |-> IF k <= n THEN r[k] ELSE Round(r, n + 1)]
    <2>2. \A k \in 0 .. n + 1 : q[k] = Round(r, k)
      <3>1. \A k \in 0 .. n : r[k] = Round(r, k)
        BY <2>1
      <3> HIDE DEF Round
      <3> QED BY <3>1
    <2>3. \A k \in 1 .. n + 1 : q[k - 1] = r[k - 1]
      OBVIOUS
    <2> HIDE DEF q
    <2>4. \A k \in 0 .. n + 1 : Round(q, k) = Round(r, k)
      BY <2>3
    <2>5. q = [k \in 0 .. n + 1 |-> q[k]]
      BY DEF q
    <2>6. Is(q, n + 1)
      <3> HIDE DEF Round
      <3> QED BY <2>2, <2>4, <2>5
    <2> HIDE DEF Is
    <2> QED BY <2>6
  <1>3. m \in T
    <2> HIDE DEF T
    <2>1. \A k \in 0 .. m : k \in T
      BY <1>1, <1>2, Climbs
    <2> QED BY <2>1
  <1>4. PICK r : r = [k \in 0 .. 2 * Len(text) |-> Round(r, k)]
    BY <1>3
  <1>5. /\ f = [k \in 0 .. 2 * Len(text) |-> Round(f, k)]
        /\ Decode(text, invalid) = IF f[2 * Len(text)].v # {} THEN invalid ELSE f[2 * Len(text)].r
    BY <1>4, Zenon DEF Decode
  <1> HIDE DEF f
  <1>6. \A k \in 0 .. m : f[k] = Round(f, k)
    <2> HIDE DEF Round
    <2> QED BY <1>5
  <1>7. \A k \in 1 .. m : f[k] = DecStep(text, f[k - 1])
    BY <1>6
  <1>8. f[0] = Start
    BY <1>6
  <1> QED BY <1>5, <1>7, <1>8 DEF Outcome

Groups(w) == Seq(SUBSET (0 .. w - 1))

(* The bits of n groups of w bits.                                         *)
Bits(s, w, n) == {p \in Nat : \E j \in 1 .. n : \E t \in s[j] : p = (j - 1) * w + t}

LEMMA BitsBelow ==
  ASSUME NEW w \in Nat, NEW s \in Groups(w), NEW n \in 0 .. Len(s), NEW p \in Bits(s, w, n)
  PROVE  p \in Nat /\ p < n * w
  <1>1. PICK j \in 1 .. n : \E t \in s[j] : p = (j - 1) * w + t
    BY DEF Bits
  <1>2. PICK t \in s[j] : p = (j - 1) * w + t
    BY <1>1
  <1>3. j \in 1 .. Len(s) /\ j \in Int /\ n \in Int
    BY DEF Groups
  <1>4. t \in 0 .. w - 1
    BY <1>3 DEF Groups
  <1>5. (j - 1) * w + w <= n * w /\ (j - 1) * w \in Int /\ n * w \in Int
    <2>1. j - 1 < n /\ j - 1 \in Int
      BY <1>3
    <2> QED BY <1>3, <2>1, ProductLess
  <1> QED BY <1>2, <1>4, <1>5 DEF Bits

(* A place has one group and one bit of it.                                *)
LEMMA BitAt ==
  ASSUME NEW w \in Nat, NEW s \in Groups(w), NEW n \in 0 .. Len(s), NEW j \in 1 .. n, NEW t \in 0 .. w - 1
  PROVE  (j - 1) * w + t \in Bits(s, w, n) <=> t \in s[j]
  <1>j. j \in 1 .. Len(s) /\ j \in Int /\ j - 1 \in Int /\ j - 1 >= 0
    BY DEF Groups
  <1>0. (j - 1) * w \in Int /\ (j - 1) * w >= 0
    BY <1>j, Product
  <1>1. ASSUME t \in s[j] PROVE (j - 1) * w + t \in Bits(s, w, n)
    BY <1>0, <1>1, SMTT(30) DEF Bits
  <1>2. ASSUME (j - 1) * w + t \in Bits(s, w, n) PROVE t \in s[j]
    <2>1. PICK i \in 1 .. n : \E u \in s[i] : (j - 1) * w + t = (i - 1) * w + u
      BY <1>2 DEF Bits
    <2>2. PICK u \in s[i] : (j - 1) * w + t = (i - 1) * w + u
      BY <2>1
    <2>3. i \in 1 .. Len(s) /\ i \in Int /\ i - 1 \in Int
      BY DEF Groups
    <2>4. u \in 0 .. w - 1
      BY <2>3 DEF Groups
    <2>5. ~(i < j)
      <3>1. ASSUME i < j PROVE FALSE
        <4>1. (i - 1) * w \in Int /\ (i - 1) * w + w <= (j - 1) * w
          <5>1. i - 1 < j - 1
            BY <1>j, <2>3, <3>1
          <5> QED BY <1>j, <2>3, <5>1, ProductLess
        <4> QED BY <1>0, <2>2, <2>4, <4>1
      <3> QED BY <3>1
    <2>6. ~(j < i)
      <3>1. ASSUME j < i PROVE FALSE
        <4>1. (i - 1) * w \in Int /\ (j - 1) * w + w <= (i - 1) * w
          <5>1. j - 1 < i - 1
            BY <1>j, <2>3, <3>1
          <5> QED BY <1>j, <2>3, <5>1, ProductLess
        <4> QED BY <1>0, <2>2, <2>4, <4>1
      <3> QED BY <3>1
    <2>7. i = j
      BY <1>j, <2>3, <2>5, <2>6
    <2>8. u = t
      BY <1>0, <2>2, <2>4, <2>7
    <2> QED BY <2>7, <2>8
  <1> QED BY <1>1, <1>2

LEMMA BitsMore ==
  ASSUME NEW w \in Nat, NEW s \in Groups(w), NEW n \in 0 .. Len(s) - 1
  PROVE  Bits(s, w, n + 1) = Bits(s, w, n) \union Up(s[n + 1], n * w)
  <1>n. n \in Nat /\ n \in Int /\ n + 1 \in 1 .. Len(s) /\ (n + 1) - 1 = n /\ n * w \in Int /\ n * w >= 0
    <2>1. n \in Int /\ n >= 0 /\ n + 1 \in 1 .. Len(s)
      BY DEF Groups
    <2> QED BY <2>1, Product
  <1>s. \A t \in s[n + 1] : t \in Nat
    BY <1>n DEF Groups
  <1>1. ASSUME NEW p \in Bits(s, w, n + 1) PROVE p \in Bits(s, w, n) \union Up(s[n + 1], n * w)
    <2>1. PICK j \in 1 .. n + 1 : \E t \in s[j] : p = (j - 1) * w + t
      BY DEF Bits
    <2>2. PICK t \in s[j] : p = (j - 1) * w + t
      BY <2>1
    <2>3. CASE j = n + 1
      <3>1. p = t + n * w
        BY <1>n, <1>s, <2>2, <2>3
      <3> QED BY <2>3, <3>1 DEF Up
    <2>4. CASE j # n + 1
      <3>1. j \in 1 .. n /\ p \in Nat
        BY <1>n, <2>4 DEF Bits
      <3> QED BY <2>2, <3>1 DEF Bits
    <2> QED BY <2>3, <2>4
  <1>2. ASSUME NEW p \in Bits(s, w, n) PROVE p \in Bits(s, w, n + 1)
    <2>1. PICK j \in 1 .. n : \E t \in s[j] : p = (j - 1) * w + t
      BY DEF Bits
    <2>2. j \in 1 .. n + 1 /\ p \in Nat
      BY <1>n DEF Bits
    <2> QED BY <2>1, <2>2 DEF Bits
  <1>3. ASSUME NEW p \in Up(s[n + 1], n * w) PROVE p \in Bits(s, w, n + 1)
    <2>1. PICK t \in s[n + 1] : p = t + n * w
      BY DEF Up
    <2>2. n + 1 \in 1 .. n + 1 /\ p \in Nat /\ p = ((n + 1) - 1) * w + t
      BY <1>n, <1>s, <2>1
    <2> QED BY <2>2 DEF Bits
  <1> QED BY <1>1, <1>2, <1>3

LEMMA BitsNone == ASSUME NEW w, NEW s PROVE Bits(s, w, 0) = {}
  BY DEF Bits

(* The groups that are not there yet are behind.                           *)
LEMMA BitsAhead ==
  ASSUME NEW w \in Nat, NEW s \in Groups(w), NEW n \in 0 .. Len(s), NEW p \in Nat, p < n * w
  PROVE  p \in Bits(s, w, Len(s)) <=> p \in Bits(s, w, n)
  <1>l. Len(s) \in Nat /\ n \in Int
    BY DEF Groups
  <1>1. ASSUME p \in Bits(s, w, Len(s)) PROVE p \in Bits(s, w, n)
    <2>1. PICK j \in 1 .. Len(s) : \E t \in s[j] : p = (j - 1) * w + t
      BY <1>1 DEF Bits
    <2>2. PICK t \in s[j] : p = (j - 1) * w + t
      BY <2>1
    <2>3. t \in Nat
      BY DEF Groups
    <2>4. ~(n < j)
      <3>1. ASSUME n < j PROVE FALSE
        <4>1. CASE n = j - 1
          <5>1. (j - 1) * w \in Int
            BY <1>l, Product
          <5> QED BY <2>2, <2>3, <4>1, <5>1
        <4>2. CASE n < j - 1
          <5>1. n * w \in Int /\ (j - 1) * w \in Int /\ n * w + w <= (j - 1) * w
            <6>1. j - 1 \in Int
              BY <1>l
            <6> QED BY <1>l, <4>2, <6>1, ProductLess
          <5> QED BY <2>2, <2>3, <5>1
        <4> QED BY <1>l, <3>1, <4>1, <4>2
      <3> QED BY <3>1
    <2>5. j \in 1 .. n
      BY <1>l, <2>4
    <2> QED BY <2>2, <2>5 DEF Bits
  <1>2. ASSUME p \in Bits(s, w, n) PROVE p \in Bits(s, w, Len(s))
    <2>1. PICK j \in 1 .. n : \E t \in s[j] : p = (j - 1) * w + t
      BY <1>2 DEF Bits
    <2>2. j \in 1 .. Len(s)
      BY <1>l
    <2> QED BY <2>1, <2>2 DEF Bits
  <1> QED BY <1>1, <1>2

(* What is left of bits after so many of them, and the n bits from there.  *)
Part(v, a, n) == {t \in 0 .. n - 1 : a + t \in v}

LEMMA DownTwice ==
  ASSUME NEW v \in SUBSET Nat, NEW a \in Nat, NEW n \in Nat
  PROVE  /\ Down(v, a) \in SUBSET Nat
         /\ \A p \in Nat : p \in Down(v, a) <=> p + a \in v
         /\ Down(Down(v, a), n) = Down(v, a + n)
         /\ Low(Down(v, a), n) = Part(v, a, n)
  <1>1. \A u \in SUBSET Nat, d \in Nat : Down(u, d) \in SUBSET Nat
          /\ \A p \in Nat : p \in Down(u, d) <=> p + d \in u
    <2> SUFFICES ASSUME NEW u \in SUBSET Nat, NEW d \in Nat
                 PROVE  Down(u, d) \in SUBSET Nat /\ \A p \in Nat : p \in Down(u, d) <=> p + d \in u
      OBVIOUS
    <2>1. Down(u, d) \in SUBSET Nat
      BY DEF Down
    <2>2. ASSUME NEW p \in Nat, p \in Down(u, d) PROVE p + d \in u
      <3>1. PICK i \in {j \in u : j >= d} : p = i - d
        BY <2>2 DEF Down
      <3>2. i \in Nat /\ p + d = i
        BY <3>1
      <3> QED BY <3>2
    <2>3. ASSUME NEW p \in Nat, p + d \in u PROVE p \in Down(u, d)
      <3>1. p + d >= d /\ p = (p + d) - d
        OBVIOUS
      <3> QED BY <2>3, <3>1 DEF Down
    <2> QED BY <2>1, <2>2, <2>3
  <1>2. Down(v, a) \in SUBSET Nat /\ \A p \in Nat : p \in Down(v, a) <=> p + a \in v
    BY <1>1
  <1>3. Down(Down(v, a), n) = Down(v, a + n)
    <2> DEFINE x == Down(Down(v, a), n)
               y == Down(v, a + n)
               c == Down(v, a)
    <2>1. c \in SUBSET Nat /\ a + n \in Nat
      BY <1>2
    <2>2. x \in SUBSET Nat /\ \A p \in Nat : p \in x <=> p + n \in c
      BY <1>1, <2>1
    <2>3. y \in SUBSET Nat /\ \A p \in Nat : p \in y <=> p + (a + n) \in v
      BY <1>1, <2>1
    <2> HIDE DEF x, y, c
    <2>4. ASSUME NEW p \in Nat PROVE p \in x <=> p \in y
      <3>1. p + n \in Nat /\ (p + n) + a = p + (a + n)
        OBVIOUS
      <3>2. p + n \in c <=> (p + n) + a \in v
        BY <1>2, <3>1 DEF c
      <3> QED BY <2>2, <2>3, <3>1, <3>2
    <2>5. x = y
      BY <2>2, <2>3, <2>4
    <2> QED BY <2>5 DEF x, y
  <1>4. Low(Down(v, a), n) = Part(v, a, n)
    <2> DEFINE c == Down(v, a)
    <2> HIDE DEF c
    <2>1. c \in SUBSET Nat /\ \A p \in Nat : p \in c <=> a + p \in v
      <3>1. \A p \in Nat : p + a = a + p
        OBVIOUS
      <3> QED BY <1>2, <3>1 DEF c
    <2>2. Low(c, n) = Part(v, a, n)
      <3>1. ASSUME NEW t \in Low(c, n) PROVE t \in 0 .. n - 1 /\ a + t \in v
        <4>1. t \in c /\ t < n
          BY DEF Low
        <4> QED BY <2>1, <4>1
      <3>2. ASSUME NEW t \in 0 .. n - 1, a + t \in v PROVE t \in Low(c, n)
        <4>1. t \in c /\ t < n
          BY <2>1, <3>2
        <4> QED BY <4>1 DEF Low
      <3> QED BY <3>1, <3>2 DEF Part
    <2> QED BY <2>2 DEF c
  <1> QED BY <1>2, <1>3, <1>4

(* One width of groups for another: every bit is at its place.             *)
Window(s, w, c, q) == Part(Bits(s, w, Len(s)), (q - 1) * c, c)

EncInv(b, s) ==
  LET c == Len(s.r)
  IN /\ s = [i |-> s.i, nbits |-> s.nbits, v |-> s.v, r |-> s.r]
     /\ s.i \in 0 .. Len(b) /\ s.r \in Groups(CharBits)
     /\ s.nbits = s.i * ByteBits - c * CharBits
     /\ s.nbits > -CharBits /\ (s.i < Len(b) => s.nbits >= 0)
     /\ s.v = Down(Bits(b, ByteBits, s.i), c * CharBits)
     /\ \A q \in 1 .. c : s.r[q] = Window(b, ByteBits, CharBits, q)

Left(b, s) == Len(b) * ByteBits - Len(s.r) * CharBits

LEMMA EncStepKeeps ==
  ASSUME NEW b \in Groups(ByteBits), NEW s, EncInv(b, s)
  PROVE  /\ EncInv(b, EncStep(b, s))
         /\ Left(b, s) \in Int /\ Left(b, EncStep(b, s)) \in Int
         /\ Left(b, s) <= 0 \/ Left(b, EncStep(b, s)) < Left(b, s)
         /\ Left(b, s) <= 0 => EncStep(b, s) = s
  <1> DEFINE C == CharBits
             B == ByteBits
             c == Len(s.r)
             takes == s.nbits < C /\ s.i < Len(b)
             i == IF takes THEN s.i + 1 ELSE s.i
             nbits == IF takes THEN s.nbits + B ELSE s.nbits
             v == IF takes THEN s.v \union Up(b[s.i + 1], s.nbits) ELSE s.v
             next == [i |-> i, nbits |-> nbits - C, v |-> Down(v, C), r |-> Append(s.r, Low(v, C))]
             G == Bits(b, B, i)
             all == Bits(b, B, Len(b))
  <1>z. C \in Nat \ {0} /\ B \in Nat /\ C <= B
    BY ZbaseAssumption
  <1>b. Len(b) \in Nat /\ \A j \in 1 .. Len(b) : b[j] \subseteq 0 .. B - 1
    BY DEF Groups
  <1>i. /\ s = [i |-> s.i, nbits |-> s.nbits, v |-> s.v, r |-> s.r]
        /\ s.i \in 0 .. Len(b) /\ s.r \in Groups(C) /\ c \in Nat
        /\ s.nbits = s.i * B - c * C
        /\ s.nbits > -C /\ (s.i < Len(b) => s.nbits >= 0)
        /\ s.v = Down(Bits(b, B, s.i), c * C)
        /\ \A q \in 1 .. c : s.r[q] = Window(b, B, C, q)
    BY DEF EncInv, Groups
  <1>s. EncStep(b, s) = IF nbits <= 0 THEN s ELSE next
    BY DEF EncStep
  <1> DEFINE cc == c * C
             ib == s.i * B
             lb == Len(b) * B
             at == i * B
  <1>l. Left(b, s) = lb - cc
    BY DEF Left
  <1>c. c \in Nat /\ c \in Int /\ c >= 0 /\ C \in Nat /\ s.i \in Int /\ s.i >= 0 /\ Len(b) \in Int
    BY <1>i, <1>b, <1>z
  <1> HIDE DEF C, B, c
  <1>p. /\ cc \in Nat /\ ib \in Nat /\ lb \in Nat
        /\ (s.i + 1) * B = ib + B /\ (c + 1) * C = cc + C
        /\ s.i < Len(b) => ib + B <= lb
    <2>1. c * C \in Int /\ c * C >= 0 /\ (c + 1) * C = c * C + C
      BY <1>c, Product
    <2>2. s.i * B \in Int /\ s.i * B >= 0 /\ (s.i + 1) * B = s.i * B + B
      BY <1>z, <1>c, Product
    <2>3. Len(b) * B \in Int /\ Len(b) * B >= 0
      BY <1>z, <1>b, <1>c, Product
    <2>4. s.i < Len(b) => s.i * B + B <= Len(b) * B
      BY <1>z, <1>c, ProductLess
    <2> QED BY <2>1, <2>2, <2>3, <2>4
  <1>n. s.nbits = ib - cc /\ s.nbits > -C /\ (s.i < Len(b) => s.nbits >= 0) /\ s.i \in 0 .. Len(b)
    BY <1>i
  <1>e. s.i = Len(b) => ib = lb
    OBVIOUS
  <1>a. at = IF takes THEN ib + B ELSE ib
    BY <1>p
  <1> HIDE DEF cc, ib, lb, at
  <1>d. nbits <= 0 <=> Left(b, s) <= 0
    <2>1. CASE takes
      BY <1>z, <1>b, <1>n, <1>p, <1>l, <1>e, <2>1
    <2>2. CASE ~takes /\ s.i < Len(b)
      BY <1>z, <1>b, <1>n, <1>p, <1>l, <1>e, <2>2
    <2>3. CASE s.i = Len(b)
      BY <1>z, <1>b, <1>n, <1>p, <1>l, <1>e, <2>3
    <2> QED BY <1>b, <1>i, <2>1, <2>2, <2>3
  <1>1. ASSUME ~(nbits <= 0) PROVE EncInv(b, next) /\ Left(b, next) = Left(b, s) - C
    <2>1. i \in 0 .. Len(b) /\ nbits = at - cc /\ at \in Nat
      BY <1>b, <1>n, <1>p, <1>z, <1>a
    <2>2. nbits - C > -C /\ (i < Len(b) => nbits - C >= 0)
      BY <1>1, <1>b, <1>n, <1>p, <1>z, <1>e, <2>1
    <2>3. v = Down(G, cc) /\ G \in SUBSET Nat
      <3>1. G \in SUBSET Nat
        BY DEF Bits
      <3>2. CASE ~takes
        BY <1>i, <3>1, <3>2 DEF cc
      <3>3. CASE takes
        <4> DEFINE F == Bits(b, B, s.i)
                   x == b[s.i + 1]
        <4>1. G = F \union Up(x, ib)
          <5>1. s.i \in 0 .. Len(b) - 1
            BY <1>b, <1>i, <3>3
          <5> QED BY <1>z, <3>3, <5>1, BitsMore DEF B, ib
        <4>2. x \subseteq Nat /\ F \in SUBSET Nat
          BY <1>b, <1>i, <3>3 DEF Bits
        <4>3. v = Down(F, cc) \union Up(x, s.nbits)
          BY <1>i, <3>3 DEF cc
        <4> HIDE DEF F, x, v, G, i
        <4>4. /\ Down(G, cc) \in SUBSET Nat /\ \A p \in Nat : p \in Down(G, cc) <=> p + cc \in G
              /\ Down(F, cc) \in SUBSET Nat /\ \A p \in Nat : p \in Down(F, cc) <=> p + cc \in F
          <5>1. cc \in Nat
            BY <1>p
          <5>2. Down(G, cc) \in SUBSET Nat /\ \A p \in Nat : p \in Down(G, cc) <=> p + cc \in G
            BY <3>1, <5>1, DownTwice
          <5>3. Down(F, cc) \in SUBSET Nat /\ \A p \in Nat : p \in Down(F, cc) <=> p + cc \in F
            BY <4>2, <5>1, DownTwice
          <5> QED BY <5>2, <5>3
        <4>5. s.nbits \in Nat /\ s.nbits + cc = ib
          BY <1>b, <1>n, <1>p, <3>3
        <4>6. v \subseteq Nat
          BY <4>2, <4>3, <4>4, <4>5 DEF Up
        <4>7. ASSUME NEW p \in Nat PROVE p \in v <=> p + cc \in G
          <5>1. p \in Up(x, s.nbits) <=> p + cc \in Up(x, ib)
            <6>1. ASSUME p \in Up(x, s.nbits) PROVE p + cc \in Up(x, ib)
              <7>1. PICK t \in x : p = t + s.nbits
                BY <6>1 DEF Up
              <7>2. t \in Nat /\ cc \in Nat /\ s.nbits \in Nat
                BY <1>p, <4>2, <4>5
              <7>3. p + cc = t + (s.nbits + cc)
                BY <7>1, <7>2
              <7> QED BY <4>5, <7>3 DEF Up
            <6>2. ASSUME p + cc \in Up(x, ib) PROVE p \in Up(x, s.nbits)
              <7>1. PICK t \in x : p + cc = t + ib
                BY <6>2 DEF Up
              <7>2. p = t + s.nbits
                BY <1>p, <4>2, <4>5, <7>1
              <7> QED BY <7>2 DEF Up
            <6> QED BY <6>1, <6>2
          <5>2. p \in Down(F, cc) <=> p + cc \in F
            BY <4>4
          <5> QED BY <4>1, <4>3, <5>1, <5>2
        <4>8. v = Down(G, cc)
          BY <4>4, <4>6, <4>7
        <4> QED BY <3>1, <4>8
      <3> QED BY <3>2, <3>3
    <2>4. /\ Down(v, C) = Down(G, cc + C)
          /\ Low(v, C) = Part(G, cc, C)
      <3> HIDE DEF v, G
      <3>1. cc \in Nat /\ C \in Nat
        BY <1>p, <1>z
      <3>2. Down(Down(G, cc), C) = Down(G, cc + C)
        BY <2>3, <3>1, DownTwice
      <3>3. Low(Down(G, cc), C) = Part(G, cc, C)
        BY <2>3, <3>1, DownTwice
      <3> QED BY <2>3, <3>2, <3>3
    <2>5. Low(v, C) = Window(b, B, C, c + 1)
      <3>1. ASSUME NEW t \in 0 .. C - 1 PROVE cc + t \in G <=> cc + t \in all
        <4>1. CASE i = Len(b)
          BY <4>1
        <4>2. CASE i < Len(b)
          <5> HIDE DEF i
          <5>1. cc + t \in Nat /\ cc + t < at
            <6> HIDE DEF nbits
            <6> QED BY <1>p, <1>z, <2>1, <2>2, <4>2
          <5>2. cc + t < i * B
            BY <5>1 DEF at
          <5> QED BY <1>z, <2>1, <5>1, <5>2, BitsAhead DEF B
        <4> QED BY <1>b, <2>1, <4>1, <4>2
      <3>2. (c + 1) - 1 = c
        BY <1>c
      <3> HIDE DEF v, G, all
      <3> QED BY <2>4, <3>1, <3>2 DEF Window, Part, all, cc
    <2>6. /\ next.r \in Groups(C) /\ Len(next.r) = c + 1
          /\ \A q \in 1 .. c + 1 : next.r[q] = Window(b, B, C, q)
      <3>1. Window(b, B, C, c + 1) \in SUBSET (0 .. C - 1)
        BY DEF Window, Part
      <3> DEFINE W == Window(b, B, C, c + 1)
      <3>2. next.r = Append(s.r, W)
        BY <2>5
      <3>3. Append(s.r, W) \in Groups(C) /\ Len(Append(s.r, W)) = c + 1
            /\ Append(s.r, W)[c + 1] = W /\ \A q \in 1 .. c : Append(s.r, W)[q] = s.r[q]
        <4> HIDE DEF W
        <4> QED BY <1>i, <3>1 DEF Groups, W, c
      <3>4. \A q \in 1 .. c + 1 : q = c + 1 \/ q \in 1 .. c
        BY <1>i
      <3> HIDE DEF next
      <3> QED BY <1>i, <3>2, <3>3, <3>4
    <2>7. next.i = i /\ next.nbits = nbits - C /\ next.v = Down(v, C)
          /\ next = [i |-> next.i, nbits |-> next.nbits, v |-> next.v, r |-> next.r]
      OBVIOUS
    <2> HIDE DEF i, nbits
    <2>8. nbits - C = at - (cc + C) /\ cc + C = (c + 1) * C
      BY <1>p, <1>z, <2>1
    <2>9. nbits - C = i * B - (c + 1) * C
      BY <2>8 DEF at
    <2> HIDE DEF next, v
    <2>10. EncInv(b, next)
      BY <2>1, <2>2, <2>4, <2>6, <2>7, <2>8, <2>9 DEF EncInv, B, C, G
    <2>11. Left(b, next) = lb - (cc + C)
      BY <2>6, <2>8 DEF Left, B, C, lb
    <2> QED BY <1>l, <1>p, <1>z, <2>10, <2>11
  <1>2. Left(b, s) \in Int
    BY <1>l, <1>p
  <1> HIDE DEF next, nbits
  <1> QED BY <1>1, <1>2, <1>d, <1>s, <1>z

(* The text of bytes: their bits in groups of CharBits, and no more groups *)
(* than it takes.                                                          *)
LEMMA EncodeIs ==
  ASSUME NEW b \in Groups(ByteBits)
  PROVE  /\ Encode(b) \in Groups(CharBits)
         /\ Len(b) * ByteBits <= Len(Encode(b)) * CharBits
         /\ Len(Encode(b)) * CharBits < Len(b) * ByteBits + CharBits
         /\ \A q \in 1 .. Len(Encode(b)) : Encode(b)[q] = Window(b, ByteBits, CharBits, q)
  <1> DEFINE m == Len(b) * ByteBits
  <1>z. CharBits \in Nat \ {0} /\ ByteBits \in Nat /\ CharBits <= ByteBits /\ Len(b) \in Nat
    BY ZbaseAssumption DEF Groups
  <1>m. m \in Nat
    <2>1. m \in Int /\ m >= 0
      BY <1>z, Product
    <2> QED BY <2>1
  <1> HIDE DEF m
  <1>1. PICK f : /\ f[0] = Start
                 /\ \A k \in 1 .. m : f[k] = EncStep(b, f[k - 1])
                 /\ Encode(b) = f[m].r
    BY <1>m, EncodeRounds DEF m
  <1> DEFINE T == {k \in 0 .. m : EncInv(b, f[k]) /\ Left(b, f[k]) \in Int
                                  /\ (Left(b, f[k]) <= m - k \/ Left(b, f[k]) <= 0)}
  <1>2. 0 \in T
    <2>1. /\ Start.i = 0 /\ Start.nbits = 0 /\ Start.v = {} /\ Start.r = <<>> /\ Len(Start.r) = 0
          /\ Start = [i |-> Start.i, nbits |-> Start.nbits, v |-> Start.v, r |-> Start.r]
      BY DEF Start
    <2>2. Down(Bits(b, ByteBits, 0), 0 * CharBits) = {}
      BY BitsNone DEF Down
    <2>3. 0 * ByteBits = 0 /\ 0 * CharBits = 0 /\ <<>> \in Groups(CharBits)
      BY <1>z DEF Groups
    <2>4. EncInv(b, Start)
      BY <1>z, <2>1, <2>2, <2>3 DEF EncInv
    <2>5. Left(b, Start) = m
      BY <1>m, <2>1, <2>3 DEF Left, m
    <2> QED BY <1>1, <1>m, <2>4, <2>5
  <1>3. ASSUME NEW k \in 0 .. m - 1, k \in T PROVE k + 1 \in T
    <2>1. k + 1 \in 1 .. m /\ (k + 1) - 1 = k /\ k + 1 \in 0 .. m
      BY <1>m
    <2>2. f[k + 1] = EncStep(b, f[k])
      BY <1>1, <2>1
    <2> DEFINE s == f[k]
               t == f[k + 1]
    <2>3. EncInv(b, s) /\ (Left(b, s) <= m - k \/ Left(b, s) <= 0)
      BY <1>3
    <2> HIDE DEF s, t
    <2>4. /\ EncInv(b, t) /\ Left(b, s) \in Int /\ Left(b, t) \in Int
          /\ Left(b, s) <= 0 \/ Left(b, t) < Left(b, s)
          /\ Left(b, s) <= 0 => t = s
      BY <2>2, <2>3, EncStepKeeps DEF s, t
    <2>5. Left(b, t) <= m - (k + 1) \/ Left(b, t) <= 0
      BY <1>m, <2>3, <2>4
    <2> QED BY <2>1, <2>4, <2>5 DEF t
  <1> HIDE DEF T
  <1>4. m \in T
    <2>1. \A k \in 0 .. m : k \in T
      BY <1>2, <1>3, <1>m, Climbs
    <2> QED BY <1>m, <2>1
  <1> DEFINE s == f[m]
             cc == Len(s.r) * CharBits
             ib == s.i * ByteBits
  <1>5. EncInv(b, s) /\ Left(b, s) <= 0
    <2>1. m - m = 0
      BY <1>m
    <2> QED BY <1>4, <2>1 DEF T
  <1> HIDE DEF s
  <1>6. /\ s.i \in 0 .. Len(b) /\ s.r \in Groups(CharBits)
        /\ s.nbits = ib - cc
        /\ s.nbits > -CharBits /\ (s.i < Len(b) => s.nbits >= 0)
        /\ \A q \in 1 .. Len(s.r) : s.r[q] = Window(b, ByteBits, CharBits, q)
        /\ m - cc <= 0
    BY <1>5 DEF EncInv, Left, m
  <1>7. cc \in Int /\ ib \in Int /\ (s.i < Len(b) => ib + ByteBits <= m) /\ (s.i = Len(b) => ib = m)
    <2>1. Len(s.r) \in Int
      BY <1>6 DEF Groups
    <2>2. cc \in Int
      BY <2>1, <1>z, Product
    <2>3. ib \in Int
      BY <1>6, <1>z, Product
    <2>4. s.i < Len(b) => ib + ByteBits <= m
      <3>1. s.i \in Int /\ Len(b) \in Int
        BY <1>6, <1>z
      <3>2. ASSUME s.i < Len(b) PROVE s.i * ByteBits + ByteBits <= Len(b) * ByteBits
        BY <1>z, <3>1, <3>2, ProductLess
      <3> QED BY <3>2 DEF m
    <2>5. s.i = Len(b) => ib = m
      BY DEF m
    <2> QED BY <2>2, <2>3, <2>4, <2>5
  <1> HIDE DEF cc, ib
  <1>8. m <= cc /\ cc < m + CharBits
    BY <1>6, <1>7, <1>m, <1>z
  <1>9. Encode(b) = s.r
    BY <1>1 DEF s
  <1> QED BY <1>6, <1>8, <1>9 DEF m, cc

DecInv(text, s) ==
  LET m == Len(s.r)
  IN /\ s = [i |-> s.i, nbits |-> s.nbits, v |-> s.v, r |-> s.r]
     /\ s.i \in 0 .. Len(text) /\ s.r \in Groups(ByteBits)
     /\ s.nbits = s.i * CharBits - m * ByteBits /\ s.nbits >= 0
     /\ s.v = Down(Bits(text, CharBits, s.i), m * ByteBits)
     /\ \A j \in 1 .. m : s.r[j] = Window(text, CharBits, ByteBits, j)

(* Nothing more to take or to give.                                        *)
Done(text, s) == s.i = Len(text) /\ s.nbits < ByteBits

LEMMA DecStepKeeps ==
  ASSUME NEW text \in Groups(CharBits), NEW s, DecInv(text, s)
  PROVE  /\ DecInv(text, DecStep(text, s))
         /\ Done(text, s) => DecStep(text, s) = s
         /\ ~Done(text, s) =>
              DecStep(text, s).i + Len(DecStep(text, s).r) = s.i + Len(s.r) + 1
  <1> DEFINE C == CharBits
             B == ByteBits
             m == Len(s.r)
             mb == m * B
             ic == s.i * C
             lc == Len(text) * C
             F == Bits(text, C, s.i)
             all == Bits(text, C, Len(text))
  <1>z. C \in Nat \ {0} /\ B \in Nat /\ C <= B
    BY ZbaseAssumption
  <1>b. Len(text) \in Nat /\ \A j \in 1 .. Len(text) : text[j] \subseteq 0 .. C - 1
    BY DEF Groups
  <1>i. /\ s = [i |-> s.i, nbits |-> s.nbits, v |-> s.v, r |-> s.r]
        /\ s.i \in 0 .. Len(text) /\ s.r \in Groups(B) /\ m \in Nat
        /\ s.nbits = ic - mb /\ s.nbits >= 0
        /\ s.v = Down(F, mb)
        /\ \A j \in 1 .. m : s.r[j] = Window(text, C, B, j)
    BY DEF DecInv, Groups
  <1>F. F \in SUBSET Nat
    BY DEF Bits
  <1>c. s.i \in Int /\ s.i >= 0 /\ m \in Int /\ m >= 0 /\ Len(text) \in Int
    BY <1>b, <1>i
  <1> HIDE DEF C, B, m, F
  <1>p. mb \in Nat /\ ic \in Nat /\ (s.i + 1) * C = ic + C /\ (m + 1) * B = mb + B
    <2>1. m * B \in Int /\ m * B >= 0 /\ (m + 1) * B = m * B + B
      BY <1>z, <1>c, Product
    <2>2. s.i * C \in Int /\ s.i * C >= 0 /\ (s.i + 1) * C = s.i * C + C
      BY <1>z, <1>c, Product
    <2> QED BY <2>1, <2>2
  <1> HIDE DEF mb, ic
  <1>1. CASE s.nbits < B /\ s.i < Len(text)
    <2> DEFINE x == text[s.i + 1]
               G == Bits(text, C, s.i + 1)
               v == s.v \union Up(x, s.nbits)
               next == [i |-> s.i + 1, nbits |-> s.nbits + C, v |-> v, r |-> s.r]
    <2>1. DecStep(text, s) = next
      <3>1. DecStep(text, s) = [s EXCEPT !.i = @ + 1, !.nbits = @ + C, !.v = @ \union Up(x, s.nbits)]
        BY <1>1 DEF DecStep, B, C
      <3> QED BY <1>i, <3>1
    <2>2. G = F \union Up(x, ic) /\ G \in SUBSET Nat
      <3>1. s.i \in 0 .. Len(text) - 1
        BY <1>b, <1>i, <1>1
      <3>2. G = F \union Up(x, ic)
        BY <1>z, <3>1, BitsMore DEF C, F, ic
      <3> QED BY <3>2 DEF Bits
    <2>3. x \subseteq Nat /\ s.nbits \in Nat /\ s.nbits + mb = ic
      <3>1. s.i + 1 \in 1 .. Len(text)
        BY <1>b, <1>c, <1>1
      <3>2. x \subseteq Nat
        BY <1>b, <3>1
      <3> QED BY <1>i, <1>p, <3>2
    <2> HIDE DEF x, G
    <2>4. /\ Down(G, mb) \in SUBSET Nat /\ \A p \in Nat : p \in Down(G, mb) <=> p + mb \in G
          /\ Down(F, mb) \in SUBSET Nat /\ \A p \in Nat : p \in Down(F, mb) <=> p + mb \in F
      <3>1. mb \in Nat
        BY <1>p
      <3>2. Down(G, mb) \in SUBSET Nat /\ \A p \in Nat : p \in Down(G, mb) <=> p + mb \in G
        BY <2>2, <3>1, DownTwice
      <3>3. Down(F, mb) \in SUBSET Nat /\ \A p \in Nat : p \in Down(F, mb) <=> p + mb \in F
        BY <1>F, <3>1, DownTwice
      <3> QED BY <3>2, <3>3
    <2>5. v \subseteq Nat
      BY <1>i, <2>3, <2>4 DEF Up
    <2>6. ASSUME NEW p \in Nat PROVE p \in v <=> p + mb \in G
      <3>1. p \in Up(x, s.nbits) <=> p + mb \in Up(x, ic)
        <4>1. ASSUME p \in Up(x, s.nbits) PROVE p + mb \in Up(x, ic)
          <5>1. PICK t \in x : p = t + s.nbits
            BY <4>1 DEF Up
          <5>2. t \in Nat /\ mb \in Nat /\ s.nbits \in Nat
            BY <1>p, <2>3
          <5>3. p + mb = t + (s.nbits + mb)
            BY <5>1, <5>2
          <5> QED BY <2>3, <5>3 DEF Up
        <4>2. ASSUME p + mb \in Up(x, ic) PROVE p \in Up(x, s.nbits)
          <5>1. PICK t \in x : p + mb = t + ic
            BY <4>2 DEF Up
          <5>2. p = t + s.nbits
            BY <1>p, <2>3, <5>1
          <5> QED BY <5>2 DEF Up
        <4> QED BY <4>1, <4>2
      <3>2. p \in Down(F, mb) <=> p + mb \in F
        BY <2>4
      <3> QED BY <1>i, <2>2, <3>1, <3>2
    <2>7. v = Down(G, mb)
      BY <2>4, <2>5, <2>6
    <2>8. s.nbits + C = (ic + C) - mb /\ s.nbits + C >= 0 /\ s.i + 1 \in 0 .. Len(text)
      BY <1>i, <1>p, <1>z, <1>1, <1>b, SMTT(30)
    <2>9. next.i = s.i + 1 /\ next.nbits = s.nbits + C /\ next.v = v /\ next.r = s.r
          /\ next = [i |-> next.i, nbits |-> next.nbits, v |-> next.v, r |-> next.r]
      OBVIOUS
    <2>10. s.nbits + C = (s.i + 1) * C - m * B
      BY <1>p, <2>8 DEF mb
    <2> HIDE DEF next, v
    <2>11. DecInv(text, next)
      BY <1>i, <2>7, <2>8, <2>9, <2>10 DEF DecInv, B, C, G, m, mb
    <2>12. next.i + Len(next.r) = s.i + m + 1
      BY <1>c, <2>9 DEF m
    <2>13. ~Done(text, s)
      BY <1>1, <1>b, <1>c DEF Done
    <2> QED BY <2>1, <2>11, <2>12, <2>13 DEF m
  <1>2. CASE s.nbits < B /\ ~(s.i < Len(text))
    <2>1. DecStep(text, s) = s
      BY <1>2 DEF DecStep, B
    <2>2. Done(text, s)
      BY <1>2, <1>b, <1>i DEF Done, B
    <2> QED BY <2>1, <2>2
  <1>3. CASE ~(s.nbits < B)
    <2> DEFINE W == Window(text, C, B, m + 1)
               next == [i |-> s.i, nbits |-> s.nbits - B, v |-> Down(s.v, B), r |-> Append(s.r, Low(s.v, B))]
    <2>1. DecStep(text, s) = next
      <3>1. DecStep(text, s) = [s EXCEPT !.nbits = @ - B, !.v = Down(@, B), !.r = Append(@, Low(s.v, B))]
        BY <1>3 DEF DecStep, B
      <3> QED BY <1>i, <3>1
    <2>2. Down(s.v, B) = Down(F, mb + B) /\ Low(s.v, B) = Part(F, mb, B)
      <3>1. mb \in Nat /\ B \in Nat
        BY <1>p, <1>z
      <3>2. Down(Down(F, mb), B) = Down(F, mb + B)
        BY <1>F, <3>1, DownTwice
      <3>3. Low(Down(F, mb), B) = Part(F, mb, B)
        BY <1>F, <3>1, DownTwice
      <3> QED BY <1>i, <3>2, <3>3
    <2>3. Low(s.v, B) = W
      <3>1. ASSUME NEW t \in 0 .. B - 1 PROVE mb + t \in F <=> mb + t \in all
        <4>1. mb + t \in Nat /\ mb + t < ic
          BY <1>3, <1>i, <1>p, <1>z, SMTT(30)
        <4>2. mb + t < s.i * C
          BY <4>1 DEF ic
        <4> QED BY <1>z, <1>i, <4>1, <4>2, BitsAhead DEF C, F
      <3>2. (m + 1) - 1 = m
        BY <1>c
      <3> HIDE DEF all
      <3> QED BY <2>2, <3>1, <3>2 DEF Window, Part, all, mb
    <2>4. /\ Append(s.r, W) \in Groups(B) /\ Len(Append(s.r, W)) = m + 1
          /\ \A j \in 1 .. m + 1 : Append(s.r, W)[j] = Window(text, C, B, j)
      <3>1. W \in SUBSET (0 .. B - 1)
        BY DEF Window, Part
      <3>2. Append(s.r, W) \in Groups(B) /\ Len(Append(s.r, W)) = m + 1
            /\ Append(s.r, W)[m + 1] = W /\ \A j \in 1 .. m : Append(s.r, W)[j] = s.r[j]
        <4> HIDE DEF W
        <4> QED BY <1>i, <3>1 DEF Groups, m
      <3>3. \A j \in 1 .. m + 1 : j = m + 1 \/ j \in 1 .. m
        BY <1>c
      <3> QED BY <1>i, <3>2, <3>3
    <2>5. s.nbits - B = ic - (mb + B) /\ s.nbits - B >= 0
      BY <1>i, <1>p, <1>z, <1>3
    <2>6. s.nbits - B = s.i * C - (m + 1) * B /\ mb + B = (m + 1) * B
      BY <1>p, <2>5 DEF ic
    <2>7. next.i = s.i /\ next.nbits = s.nbits - B /\ next.v = Down(s.v, B) /\ next.r = Append(s.r, W)
          /\ next = [i |-> next.i, nbits |-> next.nbits, v |-> next.v, r |-> next.r]
      BY <2>3
    <2> HIDE DEF next, W
    <2>8. DecInv(text, next)
      BY <1>i, <2>2, <2>4, <2>5, <2>6, <2>7 DEF DecInv, B, C, F
    <2>9. next.i + Len(next.r) = s.i + m + 1
      BY <1>c, <2>4, <2>7
    <2>10. ~Done(text, s)
      BY <1>3 DEF Done, B
    <2> QED BY <2>1, <2>8, <2>9, <2>10 DEF m
  <1> QED BY <1>1, <1>2, <1>3

(* What decode makes of the text of bytes: the bytes.                      *)
LEMMA TextKept ==
  ASSUME NEW b \in Groups(ByteBits), NEW invalid
  PROVE  Decode(Encode(b), invalid) = b
  <1> DEFINE text == Encode(b)
             C == CharBits
             B == ByteBits
             n == Len(text)
             m == 2 * n
             lb == Len(b) * B
             lc == n * C
             all == Bits(b, B, Len(b))
  <1>z. C \in Nat \ {0} /\ B \in Nat /\ C <= B /\ Len(b) \in Nat
    BY ZbaseAssumption DEF Groups
  <1>t. /\ text \in Groups(C) /\ lb <= lc /\ lc < lb + C
        /\ \A q \in 1 .. n : text[q] = Window(b, B, C, q)
    BY EncodeIs
  <1>n. n \in Nat /\ m \in Nat
    BY <1>t DEF Groups
  <1> HIDE DEF text, C, B, n
  <1>p. lb \in Nat /\ lc \in Nat
    <2>1. lb \in Int /\ lb >= 0
      BY <1>z, Product
    <2>2. lc \in Int /\ lc >= 0
      BY <1>n, <1>z, Product
    <2> QED BY <2>1, <2>2
  <1> HIDE DEF m, lb, lc
  <1>1. PICK f : /\ f[0] = Start
                 /\ \A k \in 1 .. m : f[k] = DecStep(text, f[k - 1])
                 /\ Decode(text, invalid) = Outcome(f[m], invalid)
    <2>1. m \in Nat /\ m = 2 * Len(text)
      BY <1>n DEF m, n
    <2> QED BY <2>1, DecodeRounds, ZenonT(30)
  <1> DEFINE T == {k \in 0 .. m : DecInv(text, f[k]) /\ (Done(text, f[k]) \/ f[k].i + Len(f[k].r) >= k)}
  <1>2. 0 \in T
    <2>1. /\ Start.i = 0 /\ Start.nbits = 0 /\ Start.v = {} /\ Start.r = <<>> /\ Len(Start.r) = 0
          /\ Start = [i |-> Start.i, nbits |-> Start.nbits, v |-> Start.v, r |-> Start.r]
      BY DEF Start
    <2>2. Down(Bits(text, CharBits, 0), 0 * ByteBits) = {}
      BY BitsNone DEF Down
    <2>3. 0 * ByteBits = 0 /\ 0 * CharBits = 0 /\ <<>> \in Groups(ByteBits)
      BY <1>z DEF Groups, B, C
    <2>4. DecInv(text, Start)
      <3>1. 0 \in 0 .. Len(text)
        BY <1>n DEF n
      <3> QED BY <2>1, <2>2, <2>3, <3>1 DEF DecInv
    <2> QED BY <1>1, <1>n, <2>1, <2>4
  <1>3. ASSUME NEW k \in 0 .. m - 1, k \in T PROVE k + 1 \in T
    <2>1. k + 1 \in 1 .. m /\ (k + 1) - 1 = k /\ k + 1 \in 0 .. m
      BY <1>n
    <2>2. f[k + 1] = DecStep(text, f[k])
      BY <1>1, <2>1
    <2> DEFINE s == f[k]
               u == f[k + 1]
    <2>3. DecInv(text, s) /\ (Done(text, s) \/ s.i + Len(s.r) >= k)
      BY <1>3
    <2> HIDE DEF s, u
    <2>4. /\ DecInv(text, u)
          /\ Done(text, s) => u = s
          /\ ~Done(text, s) => u.i + Len(u.r) = s.i + Len(s.r) + 1
      BY <1>t, <2>2, <2>3, DecStepKeeps DEF s, u, C
    <2>5. s.i \in Int /\ Len(s.r) \in Int
      BY <2>3, <1>n DEF DecInv, Groups, n
    <2>6. Done(text, u) \/ u.i + Len(u.r) >= k + 1
      BY <2>1, <2>3, <2>4, <2>5
    <2> QED BY <2>1, <2>4, <2>6 DEF u
  <1> HIDE DEF T
  <1>4. m \in T
    <2>1. \A k \in 0 .. m : k \in T
      BY <1>2, <1>3, <1>n, Climbs
    <2> QED BY <1>n, <2>1
  <1> DEFINE s == f[m]
             r == s.r
             d == Len(r)
             db == d * B
             ic == s.i * C
  <1>5. DecInv(text, s) /\ (Done(text, s) \/ s.i + d >= m)
    BY <1>4 DEF T
  <1> HIDE DEF s
  <1>6. /\ s.i \in 0 .. n /\ r \in Groups(B) /\ d \in Nat
        /\ s.nbits = ic - db /\ s.nbits >= 0
        /\ s.v = Down(Bits(text, C, s.i), db)
        /\ \A j \in 1 .. d : r[j] = Window(text, C, B, j)
    BY <1>5 DEF DecInv, Groups, B, C, n
  <1> HIDE DEF r, d
  <1>7. db \in Nat /\ ic \in Nat
    <2>1. db \in Int /\ db >= 0
      BY <1>6, <1>z, Product
    <2>2. s.i \in Int /\ s.i >= 0
      BY <1>6, <1>n
    <2>3. ic \in Int /\ ic >= 0
      BY <2>2, <1>z, Product
    <2> QED BY <2>1, <2>3
  <1>8. s.i = n /\ s.nbits < B
    <2>1. CASE Done(text, s)
      BY <2>1 DEF Done, n, B
    <2>2. CASE s.i + d >= m
      <3>1. ~(n < d)
        <4>1. ASSUME n < d PROVE FALSE
          <5>1. n * B + B <= d * B
            BY <1>n, <1>6, <1>z, <4>1, ProductLess
          <5>2. s.i * C <= n * C
            <6>1. CASE s.i = n
              BY <1>7, <6>1 DEF ic
            <6>2. CASE s.i < n
              <7>1. s.i * C + C <= n * C
                <8>1. s.i \in Int /\ n \in Int /\ C \in Nat
                  BY <1>n, <1>6, <1>z
                <8> QED BY <6>2, <8>1, ProductLess
              <7> QED BY <7>1, <1>z, <1>7, <1>p DEF ic, lc
            <6> QED BY <1>n, <1>6, <6>1, <6>2
          <5>3. n * C <= n * B
            <6>1. C * n <= B * n
              <7>1. CASE C = B
                BY <1>n, <1>z, <7>1
              <7>2. CASE C < B
                <8>1. C * n + n <= B * n /\ C * n \in Int /\ B * n \in Int
                  BY <1>n, <1>z, <7>2, ProductLess
                <8> QED BY <8>1, <1>n
              <7> QED BY <1>z, <7>1, <7>2
            <6>2. C * n = n * C /\ B * n = n * B
              BY <1>n, <1>z
            <6> QED BY <6>1, <6>2
          <5>4. n * B \in Int
            BY <1>n, <1>z, Product
          <5>5. ic <= lc /\ lc <= n * B /\ n * B + B <= db
            BY <5>1, <5>2, <5>3 DEF ic, lc, db
          <5> HIDE DEF db, ic
          <5> QED BY <1>6, <1>7, <1>p, <1>z, <5>4, <5>5
        <4> QED BY <4>1
      <3>2. d = n /\ s.i = n
        BY <1>6, <1>n, <2>2, <3>1 DEF m
      <3>3. ic = lc
        BY <3>2 DEF lc
      <3>4. lc <= db
        <4>1. C * n <= B * n
          <5>1. CASE C = B
            BY <1>n, <1>z, <5>1
          <5>2. CASE C < B
            <6>1. C * n + n <= B * n /\ C * n \in Int /\ B * n \in Int
              BY <1>n, <1>z, <5>2, ProductLess
            <6> QED BY <6>1, <1>n
          <5> QED BY <1>z, <5>1, <5>2
        <4>2. C * n = n * C /\ B * n = n * B
          BY <1>n, <1>z
        <4> QED BY <3>2, <4>1, <4>2 DEF lc
      <3> HIDE DEF db, ic
      <3> QED BY <1>6, <1>7, <1>p, <1>z, <3>2, <3>3, <3>4
    <2> QED BY <1>5, <2>1, <2>2 DEF d, r
  <1>9. ic = lc
    BY <1>8 DEF lc
  <1>10. d = Len(b)
    <2>1. ~(d < Len(b))
      <3>1. ASSUME d < Len(b) PROVE FALSE
        <4>1. db + B <= lb
          <5>1. Len(b) \in Int /\ d \in Int
            BY <1>6, <1>z
          <5>2. d * B + B <= Len(b) * B
            BY <1>z, <3>1, <5>1, ProductLess
          <5> QED BY <5>2 DEF lb
        <4> HIDE DEF db, ic
        <4> QED BY <1>6, <1>7, <1>8, <1>9, <1>p, <1>t, <1>z, <4>1
      <3> QED BY <3>1
    <2>2. ~(Len(b) < d)
      <3>1. ASSUME Len(b) < d PROVE FALSE
        <4>1. lb + B <= db
          <5>1. Len(b) \in Int /\ d \in Int
            BY <1>6, <1>z
          <5>2. Len(b) * B + B <= d * B
            BY <1>z, <3>1, <5>1, ProductLess
          <5> QED BY <5>2 DEF lb
        <4> HIDE DEF db, ic
        <4> QED BY <1>6, <1>7, <1>8, <1>9, <1>p, <1>t, <1>z, <4>1
      <3> QED BY <3>1
    <2> QED BY <1>6, <1>z, <2>1, <2>2
  <1>11. db = lb
    BY <1>10 DEF lb
  <1> HIDE DEF db, ic
  <1>b. \A p \in all : p \in Nat /\ p < lb
    <2>1. Len(b) \in 0 .. Len(b)
      BY <1>z
    <2> QED BY <1>z, <2>1, BitsBelow DEF B, lb
  <1>12. \A p \in Nat : p \in Bits(text, C, n) <=> p \in all
    <2> DEFINE S == {k \in 0 .. n : \A p \in Nat : p < k * C => (p \in Bits(text, C, n) <=> p \in all)}
    <2>1. 0 \in S
      <3>1. 0 * C = 0
        BY <1>z
      <3> QED BY <1>n, <3>1
    <2>2. ASSUME NEW k \in 0 .. n - 1, k \in S PROVE k + 1 \in S
      <3>1. k \in Int /\ k >= 0 /\ k + 1 \in 1 .. n /\ (k + 1) - 1 = k /\ k + 1 \in 0 .. n
        BY <1>n
      <3>2. k * C \in Int /\ (k + 1) * C = k * C + C /\ k * C >= 0
        BY <1>z, <3>1, Product
      <3>3. ASSUME NEW p \in Nat, p < (k + 1) * C PROVE p \in Bits(text, C, n) <=> p \in all
        <4>1. CASE p < k * C
          BY <2>2, <4>1
        <4>2. CASE ~(p < k * C)
          <5> DEFINE kc == k * C
                     t == p - kc
          <5>1. t \in 0 .. C - 1 /\ p = kc + t
            BY <1>z, <3>2, <3>3, <4>2
          <5> HIDE DEF t
          <5>2. kc + t \in Bits(text, C, n) <=> t \in text[k + 1]
            <6> DEFINE j == k + 1
            <6>1. n \in 0 .. Len(text) /\ j \in 1 .. n /\ j - 1 = k
              BY <1>n, <3>1 DEF n
            <6> HIDE DEF j
            <6>2. (j - 1) * C + t \in Bits(text, C, n) <=> t \in text[j]
              BY <1>z, <1>t, <5>1, <6>1, BitAt
            <6> QED BY <6>1, <6>2 DEF j
          <5>3. t \in text[k + 1] <=> kc + t \in all
            <6>1. text[k + 1] = Window(b, B, C, k + 1)
              BY <1>t, <3>1
            <6> QED BY <3>1, <5>1, <6>1 DEF Window, Part
          <5> QED BY <5>1, <5>2, <5>3
        <4> QED BY <4>1, <4>2
      <3> QED BY <3>1, <3>3
    <2> HIDE DEF S
    <2>3. n \in S
      <3>1. \A k \in 0 .. n : k \in S
        BY <1>n, <2>1, <2>2, Climbs
      <3> QED BY <1>n, <3>1
    <2> TAKE p \in Nat
    <2>4. CASE p < lc
      BY <2>3, <2>4 DEF S, lc
    <2>5. CASE ~(p < lc)
      <3>1. p \notin all
        BY <1>b, <1>p, <1>t, <2>5
      <3>2. p \notin Bits(text, C, n)
        <4>1. n \in 0 .. Len(text)
          BY <1>n DEF n
        <4>2. p \in Bits(text, C, n) => p < n * C
          BY <1>z, <1>t, <4>1, BitsBelow
        <4> QED BY <2>5, <4>2 DEF lc
      <3> QED BY <3>1, <3>2
    <2> QED BY <2>4, <2>5
  <1>13. Bits(text, C, n) = all
    BY <1>12 DEF Bits
  <1>14. s.v = {}
    <2>1. s.v = Down(all, lb)
      BY <1>6, <1>8, <1>11, <1>13
    <2> QED BY <2>1, <1>b, <1>p DEF Down
  <1>15. ASSUME NEW j \in 1 .. Len(b) PROVE r[j] = b[j]
    <2>1. r[j] = Part(all, (j - 1) * B, B)
      BY <1>6, <1>10, <1>13 DEF Window, n
    <2>2. \A t \in 0 .. B - 1 : (j - 1) * B + t \in all <=> t \in b[j]
      <3>1. Len(b) \in 0 .. Len(b)
        BY <1>z
      <3> QED BY <1>z, <3>1, BitAt DEF B
    <2>3. b[j] \subseteq 0 .. B - 1
      BY DEF Groups, B
    <2> HIDE DEF all
    <2> QED BY <2>1, <2>2, <2>3 DEF Part
  <1>16. r = b
    <2>1. r \in Groups(B) /\ b \in Groups(B) /\ Len(r) = Len(b)
      BY <1>6, <1>10 DEF d, B
    <2> QED BY <1>15, <2>1, SeqEqual DEF Groups
  <1>17. Decode(text, invalid) = r
    BY <1>1, <1>14 DEF s, r, Outcome
  <1> QED BY <1>16, <1>17 DEF text
-------------------------------------------------------------------------------
(* The shares of the vault *)

Rising(q) == \A i, j \in DOMAIN q : i < j => q[i] < q[j]

(* Numbers can be put in ascending order.                                  *)
LEMMA AscendingIs ==
  ASSUME NEW n \in Nat, NEW S \in SUBSET (1 .. n)
  PROVE  /\ IsFiniteSet(S) /\ Cardinality(S) \in Nat
         /\ Ascending(S) \in [1 .. Cardinality(S) -> S] /\ Rising(Ascending(S))
  <1> DEFINE T == {k \in 0 .. n : \A R \in SUBSET (1 .. k) :
                     IsFiniteSet(R) /\ \E q \in [1 .. Cardinality(R) -> R] : Rising(q)}
  <1>1. 0 \in T
    <2>1. ASSUME NEW R \in SUBSET (1 .. 0)
          PROVE IsFiniteSet(R) /\ \E q \in [1 .. Cardinality(R) -> R] : Rising(q)
      <3>1. R = {}
        OBVIOUS
      <3>2. IsFiniteSet(R) /\ Cardinality(R) = 0
        BY <3>1, FS_EmptySet
      <3> DEFINE q == [i \in 1 .. 0 |-> i]
      <3>3. q \in [1 .. 0 -> R] /\ Rising(q)
        BY DEF Rising
      <3> HIDE DEF q
      <3> QED BY <3>2, <3>3
    <2> QED BY <2>1
  <1>2. ASSUME NEW k \in 0 .. n - 1, k \in T PROVE k + 1 \in T
    <2>1. ASSUME NEW R \in SUBSET (1 .. k + 1)
          PROVE  IsFiniteSet(R) /\ \E q \in [1 .. Cardinality(R) -> R] : Rising(q)
      <3>1. CASE k + 1 \notin R
        <4>1. R \in SUBSET (1 .. k)
          BY <3>1
        <4> QED BY <1>2, <4>1
      <3>2. CASE k + 1 \in R
        <4> DEFINE Q == R \ {k + 1}
                   c == Cardinality(Q)
        <4>1. Q \in SUBSET (1 .. k)
          OBVIOUS
        <4>2. IsFiniteSet(Q) /\ \E q \in [1 .. c -> Q] : Rising(q)
          BY <1>2, <4>1
        <4>3. PICK q \in [1 .. c -> Q] : Rising(q)
          BY <4>2
        <4>4. R = Q \union {k + 1} /\ k + 1 \notin Q
          BY <3>2
        <4>5. c \in Nat /\ \A v \in Q : v \in 1 .. k
          BY <4>1, <4>2, FS_CardinalityType
        <4>6. IsFiniteSet(R) /\ Cardinality(R) = c + 1
          <5> HIDE DEF Q
          <5>1. IsFiniteSet(Q \union {k + 1}) /\ Cardinality(Q \union {k + 1}) = Cardinality(Q) + 1
            BY <4>2, <4>4, FS_AddElement
          <5> QED BY <4>4, <5>1
        <4> DEFINE r == [i \in 1 .. c + 1 |-> IF i <= c THEN q[i] ELSE k + 1]
        <4> HIDE DEF c, Q
        <4>7. r \in [1 .. c + 1 -> R]
          BY <4>4, <4>5
        <4>8. Rising(r)
          <5>1. ASSUME NEW i \in 1 .. c + 1, NEW j \in 1 .. c + 1, i < j PROVE r[i] < r[j]
            <6>1. i \in 1 .. c /\ r[i] = q[i] /\ q[i] \in 1 .. k
              BY <4>5, <5>1
            <6>2. CASE j \in 1 .. c
              <7>1. r[j] = q[j] /\ q[i] < q[j]
                BY <4>3, <4>5, <5>1, <6>1, <6>2 DEF Rising
              <7> QED BY <6>1, <7>1
            <6>3. CASE j = c + 1
              <7>1. r[j] = k + 1
                BY <4>5, <6>3
              <7> QED BY <6>1, <7>1
            <6> QED BY <4>5, <6>2, <6>3
          <5> QED BY <5>1 DEF Rising
        <4> HIDE DEF r
        <4> QED BY <4>6, <4>7, <4>8
      <3> QED BY <3>1, <3>2
    <2> HIDE DEF T
    <2> QED BY <2>1 DEF T
  <1> HIDE DEF T
  <1>3. n \in T
    <2>1. \A k \in 0 .. n : k \in T
      BY <1>1, <1>2, Climbs
    <2> QED BY <2>1
  <1>4. IsFiniteSet(S) /\ \E q \in [1 .. Cardinality(S) -> S] : Rising(q)
    BY <1>3 DEF T
  <1>5. Cardinality(S) \in Nat
    BY <1>4, FS_CardinalityType
  <1>6. Ascending(S) = CHOOSE q \in [1 .. Cardinality(S) -> S] : Rising(q)
    BY DEF Ascending, Rising
  <1> QED BY <1>4, <1>5, <1>6

(* The vault holds the text of the shares of some polynomial that keygen   *)
(* can draw.                                                               *)
Holds(k, p) == vault = [k |-> k, text |-> [x \in 1 .. Shares |-> Text(Split(p, Shares)[x])]]
VaultInv == vault # NoVault => \E k \in Quorums : \E p \in RandPolys(L2Key, k, Random) : Holds(k, p)

(* A polynomial has as many coefficients as are needed of the shares, the  *)
(* key first and no zero last.                                             *)
LEMMA DrawnPoly ==
  ASSUME NEW k \in Quorums, NEW p \in RandPolys(L2Key, k, Random)
  PROVE  k \in 1 .. Shares /\ p \in Terms(k) /\ p[1] = L2Key /\ p[k] # Zero
  <1>1. k \in 1 .. Shares /\ Random \subseteq Fe /\ L2Key \in Fe
    BY SigningAssumption
  <1>2. p \in [1 .. k -> Random \union {L2Key}] /\ p[1] = L2Key /\ p[k] # Zero
    BY DEF RandPolys
  <1> QED BY <1>1, <1>2 DEF Terms

LEMMA EvalPolyIn ==
  ASSUME FieldLaws, NEW x \in Fe, NEW k \in Nat \ {0}, NEW p \in Terms(k)
  PROVE  EvalPoly(x, p) \in Fe
  <1>1. PICK v : Horner(v, x, p, k) /\ EvalPoly(x, p) = v[1]
    BY EvalPolyIs
  <1>2. v \in [1 .. k + 1 -> Fe]
    BY <1>1 DEF Horner
  <1> QED BY <1>1, <1>2

(* What is typed in again is what was printed.                             *)
LEMMA ShareKept ==
  ASSUME FieldLaws, Powers, NEW k \in Quorums, NEW p \in RandPolys(L2Key, k, Random), Holds(k, p),
         NEW x \in 1 .. Shares
  PROVE  Whole(x) /\ Bytes(x)[Len(Salt) + 1] = EvalPoly(AsFe(x), p)
  <1> DEFINE y == EvalPoly(AsFe(x), p)
             b == Append(Salt, y)
             l == Len(Salt)
  <1>0. Shares \in Nat /\ Shares < 2 ^ N /\ N <= ByteBits /\ ByteBits \in Nat /\ N \in Nat
    BY SigningAssumption, ZbaseAssumption, NIsNat
  <1>1. AsFe(x) \in Fe
    BY DEF AsFe, Fe
  <1>2. y \in Fe
    <2>1. k \in Nat \ {0} /\ p \in Terms(k)
      BY DrawnPoly, <1>0
    <2> QED BY <1>1, <2>1, EvalPolyIn
  <1>3. Split(p, Shares)[x] = <<AsFe(x), y>>
    BY <1>0 DEF Split
  <1>4. vault.text[x] = Encode(b)
    <2>1. vault.text[x] = Text(Split(p, Shares)[x])
      BY DEF Holds
    <2>2. Split(p, Shares)[x][2] = y
      BY <1>3
    <2> QED BY <2>1, <2>2 DEF Text
  <1> HIDE DEF y
  <1>5. Salt \in Groups(ByteBits) /\ y \in SUBSET (0 .. ByteBits - 1)
    <2>1. y \in SUBSET (0 .. N - 1)
      BY <1>2 DEF Fe
    <2>2. 0 .. N - 1 \subseteq 0 .. ByteBits - 1
      BY <1>0
    <2> QED BY <2>1, <2>2, SigningAssumption DEF Groups
  <1>6. b \in Groups(ByteBits) /\ Len(b) = l + 1 /\ SubSeq(b, 1, l) = Salt /\ b[l + 1] = y
    <2> DEFINE G == SUBSET (0 .. ByteBits - 1)
    <2>1. Salt \in Seq(G) /\ y \in G
      BY <1>5 DEF Groups
    <2> HIDE DEF G
    <2>2. b \in Seq(G) /\ Len(b) = l + 1 /\ b[l + 1] = y /\ \A i \in 1 .. l : b[i] = Salt[i]
      BY <2>1, AppendProperties
    <2> HIDE DEF b
    <2>3. l \in Nat
      BY <2>1
    <2> DEFINE c == SubSeq(b, 1, l)
    <2>4. c \in Seq(G) /\ Len(c) = l /\ \A i \in 1 .. l : c[i] = b[i]
      <3>1. \A i \in 1 .. l : b[i] \in G
        BY <2>1, <2>2
      <3>2. /\ c \in Seq(G)
            /\ Len(c) = IF 1 <= l THEN l - 1 + 1 ELSE 0
            /\ \A i \in 1 .. l - 1 + 1 : c[i] = b[1 + i - 1]
        BY <2>3, <3>1, SubSeqProperties
      <3> HIDE DEF c
      <3> QED BY <2>3, <3>2
    <2> HIDE DEF c
    <2>5. c = Salt
      BY <2>1, <2>2, <2>4, SeqEqual
    <2> QED BY <2>2, <2>5 DEF G, Groups, c
  <1>7. Bytes(x) = b
    BY <1>4, <1>6, TextKept DEF Bytes
  <1> HIDE DEF b
  <1> QED BY <1>6, <1>7 DEF Whole, y

(* The numbers of shares are points of the polynomial, none of them zero.  *)
LEMMA NumbersAsPoints ==
  ASSUME Powers, NEW m \in Nat, NEW q \in [1 .. m -> 1 .. Shares], Rising(q)
  PROVE  /\ Points([i \in 1 .. m |-> AsFe(q[i])], m)
         /\ \A i \in 1 .. m : AsFe(q[i]) # Zero
  <1>0. Shares \in Nat /\ Shares < 2 ^ N /\ N \in Nat
    BY SigningAssumption, NIsNat
  <1> DEFINE top == 2 ^ N
  <1>1. top \in Nat
    BY <1>0, PowersPositive
  <1>2. \A i \in 1 .. m : q[i] \in Nat \ {0} /\ q[i] < top
    <2> HIDE DEF top
    <2>1. Shares < top
      BY <1>0 DEF top
    <2> QED BY <1>0, <1>1, <2>1
  <1>3. \A i \in 1 .. m : AsFe(q[i]) \in Fe /\ AsFe(q[i]) # Zero
    BY <1>2, NumbersApart
  <1>4. ASSUME NEW i \in 1 .. m, NEW j \in 1 .. m, i # j PROVE AsFe(q[i]) # AsFe(q[j])
    <2>1. q[i] # q[j]
      <3>1. CASE i < j
        BY <1>2, <3>1 DEF Rising
      <3>2. CASE j < i
        BY <1>2, <3>2 DEF Rising
      <3> QED BY <1>4, <3>1, <3>2
    <2> QED BY <1>2, <2>1, NumbersApart
  <1> QED BY <1>3, <1>4 DEF Points, Terms

(* Enough shares join to the key, one less to another.                     *)
LEMMA SharesJoin ==
  ASSUME FieldLaws, Powers, NEW k \in Quorums, NEW p \in RandPolys(L2Key, k, Random), Holds(k, p),
         NEW S \in SUBSET (1 .. Shares), S # {}
  PROVE  /\ Cardinality(S) >= k => JoinKey(Ascending(S)) = L2Key
         /\ Cardinality(S) = k - 1 => JoinKey(Ascending(S)) # L2Key
  <1> DEFINE m == Cardinality(S)
             q == Ascending(S)
             x == [i \in 1 .. m |-> AsFe(q[i])]
             shares == [i \in DOMAIN q |-> <<AsFe(q[i]), Bytes(q[i])[Len(Salt) + 1]>>]
  <1>0. Shares \in Nat
    BY SigningAssumption
  <1>1. IsFiniteSet(S) /\ m \in Nat /\ q \in [1 .. m -> S] /\ Rising(q)
    BY <1>0, AscendingIs
  <1>2. k \in Nat \ {0} /\ p \in Terms(k) /\ p[1] = L2Key /\ p[k] # Zero
    BY <1>0, DrawnPoly
  <1> HIDE DEF q, m
  <1>3. q \in [1 .. m -> 1 .. Shares] /\ m \in Nat \ {0}
    <2>1. PICK s \in S : TRUE
      OBVIOUS
    <2>2. m # 0
      BY <1>1, FS_EmptySet DEF m
    <2> QED BY <1>1, <2>2
  <1>4. Points(x, m) /\ \A i \in 1 .. m : x[i] # Zero
    <2>1. Points(x, m) /\ \A i \in 1 .. m : AsFe(q[i]) # Zero
      BY <1>1, <1>3, NumbersAsPoints
    <2> QED BY <2>1
  <1>5. shares = [i \in 1 .. m |-> <<AsFe(q[i]), Bytes(q[i])[Len(Salt) + 1]>>]
    BY <1>3
  <1>6. ASSUME NEW i \in 1 .. m PROVE shares[i] = <<x[i], EvalPoly(x[i], p)>>
    <2>1. q[i] \in 1 .. Shares
      BY <1>3
    <2>2. Bytes(q[i])[Len(Salt) + 1] = EvalPoly(AsFe(q[i]), p)
      BY <2>1, ShareKept
    <2> QED BY <1>3, <2>2
  <1>7. Len(shares) = m
    <2> DEFINE e(i) == <<AsFe(q[i]), Bytes(q[i])[Len(Salt) + 1]>>
               E == {e(i) : i \in 1 .. m}
    <2> HIDE DEF shares
    <2>1. shares \in [1 .. m -> E]
      BY <1>5
    <2> HIDE DEF E
    <2> QED BY <1>3, <2>1, LenIs
  <1>8. JoinKey(q) = Join(shares)
    BY DEF JoinKey
  <1> HIDE DEF shares, x
  <1>9. /\ m >= k => Join(shares) = p[1]
        /\ m = k - 1 /\ p[k] # Zero => Join(shares) # p[1]
    <2>1. \A i \in 1 .. m : shares[i] = <<x[i], EvalPoly(x[i], p)>>
      BY <1>6
    <2>2. m \in Nat \ {0}
      BY <1>3
    <2> QED BY <1>2, <1>4, <1>7, <2>1, <2>2, Interpolates
  <1> QED BY <1>2, <1>8, <1>9 DEF q, m

LEMMA VaultKept == Spec => []VaultInv
  <1>1. Init => VaultInv
    BY DEF Init, VaultInv
  <1>2. VaultInv /\ [Next]_vars => VaultInv'
    <2> SUFFICES ASSUME VaultInv, [Next]_vars PROVE VaultInv'
      OBVIOUS
    <2>1. CASE Keygen
      BY <2>1 DEF Keygen, VaultInv, Holds
    <2>2. CASE LoadSplits
      BY <2>2 DEF LoadSplits, VaultInv
    <2>3. CASE vault' = vault
      BY <2>3 DEF VaultInv, Holds
    <2>4. CertgenPrimary \/ CertgenSecondary \/ Sign \/ Install \/ UNCHANGED vars => vault' = vault
      BY DEF CertgenPrimary, CertgenSecondary, Sign, Install, vars
    <2> QED BY <2>1, <2>2, <2>3, <2>4 DEF Next
  <1> QED BY <1>1, <1>2, PTL DEF Spec

(* The shares that sbl.py keygen prints, typed in again by whoever signs:  *)
(* all are read, any K of them or more give the key back and K - 1 do not, *)
(* whatever was drawn, for every field whose polynomial is irreducible and *)
(* every K and N.                                                          *)
THEOREM AnyQuorumJoins == FieldLaws /\ Powers => (Spec => []Quorum)
  <1>1. ASSUME FieldLaws, Powers, VaultInv PROVE Quorum
    <2> SUFFICES ASSUME vault # NoVault PROVE Quorum
      BY DEF Quorum
    <2>k. PICK k \in Quorums : \E p \in RandPolys(L2Key, k, Random) : Holds(k, p)
      BY <1>1 DEF VaultInv
    <2>1. PICK p \in RandPolys(L2Key, k, Random) : Holds(k, p)
      BY <2>k
    <2>2. vault.k = k /\ k \in 1 .. Shares
      BY <2>1, DrawnPoly DEF Holds
    <2>3. \A x \in 1 .. Shares : Whole(x)
      BY <1>1, <2>1, ShareKept
    <2>4. ASSUME NEW S \in SUBSET (1 .. Shares)
          PROVE  /\ Cardinality(S) >= k => JoinKey(Ascending(S)) = L2Key
                 /\ Cardinality(S) = k - 1 /\ S # {} => JoinKey(Ascending(S)) # L2Key
      <3>1. CASE S = {}
        <4>1. Cardinality(S) = 0
          BY <3>1, FS_EmptySet
        <4>2. ~(Cardinality(S) >= k)
          BY <2>2, <4>1, SigningAssumption
        <4> QED BY <3>1, <4>2
      <3>2. CASE S # {}
        BY <1>1, <2>1, <3>2, SharesJoin
      <3> QED BY <3>1, <3>2
    <2> QED BY <2>2, <2>3, <2>4 DEF Quorum
  <1>2. CASE FieldLaws /\ Powers
    <2>1. VaultInv => Quorum
      BY <1>1, <1>2
    <2> QED BY <2>1, VaultKept, PTL
  <1> QED BY <1>2
===============================================================================
