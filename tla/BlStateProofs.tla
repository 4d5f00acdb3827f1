---------------------------- MODULE BlStateProofs ----------------------------
(***************************************************************************)
(* Proofs about BlState: the words of the state pages implement their      *)
(* summary, and resets never make the state go back.                       *)
(***************************************************************************)
EXTENDS BlState, WellFoundedInduction, TLAPS

(* A set of naturals has a least element.                                  *)
LEMMA LeastNatural ==
  ASSUME NEW T, T \subseteq Nat, T # {}
  PROVE  \E x \in T : \A y \in T : x <= y
<1>1. \E x \in T : \A y \in T : ~ (<<y, x>> \in OpToRel(<, Nat))
  BY WFMin, NatLessThanWellFounded, Zenon
<1>2. \E x \in T : \A y \in T : ~ (y < x)
  BY <1>1, Zenon DEF OpToRel
<1>3. QED
  BY <1>2

LEMMA PageNumbers ==
  /\ StateWords \in Nat /\ StateWords >= 8
  /\ IDLE = 0 /\ INSTALL = 1 /\ SWAP_START = 2
  /\ RUN = StateWords - 2 /\ RESTORE_0 = StateWords - 1 /\ RESTORE_1 = StateWords
  /\ TO_IDLE = StateWords + 1 /\ ERROR = StateWords + 2
<1>1. SwapPhases * MaxSwapPages = 4 * MaxSwapPages /\ MaxSwapPages \in Nat /\ MaxSwapPages >= 1
  BY MaxSwapAssumption DEF SwapPhases
<1>2. QED
  BY <1>1 DEF StateWords, IDLE, INSTALL, SWAP_START, RUN, RESTORE_0, RESTORE_1,
              TO_IDLE, ERROR, SwapPhases

-----------------------------------------------------------------------------
(* The loops *)

(* A loop that skips the words equal to v stops at the first other word or *)
(* at the end of the page.                                                 *)
LEMMA RunEndStops ==
  ASSUME NEW pg \in WordPage, NEW v, NEW i \in 0 .. StateWords
  PROVE  /\ RunEnd(pg, v, i) \in i .. StateWords
         /\ RunEnd(pg, v, i) < StateWords => pg[RunEnd(pg, v, i)] # v
         /\ \A j \in i .. RunEnd(pg, v, i) - 1 : pg[j] = v
<1> DEFINE T == {k \in i .. StateWords : k < StateWords => pg[k] # v}
<1>1. T \subseteq Nat /\ StateWords \in T
  BY PageNumbers
<1>2. PICK x \in T : \A y \in T : x <= y
  BY <1>1, LeastNatural
<1>3. \A j \in i .. x - 1 : pg[j] = v
  <2> SUFFICES ASSUME NEW j \in i .. x - 1, pg[j] # v PROVE FALSE
    OBVIOUS
  <2>1. x \in i .. StateWords
    OBVIOUS
  <2>2. j \in T
    BY <2>1, PageNumbers
  <2>3. QED
    BY <1>2, <2>1, <2>2
<1>4. \E k \in i .. StateWords :
        /\ k < StateWords => pg[k] # v
        /\ \A j \in i .. k - 1 : pg[j] = v
  BY <1>3
<1>5. QED
  BY <1>4 DEF RunEnd

(* A page the boot loader can have written: n words zero, the rest erased. *)
Prefix(pg, n) ==
  /\ n \in 0 .. StateWords
  /\ \A j \in Indices : (j < n => pg[j] = Zero) /\ (j >= n => pg[j] = Erased)

(* bl_zero_split_idx returns n for exactly these pages, and -1 for all     *)
(* others.                                                                 *)
LEMMA SplitFinds ==
  ASSUME NEW pg \in WordPage
  PROVE  /\ BlZeroSplitIdx(pg) \in -1 .. StateWords
         /\ BlZeroSplitIdx(pg) >= 0 => Prefix(pg, BlZeroSplitIdx(pg))
         /\ \A n : Prefix(pg, n) => BlZeroSplitIdx(pg) = n
<1> DEFINE i == RunEnd(pg, Zero, 0)
           j == RunEnd(pg, Erased, i)
<1>1. /\ i \in 0 .. StateWords
      /\ i < StateWords => pg[i] # Zero
      /\ \A k \in 0 .. i - 1 : pg[k] = Zero
  BY RunEndStops, PageNumbers
<1>2. /\ j \in i .. StateWords
      /\ j < StateWords => pg[j] # Erased
      /\ \A k \in i .. j - 1 : pg[k] = Erased
  BY RunEndStops, <1>1
<1> HIDE DEF i, j
<1>3. BlZeroSplitIdx(pg) = IF i < StateWords /\ j < StateWords THEN -1 ELSE i
  BY DEF BlZeroSplitIdx, i, j
<1>4. ASSUME ~(i < StateWords /\ j < StateWords) PROVE Prefix(pg, i)
  BY <1>1, <1>2, <1>4, PageNumbers DEF Prefix, Indices
<1>5. ASSUME NEW n, Prefix(pg, n) PROVE i = n /\ ~(i < StateWords /\ j < StateWords)
  <2>1. i = n
    BY <1>1, <1>5, PageNumbers, WordsAssumption DEF Prefix, Indices
  <2>2. QED
    BY <1>1, <1>2, <1>5, <2>1, PageNumbers DEF Prefix, Indices
<1>6. QED
  BY <1>1, <1>3, <1>4, <1>5, PageNumbers

(* The summary of a page counts the words up to the last one not erased.   *)
LEMMA TopFinds ==
  ASSUME NEW pg \in WordPage
  PROVE  /\ Top(pg) \in 0 .. StateWords
         /\ Top(pg) > 0 => pg[Top(pg) - 1] # Erased
         /\ \A j \in Top(pg) .. StateWords - 1 : pg[j] = Erased
<1> DEFINE T == {t \in 0 .. StateWords : \A j \in t .. StateWords - 1 : pg[j] = Erased}
<1>1. T \subseteq Nat /\ StateWords \in T
  BY PageNumbers
<1>2. PICK x \in T : \A y \in T : x <= y
  BY <1>1, LeastNatural
<1>3. x > 0 => pg[x - 1] # Erased
  <2> SUFFICES ASSUME x > 0, pg[x - 1] = Erased PROVE FALSE
    OBVIOUS
  <2>1. x \in 0 .. StateWords /\ \A j \in x .. StateWords - 1 : pg[j] = Erased
    OBVIOUS
  <2>2. x - 1 \in 0 .. StateWords /\ \A j \in x - 1 .. StateWords - 1 : pg[j] = Erased
    BY <2>1, PageNumbers
  <2>3. x - 1 \in T
    BY <2>2
  <2>4. QED
    BY <1>2, <2>1, <2>3
<1>4. \E t \in 0 .. StateWords :
        /\ t > 0 => pg[t - 1] # Erased
        /\ \A j \in t .. StateWords - 1 : pg[j] = Erased
  BY <1>3
<1>5. QED
  BY <1>4 DEF Top

LEMMA TopIs ==
  ASSUME NEW pg \in WordPage, NEW t \in 0 .. StateWords,
         t > 0 => pg[t - 1] # Erased,
         \A j \in t .. StateWords - 1 : pg[j] = Erased
  PROVE  Top(pg) = t
BY TopFinds, PageNumbers

(* The two conditions a page can be in, written out.                       *)
LEMMA SummaryIs ==
  ASSUME NEW pg, NEW t, Top(pg) = t
  PROVE  /\ BlZeroSplitIdx(pg) = -1 => Summary(pg) = [top |-> t, bad |-> TRUE]
         /\ BlZeroSplitIdx(pg) # -1 => Summary(pg) = [top |-> t, bad |-> FALSE]
<1>1. CASE BlZeroSplitIdx(pg) = -1
  <2>1. (BlZeroSplitIdx(pg) = -1) = TRUE
    BY <1>1, Zenon
  <2>2. QED
    BY <1>1, <2>1, Zenon DEF Summary
<1>2. CASE BlZeroSplitIdx(pg) # -1
  <2>1. (BlZeroSplitIdx(pg) = -1) = FALSE
    BY <1>2, Zenon
  <2>2. QED
    BY <1>2, <2>1, Zenon DEF Summary
<1>3. QED
  BY <1>1, <1>2

(* Splitting the summary of a page finds what splitting its words finds.   *)
LEMMA SummarySplits ==
  ASSUME NEW pg \in WordPage
  PROVE  /\ Summary(pg) \in StatePage
         /\ Split(Summary(pg)) = BlZeroSplitIdx(pg)
<1>1. /\ Top(pg) \in 0 .. StateWords
      /\ BlZeroSplitIdx(pg) \in -1 .. StateWords
  BY TopFinds, SplitFinds
<1>2. Summary(pg) \in StatePage
  <2>1. Summary(pg) \in {[top |-> Top(pg), bad |-> TRUE], [top |-> Top(pg), bad |-> FALSE]}
    BY SummaryIs, Zenon
  <2>2. \A b \in BOOLEAN : [top |-> Top(pg), bad |-> b] \in StatePage
    BY <1>1, Zenon DEF StatePage
  <2>3. TRUE \in BOOLEAN /\ FALSE \in BOOLEAN
    BY Zenon
  <2>4. QED
    BY <2>1, <2>2, <2>3, Zenon
<1>3. ASSUME BlZeroSplitIdx(pg) >= 0 PROVE Top(pg) = BlZeroSplitIdx(pg)
  <2> DEFINE n == BlZeroSplitIdx(pg)
  <2>1. Prefix(pg, n)
    BY SplitFinds, <1>3
  <2>2. n > 0 => pg[n - 1] # Erased
    BY <2>1, WordsAssumption, PageNumbers DEF Prefix, Indices
  <2>3. \A j \in n .. StateWords - 1 : pg[j] = Erased
    BY <2>1, PageNumbers DEF Prefix, Indices
  <2>4. n \in 0 .. StateWords
    BY <2>1 DEF Prefix
  <2> HIDE DEF n
  <2>5. QED
    BY <2>2, <2>3, <2>4, TopIs DEF n
<1>4. QED
  BY <1>1, <1>2, <1>3, SummaryIs DEF Split

LEMMA ErasedSummary ==
  /\ ErasedWords \in WordPage
  /\ Summary(ErasedWords) = ClearPage
  /\ BlZeroSplitIdx(ErasedWords) = 0
<1>1. ErasedWords \in WordPage
  BY DEF ErasedWords, WordPage, Cells
<1>2. Prefix(ErasedWords, 0)
  BY PageNumbers DEF Prefix, ErasedWords, Indices
<1>3. Top(ErasedWords) = 0
  BY <1>1, TopIs, PageNumbers DEF ErasedWords, Indices
<1>4. BlZeroSplitIdx(ErasedWords) = 0
  BY <1>1, <1>2, SplitFinds
<1>5. QED
  BY <1>1, <1>3, <1>4, SummaryIs DEF ClearPage

(* Only an erased page has nothing in its summary.                         *)
LEMMA ClearIsErased ==
  ASSUME NEW pg \in WordPage, Top(pg) = 0
  PROVE  pg = ErasedWords
<1>1. \A j \in Indices : pg[j] = Erased
  BY TopFinds DEF Indices
<1>2. QED
  BY <1>1 DEF WordPage, ErasedWords

(* Writing the next word of a page that a state has been read from, to the *)
(* end or not.                                                             *)
LEMMA WriteNext ==
  ASSUME NEW pg \in WordPage, NEW n \in 0 .. StateWords - 1,
         BlZeroSplitIdx(pg) = n, NEW v \in Cells
  PROVE  /\ Write(pg, n, v) \in WordPage
         /\ v = Zero => Summary(Write(pg, n, v)) = Zeroed(Summary(pg), n)
         /\ Summary(Write(pg, n, v)) \in TornZero(Summary(pg), n)
         /\ BlZeroSplitIdx(Write(pg, n, v)) \in {-1, n, n + 1}
         /\ v = Zero => BlZeroSplitIdx(Write(pg, n, v)) = n + 1
<1> DEFINE q == Write(pg, n, v)
<1>0. n \in Indices /\ n \in Nat
  BY PageNumbers DEF Indices
<1>1. Prefix(pg, n)
  BY SplitFinds
<1>2. q \in WordPage /\ \A j \in Indices : q[j] = IF j = n THEN v ELSE pg[j]
  BY <1>0 DEF Write, WordPage
<1> HIDE DEF q
<1>3. Summary(pg) = [top |-> n, bad |-> FALSE]
  <2>1. Top(pg) = n
    BY <1>0, <1>1, TopIs, WordsAssumption, PageNumbers DEF Prefix, Indices
  <2>2. QED
    BY <2>1, <1>0, SummaryIs
<1>4. CASE v = Erased
  <2>1. pg[n] = Erased
    BY <1>0, <1>1 DEF Prefix, Indices
  <2>2. \A j \in Indices : q[j] = pg[j]
    BY <1>2, <1>4, <2>1
  <2>3. q = pg
    BY <1>2, <2>2 DEF WordPage
  <2>4. QED
    BY <1>0, <1>2, <1>4, <2>3, WordsAssumption DEF TornZero, q
<1>5. CASE v # Erased
  <2>1. Top(q) = n + 1
    <3>1. n + 1 \in 0 .. StateWords
      BY <1>0, PageNumbers DEF Indices
    <3>2. q[n] # Erased
      BY <1>0, <1>2, <1>5
    <3>3. \A j \in n + 1 .. StateWords - 1 : q[j] = Erased
      BY <1>0, <1>1, <1>2, PageNumbers DEF Prefix, Indices
    <3>4. n + 1 - 1 = n
      BY <1>0
    <3>5. QED
      BY <1>2, <3>1, <3>2, <3>3, <3>4, TopIs
  <2>2. v = Zero => Prefix(q, n + 1)
    BY <1>0, <1>1, <1>2, PageNumbers DEF Prefix, Indices
  <2>3. v = Zero => BlZeroSplitIdx(q) = n + 1
    BY <1>2, <2>2, SplitFinds
  <2>4. ASSUME v # Zero PROVE BlZeroSplitIdx(q) = -1
    <3> DEFINE i == BlZeroSplitIdx(q)
    <3>1. i \in -1 .. StateWords /\ (i >= 0 => Prefix(q, i))
      BY <1>2, SplitFinds
    <3> HIDE DEF i
    <3>2. ~ Prefix(q, i)
      BY <1>0, <1>2, <1>5, <2>4, <3>1, PageNumbers DEF Prefix
    <3>3. QED
      BY <3>1, <3>2, PageNumbers DEF i
  <2>5. /\ Zeroed(Summary(pg), n) = [top |-> n + 1, bad |-> FALSE]
        /\ TornZero(Summary(pg), n) =
             {Summary(pg), [top |-> n + 1, bad |-> FALSE], [top |-> n + 1, bad |-> TRUE]}
    <3>1. Zeroed(Summary(pg), n) = [top |-> n + 1, bad |-> FALSE]
      <4> DEFINE S(b) == [top |-> n, bad |-> b]
      <4>0. S(FALSE).top = n /\ S(FALSE).bad = FALSE
        BY Zenon
      <4>1. Summary(pg).top = n /\ Summary(pg).bad = FALSE
        BY <1>3, <4>0, Zenon
      <4>2. (n < n) = FALSE
        BY <1>0
      <4>3. (FALSE \/ FALSE) = FALSE
        BY Zenon
      <4>4. (Summary(pg).bad \/ Summary(pg).top < n) = FALSE
        BY <4>1, <4>2, <4>3, Zenon
      <4>5. (IF n < Summary(pg).top THEN Summary(pg).top ELSE n + 1) = n + 1
        BY <4>1, <4>2, Zenon
      <4>7. QED
        BY <4>4, <4>5, Zenon DEF Zeroed
    <3>2. [top |-> Zeroed(Summary(pg), n).top, bad |-> TRUE] = [top |-> n + 1, bad |-> TRUE]
      <4> DEFINE S(b) == [top |-> n + 1, bad |-> b]
      <4>1. S(FALSE).top = n + 1
        BY Zenon
      <4>2. Zeroed(Summary(pg), n).top = n + 1
        BY <3>1, <4>1, Zenon
      <4>3. QED
        BY <4>2, Zenon
    <3>3. QED
      BY <3>1, <3>2, Zenon DEF TornZero
  <2>6. v = Zero => Summary(q) = [top |-> n + 1, bad |-> FALSE]
    BY <1>0, <2>1, <2>3, SummaryIs
  <2>7. v # Zero => Summary(q) = [top |-> n + 1, bad |-> TRUE]
    BY <2>1, <2>4, SummaryIs
  <2>8. QED
    BY <1>2, <2>3, <2>4, <2>5, <2>6, <2>7 DEF q
<1>6. QED
  BY <1>4, <1>5

(* An interrupted erase leaves a page the summary allows for.              *)
LEMMA EraseTorn ==
  ASSUME NEW pg \in WordPage, NEW q \in TornErase(pg)
  PROVE  q \in WordPage /\ Summary(q) \in TornClear(Summary(pg))
<1> DEFINE Written == {i \in Indices : pg[i] # Erased}
<1>0. PICK left \in [Written -> {"erased", "torn", "kept"}] :
        q = [i \in Indices |-> IF i \notin Written \/ left[i] = "erased" THEN Erased
                               ELSE IF left[i] = "torn" THEN Junk ELSE pg[i]]
  BY DEF TornErase
<1>1. q \in WordPage /\ \A i \in Indices : pg[i] = Erased => q[i] = Erased
  <2>1. \A i \in Indices : q[i] \in Cells /\ (pg[i] = Erased => q[i] = Erased)
    BY <1>0 DEF WordPage, Cells
  <2>2. q = [i \in Indices |-> q[i]]
    BY <1>0
  <2>3. QED
    BY <2>1, <2>2 DEF WordPage
<1>2. /\ Top(pg) \in 0 .. StateWords
      /\ \A j \in Top(pg) .. StateWords - 1 : pg[j] = Erased
  BY TopFinds
<1>3. Top(q) \in 0 .. StateWords /\ (Top(q) > 0 => q[Top(q) - 1] # Erased)
  BY <1>1, TopFinds
<1>4. Top(q) <= Top(pg)
  BY <1>1, <1>2, <1>3, PageNumbers DEF Indices
<1>5. Top(q) = 0 => BlZeroSplitIdx(q) = 0
  BY <1>1, ClearIsErased, ErasedSummary
<1>6. Summary(q) \in StatePage
  BY <1>1, SummarySplits
<1>7. Summary(pg).top = Top(pg)
  BY Zenon DEF Summary
<1>8. Top(q) \in 0 .. Summary(pg).top
  BY <1>2, <1>3, <1>4, <1>7, PageNumbers
<1>9. CASE BlZeroSplitIdx(q) = -1
  <2>1. Summary(q) = [top |-> Top(q), bad |-> TRUE]
    BY <1>9, SummaryIs, Zenon
  <2>2. Summary(q) # [top |-> 0, bad |-> TRUE]
    <3>1. Top(q) # 0
      BY <1>5, <1>9
    <3>2. Summary(q).top = Top(q)
      BY Zenon DEF Summary
    <3>3. [top |-> 0, bad |-> TRUE].top = 0
      BY Zenon
    <3>4. QED
      BY <3>1, <3>2, <3>3, Zenon
  <2>3. [top |-> Top(q), bad |-> TRUE] \in [top : 0 .. Summary(pg).top, bad : BOOLEAN]
    BY <1>8, Zenon
  <2>4. QED
    BY <1>1, <2>1, <2>2, <2>3, Zenon DEF TornClear
<1>10. CASE BlZeroSplitIdx(q) # -1
  <2>1. Summary(q) = [top |-> Top(q), bad |-> FALSE]
    BY <1>10, SummaryIs, Zenon
  <2>2. Summary(q) # [top |-> 0, bad |-> TRUE]
    <3> DEFINE S(t, b) == [top |-> t, bad |-> b]
    <3>1. S(Top(q), FALSE).bad = FALSE /\ S(0, TRUE).bad = TRUE
      BY Zenon
    <3>2. QED
      BY <2>1, <3>1, Zenon
  <2>3. [top |-> Top(q), bad |-> FALSE] \in [top : 0 .. Summary(pg).top, bad : BOOLEAN]
    BY <1>8, Zenon
  <2>4. QED
    BY <1>1, <2>1, <2>2, <2>3, Zenon DEF TornClear
<1>11. QED
  BY <1>9, <1>10

-----------------------------------------------------------------------------
(* The steps *)

(* The invariant: the erases begin in ERROR or TO_IDLE, and page 1 is only *)
(* erased after page 0.                                                    *)
Inductive ==
  /\ TypeOK
  /\ at = "erase_0" => State \in {ERROR, TO_IDLE}
  /\ at = "erase_1" => page[0] = ErasedWords

(* What bl_get_state() returns, from the words of the two pages.           *)
LEMMA StateRange ==
  ASSUME TypeOK
  PROVE  /\ BlZeroSplitIdx(page[0]) \in -1 .. StateWords
         /\ BlZeroSplitIdx(page[1]) \in -1 .. StateWords
         /\ State \in BlStates
         /\ State \notin {ERROR, TO_IDLE} =>
              BlZeroSplitIdx(page[0]) = State /\ BlZeroSplitIdx(page[1]) = 0
         /\ State = TO_IDLE =>
              BlZeroSplitIdx(page[0]) \in IDLE .. RESTORE_1 /\ BlZeroSplitIdx(page[1]) = 1
<1>1. page[0] \in WordPage /\ page[1] \in WordPage
  BY DEF TypeOK
<1>2. /\ BlZeroSplitIdx(page[0]) \in -1 .. StateWords
      /\ BlZeroSplitIdx(page[1]) \in -1 .. StateWords
  BY <1>1, SplitFinds
<1>3. QED
  BY <1>2, PageNumbers DEF State, Decode, BlStates

(* bl_set_state() writes the first erased word of its page.                *)
LEMMA SetsNextWord ==
  ASSUME TypeOK, NEW s \in BlStates,
         \/ s = State + 1 /\ State < RESTORE_1
         \/ s = TO_IDLE /\ State \in {INSTALL, RESTORE_0, RESTORE_1}
  PROVE  /\ State \in IDLE .. RESTORE_1
         /\ SetPage(s) \in 0 .. 1
         /\ SetWord(s) \in 0 .. StateWords - 1
         /\ BlZeroSplitIdx(page[SetPage(s)]) = SetWord(s)
         /\ BlZeroSplitIdx(page[0]) = State
         /\ BlZeroSplitIdx(page[1]) = 0
         /\ SetPage(s) = 0 => s = State + 1 /\ SetWord(s) = State
         /\ SetPage(s) = 1 => s = TO_IDLE /\ SetWord(s) = 0
<1>1. State \in IDLE .. RESTORE_1
  BY StateRange, PageNumbers DEF BlStates
<1>2. BlZeroSplitIdx(page[0]) = State /\ BlZeroSplitIdx(page[1]) = 0
  BY <1>1, StateRange, PageNumbers
<1>3. CASE s = TO_IDLE
  BY <1>1, <1>2, <1>3, PageNumbers DEF SetPage, SetWord
<1>4. CASE s # TO_IDLE
  BY <1>1, <1>2, <1>4, PageNumbers DEF SetPage, SetWord
<1>5. QED
  BY <1>3, <1>4

(* What a step does to the pages: nothing, or one page changes in one of   *)
(* the ways a write or an erase changes it.                                *)
Changed(n, q) == page' = [page EXCEPT ![n] = q]

LEMMA ChangedPage ==
  ASSUME TypeOK, NEW n \in 0 .. 1, NEW q \in WordPage, Changed(n, q)
  PROVE  /\ page' \in [0 .. 1 -> WordPage]
         /\ page'[n] = q
         /\ \A m \in 0 .. 1 : m # n => page'[m] = page[m]
BY DEF TypeOK, Changed

LEMMA SetStateChanges ==
  ASSUME TypeOK, NEW s \in BlStates, SetState(s)
  PROVE  \E v \in Cells :
           /\ v = Zero \/ "write" \in TornState
           /\ Changed(SetPage(s), Write(page[SetPage(s)], SetWord(s), v))
BY DEF SetState, Changed, Cells

LEMMA EraseChanges ==
  ASSUME TypeOK, NEW n \in 0 .. 1, NEW next, ErasePage(n, next)
  PROVE  \/ Changed(n, ErasedWords) /\ at' = next
         \/ /\ "erase" \in TornState
            /\ \E q \in TornErase(page[n]) : Changed(n, q)
            /\ at' = "ready"
BY DEF ErasePage, Changed

(* A page from which bl_zero_split_idx reads 0 is erased, and stays so     *)
(* under an interrupted erase.                                             *)
LEMMA ZeroIsErased ==
  ASSUME NEW pg \in WordPage, BlZeroSplitIdx(pg) = 0
  PROVE  pg = ErasedWords /\ TornErase(pg) = {ErasedWords}
<1>1. pg = ErasedWords
  <2>1. Prefix(pg, 0)
    BY SplitFinds
  <2>2. QED
    BY <2>1, PageNumbers DEF Prefix, WordPage, ErasedWords, Indices
<1>2. ASSUME NEW q \in TornErase(pg) PROVE q = ErasedWords
  BY <1>1, <1>2 DEF TornErase, WordPage, ErasedWords
<1>3. ErasedWords \in TornErase(pg)
  <2> DEFINE Written == {i \in Indices : pg[i] # Erased}
             Left(left) == [i \in Indices |-> IF i \notin Written \/ left[i] = "erased"
                             THEN Erased ELSE IF left[i] = "torn" THEN Junk ELSE pg[i]]
             all == [i \in Written |-> "erased"]
  <2>1. all \in [Written -> {"erased", "torn", "kept"}]
    OBVIOUS
  <2>2. Left(all) = ErasedWords
    BY DEF ErasedWords
  <2>3. QED
    BY <2>1, <2>2 DEF TornErase
<1>4. QED
  BY <1>1, <1>2, <1>3

(* Every state the boot loader can be in satisfies the invariant.          *)
LEMMA InitInductive == Init => Inductive
BY ErasedSummary DEF Init, Inductive, TypeOK

LEMMA NextInductive == Inductive /\ [Next]_vars => Inductive'
<1> SUFFICES ASSUME Inductive, [Next]_vars PROVE Inductive'
  OBVIOUS
<1> USE DEF Inductive
<1>1. ASSUME NEW s \in BlStates, SetState(s) PROVE Inductive'
  <2>1. PICK v \in Cells : Changed(SetPage(s), Write(page[SetPage(s)], SetWord(s), v))
    BY <1>1, SetStateChanges
  <2>2. SetPage(s) \in 0 .. 1 /\ SetWord(s) \in 0 .. StateWords - 1
        /\ BlZeroSplitIdx(page[SetPage(s)]) = SetWord(s)
    BY <1>1, SetsNextWord DEF SetState
  <2>3. Write(page[SetPage(s)], SetWord(s), v) \in WordPage
    BY <2>2, WriteNext DEF TypeOK
  <2>4. page' \in [0 .. 1 -> WordPage]
    BY <2>1, <2>2, <2>3, ChangedPage
  <2>5. at = "ready" /\ at' = "ready"
    BY <1>1 DEF SetState
  <2>6. QED
    BY <2>4, <2>5 DEF TypeOK
<1>2. CASE ToIdle
  <2>1. page' = page /\ at' = "erase_0" /\ State \in {ERROR, TO_IDLE}
    BY <1>2 DEF ToIdle
  <2>2. State' = State
    BY <2>1 DEF State
  <2>3. QED
    BY <2>1, <2>2, PageNumbers DEF TypeOK, ERROR, TO_IDLE
<1>3. CASE ErasePage0
  <2>1. \/ Changed(0, ErasedWords) /\ at' = "erase_1"
        \/ (\E q \in TornErase(page[0]) : Changed(0, q)) /\ at' = "ready"
    BY <1>3, EraseChanges DEF ErasePage0
  <2>2. CASE Changed(0, ErasedWords) /\ at' = "erase_1"
    BY <2>2, ChangedPage, ErasedSummary DEF TypeOK
  <2>3. CASE (\E q \in TornErase(page[0]) : Changed(0, q)) /\ at' = "ready"
    BY <2>3, ChangedPage, EraseTorn DEF TypeOK
  <2>4. QED
    BY <2>1, <2>2, <2>3
<1>4. CASE ErasePage1
  <2>1. \E q \in WordPage : Changed(1, q)
    BY <1>4, EraseChanges, ErasedSummary, EraseTorn DEF ErasePage1, TypeOK
  <2>2. at' = "ready"
    BY <1>4 DEF ErasePage1, ErasePage
  <2>3. QED
    BY <2>1, <2>2, ChangedPage DEF TypeOK
<1>5. CASE Reset
  BY <1>5 DEF Reset, TypeOK
<1>6. CASE UNCHANGED vars
  BY <1>6 DEF vars, TypeOK, State, Decode
<1>7. QED
  BY <1>1, <1>2, <1>3, <1>4, <1>5, <1>6 DEF Next

LEMMA AlwaysInductive == Spec => []Inductive
<1>1. Init => Inductive
  BY InitInductive
<1>2. Inductive /\ [Next]_vars => Inductive'
  BY NextInductive
<1>3. QED
  BY <1>1, <1>2, PTL DEF Spec

-----------------------------------------------------------------------------
(* Once page 1 is marked, no step - a finished or an interrupted erase, a  *)
(* write, a reset - lets bl_get_state() read a state from page 0 again.    *)
THEOREM MarkAlwaysGuards == Spec => MarkGuards
<1> DEFINE Guards == page[1] # ErasedWords => State' \in {TO_IDLE, ERROR, IDLE}
<1>1. ASSUME Inductive, [Next]_vars, page[1] # ErasedWords
      PROVE  State' \in {TO_IDLE, ERROR, IDLE}
  <2> USE <1>1
  <2>1. page[0] \in WordPage /\ page[1] \in WordPage
    BY DEF Inductive, TypeOK
  <2>2. BlZeroSplitIdx(page[1]) # 0
    BY <2>1, ZeroIsErased
  <2>3. State \in {TO_IDLE, ERROR}
    BY <2>2 DEF State, Decode
  <2>4. ASSUME NEW s \in BlStates, SetState(s) PROVE FALSE
    BY <2>2, <2>4, SetsNextWord DEF SetState, Inductive
  <2>5. CASE ToIdle \/ Reset \/ UNCHANGED vars
    BY <2>3, <2>5 DEF ToIdle, Reset, vars, State
  <2>6. CASE ErasePage0
    <3>1. page'[1] = page[1]
      BY <2>1, <2>6, EraseChanges, ChangedPage, ErasedSummary, EraseTorn
         DEF ErasePage0, Inductive
    <3>2. QED
      BY <2>2, <3>1 DEF State, Decode
  <2>7. CASE ErasePage1
    <3>1. page'[0] = ErasedWords
      BY <2>1, <2>7, EraseChanges, ChangedPage, ErasedSummary, EraseTorn
         DEF ErasePage1, Inductive
    <3>2. BlZeroSplitIdx(page'[0]) = 0
      BY <3>1, ErasedSummary
    <3>3. QED
      BY <3>2, PageNumbers DEF State, Decode
  <2>8. QED
    BY <2>4, <2>5, <2>6, <2>7 DEF Next
<1>2. Inductive /\ [Next]_vars => [Guards]_vars
  BY <1>1
<1>3. QED
  BY <1>2, AlwaysInductive, PTL DEF Spec, MarkGuards

(* No step, however writes and erases are interrupted, makes               *)
(* bl_get_state() skip a state or return to an earlier one.                *)
THEOREM StateAlwaysAdvances == Spec => StateAdvances
<1>1. ASSUME Inductive, [Next]_vars PROVE MayRead(State, State')
  <2> SUFFICES ASSUME State # ERROR
               PROVE  \/ State' \in {State, State + 1, TO_IDLE, ERROR}
                      \/ State = TO_IDLE /\ State' = IDLE
    BY DEF MayRead
  <2> USE <1>1
  <2>1. TypeOK /\ page[0] \in WordPage /\ page[1] \in WordPage
    BY DEF Inductive, TypeOK
  <2>2. ASSUME NEW s \in BlStates, SetState(s)
        PROVE  State' \in {State, State + 1, TO_IDLE, ERROR}
    <3>1. PICK v \in Cells : Changed(SetPage(s), Write(page[SetPage(s)], SetWord(s), v))
      BY <2>1, <2>2, SetStateChanges
    <3>2. /\ State \in IDLE .. RESTORE_1
          /\ SetPage(s) \in 0 .. 1
          /\ SetWord(s) \in 0 .. StateWords - 1
          /\ BlZeroSplitIdx(page[SetPage(s)]) = SetWord(s)
          /\ BlZeroSplitIdx(page[0]) = State
          /\ BlZeroSplitIdx(page[1]) = 0
          /\ SetPage(s) = 0 => s = State + 1 /\ SetWord(s) = State
          /\ SetPage(s) = 1 => s = TO_IDLE /\ SetWord(s) = 0
      BY <2>1, <2>2, SetsNextWord DEF SetState
    <3> DEFINE n == SetPage(s)
               i == SetWord(s)
               q == Write(page[n], i, v)
    <3>3. page[n] \in WordPage
      BY <2>1, <3>2
    <3>4. q \in WordPage /\ BlZeroSplitIdx(q) \in {-1, i, i + 1}
      BY <3>2, <3>3, WriteNext
    <3>5. page'[n] = q /\ \A m \in 0 .. 1 : m # n => page'[m] = page[m]
      BY <2>1, <3>1, <3>2, <3>4, ChangedPage
    <3> HIDE DEF n, i, q
    <3>6. CASE n = 0
      <4>1. BlZeroSplitIdx(page'[0]) \in {-1, State, State + 1} /\ BlZeroSplitIdx(page'[1]) = 0
        BY <3>2, <3>4, <3>5, <3>6 DEF n, i
      <4>2. QED
        BY <3>2, <3>6, <4>1, PageNumbers DEF State, Decode, n
    <3>7. CASE n = 1
      <4>1. BlZeroSplitIdx(page'[0]) = State /\ BlZeroSplitIdx(page'[1]) \in {-1, 0, 1}
        BY <3>2, <3>4, <3>5, <3>7 DEF n, i
      <4>2. QED
        BY <3>2, <4>1, PageNumbers DEF State, Decode
    <3>8. QED
      BY <3>2, <3>6, <3>7 DEF n
  <2>3. CASE ToIdle \/ Reset \/ UNCHANGED vars
    BY <2>3 DEF ToIdle, Reset, vars, State
  <2>4. CASE ErasePage0
    <3>1. page'[1] = page[1]
      BY <2>1, <2>4, EraseChanges, ChangedPage, ErasedSummary, EraseTorn DEF ErasePage0
    <3>2. BlZeroSplitIdx(page[1]) = 1
      BY <2>1, <2>4, StateRange DEF ErasePage0, Inductive
    <3>3. QED
      BY <3>1, <3>2 DEF State, Decode
  <2>5. CASE ErasePage1
    <3>1. page[0] = ErasedWords
      BY <2>5 DEF ErasePage1, Inductive
    <3>2. page'[0] = ErasedWords
      BY <2>1, <2>5, <3>1, EraseChanges, ChangedPage, ErasedSummary, EraseTorn
         DEF ErasePage1
    <3>3. BlZeroSplitIdx(page[0]) = 0 /\ BlZeroSplitIdx(page'[0]) = 0
      BY <3>1, <3>2, ErasedSummary
    <3>4. BlZeroSplitIdx(page[1]) = 0 => page'[1] = page[1]
      BY <2>1, <2>5, ZeroIsErased, EraseChanges, ChangedPage, ErasedSummary DEF ErasePage1
    <3>5. State \in {IDLE, TO_IDLE}
      BY <3>3, PageNumbers DEF State, Decode
    <3>6. State = IDLE => BlZeroSplitIdx(page[1]) = 0
      BY <3>3, PageNumbers DEF State, Decode
    <3>7. QED
      BY <3>3, <3>4, <3>5, <3>6, PageNumbers DEF State, Decode
  <2>6. QED
    BY <2>2, <2>3, <2>4, <2>5 DEF Next
<1>2. Inductive /\ [Next]_vars => [MayRead(State, State')]_vars
  BY <1>1
<1>3. QED
  BY <1>2, AlwaysInductive, PTL DEF Spec, StateAdvances

-----------------------------------------------------------------------------
(* Refinement *)

Summaries == [n \in 0 .. 1 |-> Summary(page[n])]

(* The names of the abstract machine mean what they mean here.             *)
LEMMA SameNames ==
  /\ Abstract!BlStates = BlStates
  /\ Abstract!ClearPage = ClearPage
  /\ Abstract!INSTALL = INSTALL /\ Abstract!RESTORE_0 = RESTORE_0
  /\ Abstract!RESTORE_1 = RESTORE_1 /\ Abstract!TO_IDLE = TO_IDLE /\ Abstract!ERROR = ERROR
  /\ \A s : Abstract!SetPage(s) = SetPage(s) /\ Abstract!SetWord(s) = SetWord(s)
  /\ \A pg : Abstract!TornClear(pg) = TornClear(pg)
  /\ \A pg, i : Abstract!Zeroed(pg, i) = Zeroed(pg, i)
  /\ \A pg, i : Abstract!TornZero(pg, i) = TornZero(pg, i)
  /\ \A b : Abstract!BlGetState(b) = BlGetState(b)
<1> USE DEF Abstract!IDLE, IDLE, Abstract!INSTALL, INSTALL, Abstract!SWAP_START, SWAP_START,
      Abstract!RUN, RUN, Abstract!RESTORE_0, RESTORE_0, Abstract!RESTORE_1, RESTORE_1,
      Abstract!TO_IDLE, TO_IDLE, Abstract!ERROR, ERROR, Abstract!SwapPhases, SwapPhases,
      Abstract!StateWords, StateWords
<1>1. Abstract!BlStates = BlStates
  BY Zenon DEF Abstract!BlStates, BlStates
<1>2. Abstract!ClearPage = ClearPage
  BY Zenon DEF Abstract!ClearPage, ClearPage
<1>3. /\ Abstract!INSTALL = INSTALL /\ Abstract!RESTORE_0 = RESTORE_0
      /\ Abstract!RESTORE_1 = RESTORE_1 /\ Abstract!TO_IDLE = TO_IDLE /\ Abstract!ERROR = ERROR
  BY Zenon
<1>4. ASSUME NEW s
      PROVE  Abstract!SetPage(s) = SetPage(s) /\ Abstract!SetWord(s) = SetWord(s)
  BY Zenon DEF Abstract!SetPage, SetPage, Abstract!SetWord, SetWord
<1>5. ASSUME NEW pg PROVE Abstract!TornClear(pg) = TornClear(pg)
  BY Zenon DEF Abstract!TornClear, TornClear, Abstract!StatePage, StatePage
<1>6. ASSUME NEW pg, NEW i PROVE Abstract!Zeroed(pg, i) = Zeroed(pg, i)
  BY Zenon DEF Abstract!Zeroed, Zeroed
<1>7. ASSUME NEW pg, NEW i PROVE Abstract!TornZero(pg, i) = TornZero(pg, i)
  BY <1>6, Zenon DEF Abstract!TornZero, TornZero
<1>8. ASSUME NEW b PROVE Abstract!BlGetState(b) = BlGetState(b)
  BY Zenon DEF Abstract!BlGetState, BlGetState, Abstract!Split, Split, Abstract!Decode, Decode
<1>9. QED
  BY <1>1, <1>2, <1>3, <1>4, <1>5, <1>6, <1>7, <1>8, Zenon

(* bl_get_state() reads the same state from the words and their summary.   *)
LEMMA SameState ==
  ASSUME TypeOK
  PROVE  Abstract!State = State
<1>1. /\ Summaries[0] = Summary(page[0]) /\ Summaries[1] = Summary(page[1])
      /\ page[0] \in WordPage /\ page[1] \in WordPage
  BY DEF Summaries, TypeOK
<1>2. BlGetState(Summaries) = State
  BY <1>1, SummarySplits DEF BlGetState, State
<1>3. Abstract!State = BlGetState(Summaries)
  BY SameNames DEF Abstract!State, Summaries
<1>4. QED
  BY <1>2, <1>3

LEMMA SummariesChange ==
  ASSUME TypeOK, NEW n \in 0 .. 1, NEW q, Changed(n, q)
  PROVE  /\ Summaries' = [Summaries EXCEPT ![n] = Summary(q)]
         /\ Summaries'[n] = Summary(q)
         /\ Summaries[n] = Summary(page[n])
BY DEF Summaries, TypeOK, Changed

(* Each operation on the words is the one on the summaries.                *)
LEMMA SetStateRefines ==
  ASSUME TypeOK, NEW s \in BlStates, SetState(s)
  PROVE  Abstract!Set(s)
<1> DEFINE n == SetPage(s)
           i == SetWord(s)
<1>1. PICK v \in Cells : (v = Zero \/ "write" \in TornState) /\ Changed(n, Write(page[n], i, v))
  BY SetStateChanges
<1> DEFINE q == Write(page[n], i, v)
<1>2. n \in 0 .. 1 /\ i \in 0 .. StateWords - 1 /\ BlZeroSplitIdx(page[n]) = i
  BY SetsNextWord DEF SetState
<1>3. page[n] \in WordPage
  BY <1>2 DEF TypeOK
<1>4. /\ v = Zero => Summary(q) = Zeroed(Summary(page[n]), i)
      /\ Summary(q) \in TornZero(Summary(page[n]), i)
  BY <1>2, <1>3, WriteNext
<1>5. /\ Summaries' = [Summaries EXCEPT ![n] = Summary(q)]
      /\ Summaries'[n] = Summary(q)
      /\ Summaries[n] = Summary(page[n])
  BY <1>1, <1>2, SummariesChange
<1> HIDE DEF n, i, q
<1>6. \/ Summaries' = [Summaries EXCEPT ![n] = Zeroed(Summaries[n], i)]
      \/ /\ "write" \in TornState
         /\ Summaries'[n] \in TornZero(Summaries[n], i)
         /\ Summaries' = [Summaries EXCEPT ![n] = Summaries'[n]]
  BY <1>1, <1>4, <1>5, Zenon
<1>7. Abstract!MaySet(Abstract!State, s)
  BY SameNames, SameState DEF SetState, Abstract!MaySet
<1>8. at = "ready" /\ at' = at
  BY DEF SetState
<1>9. QED
  BY <1>6, <1>7, <1>8, SameNames, Zenon DEF Abstract!Set, Abstract!Damaged, Summaries, n, i

LEMMA EraseRefines ==
  ASSUME TypeOK, NEW n \in 0 .. 1, NEW place, NEW next, at = place, ErasePage(n, next)
  PROVE  Abstract!Erase(n, place, next)
<1>1. page[n] \in WordPage
  BY DEF TypeOK
<1>2. CASE Changed(n, ErasedWords) /\ at' = next
  <2>1. Summaries' = [Summaries EXCEPT ![n] = ClearPage]
    BY <1>2, SummariesChange, ErasedSummary
  <2>2. QED
    BY <1>2, <2>1, SameNames, Zenon DEF Abstract!Erase, Summaries
<1>3. ASSUME "erase" \in TornState, NEW q \in TornErase(page[n]), Changed(n, q), at' = "ready"
      PROVE  Abstract!Erase(n, place, next)
  <2>1. Summary(q) \in TornClear(Summary(page[n]))
    BY <1>1, EraseTorn
  <2>2. /\ Summaries' = [Summaries EXCEPT ![n] = Summary(q)]
        /\ Summaries'[n] = Summary(q)
        /\ Summaries[n] = Summary(page[n])
    BY <1>3, SummariesChange
  <2>3. Summaries'[n] \in TornClear(Summaries[n])
        /\ Summaries' = [Summaries EXCEPT ![n] = Summaries'[n]]
    BY <2>1, <2>2, Zenon
  <2>4. QED
    BY <1>3, <2>3, SameNames, Zenon DEF Abstract!Erase, Abstract!Damaged, Summaries
<1>4. QED
  BY <1>2, <1>3, EraseChanges

(* The words implement the summarised pages: bl_zero_split_idx and the     *)
(* operations on the words do what the model of the boot loader says.      *)
THEOREM WordsImplementPages == Spec => ImplementsPages
<1>1. Init => Abstract!PagesInit
  <2> SUFFICES ASSUME Init PROVE Abstract!PagesInit
    OBVIOUS
  <2>1. Summaries = [n \in 0 .. 1 |-> ClearPage] /\ at = "ready"
    BY ErasedSummary DEF Init, Summaries
  <2>2. QED
    BY <2>1, SameNames, Zenon DEF Abstract!PagesInit, Summaries
<1>2. Inductive /\ [Next]_vars => [Abstract!PagesNext]_(Abstract!pagesVars)
  <2> SUFFICES ASSUME Inductive, [Next]_vars
               PROVE  Abstract!PagesNext \/ UNCHANGED Abstract!pagesVars
    OBVIOUS
  <2>1. TypeOK
    BY DEF Inductive
  <2>2. ASSUME NEW s \in BlStates, SetState(s) PROVE Abstract!PagesNext
    BY <2>1, <2>2, SetStateRefines, SameNames DEF Abstract!PagesNext
  <2>3. CASE ToIdle
    <3>1. page' = page /\ at = "ready" /\ at' = "erase_0" /\ State \in {ERROR, TO_IDLE}
      BY <2>3 DEF ToIdle
    <3>2. Summaries' = Summaries
      BY <3>1 DEF Summaries
    <3>3. Abstract!ToIdle
      BY <2>1, <3>1, <3>2, SameState, SameNames DEF Abstract!ToIdle, Summaries
    <3>4. QED
      BY <3>3 DEF Abstract!PagesNext
  <2>4. CASE ErasePage0
    BY <2>1, <2>4, EraseRefines DEF ErasePage0, Abstract!PagesNext
  <2>5. CASE ErasePage1
    BY <2>1, <2>5, EraseRefines DEF ErasePage1, Abstract!PagesNext
  <2>6. CASE Reset
    <3>1. page' = page /\ at # "ready" /\ at' = "ready"
      BY <2>6 DEF Reset
    <3>2. Summaries' = Summaries
      BY <3>1 DEF Summaries
    <3>3. QED
      BY <3>1, <3>2 DEF Abstract!Reset, Abstract!PagesNext, Summaries
  <2>7. CASE UNCHANGED vars
    BY <2>7 DEF vars, Abstract!pagesVars
  <2>8. QED
    BY <2>2, <2>3, <2>4, <2>5, <2>6, <2>7 DEF Next
<1>3. QED
  BY <1>1, <1>2, AlwaysInductive, PTL DEF Spec, ImplementsPages, Abstract!PagesSpec
=============================================================================
