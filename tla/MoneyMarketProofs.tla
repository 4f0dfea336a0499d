------------------------- MODULE MoneyMarketProofs -------------------------
(***************************************************************************)
(* The inductive invariant of MoneyMarket, for every set of markets and    *)
(* accounts, every scale, rate, price and fee.  The lemmas about one       *)
(* market (CTokenProofs) and about the position structures are lifted to   *)
(* transactions, one lemma per action.  What a transaction does to each     *)
(* market is then one of a few effects, from which the action properties   *)
(* follow, and the invariant of the listed markets.  Then the sums that the *)
(* liquidity hooks judge are compared with the sums after the transaction. *)
(* The last part shows that the markets implement LendingLedger.           *)
(***************************************************************************)
EXTENDS MoneyMarket, CTokenProofs, SequenceTheorems

-----------------------------------------------------------------------------
\* Positions: accountMembership and accountAssets record the same relation,
\* through addToMarketInternal and through exitMarket's removal from the list,
\* where the last entry takes the place of the removed.

\* Joining a market, listed or not, entered before or not
LEMMA AddToMarketMatches ==
  ASSUME NEW p \in Positions, matching(p), NEW m \in Markets, NEW account \in Holders
  PROVE  /\ addToMarketInternal(p, m, account) \in Positions
         /\ matching(addToMarketInternal(p, m, account))
         /\ \A k \in Markets :
               p.membership[k] \subseteq addToMarketInternal(p, m, account).membership[k]
         /\ isListed(m) => account \in addToMarketInternal(p, m, account).membership[m]
         /\ \A k \in Markets : ~isListed(k) =>
               addToMarketInternal(p, m, account).membership[k] = p.membership[k]
<1> DEFINE list == p.assets[account]
           more == Append(list, m)
           q    == [membership |-> [p.membership EXCEPT ![m] = @ \cup {account}],
                    assets     |-> [p.assets EXCEPT ![account] = more]]
<1>1. /\ p.membership \in [Markets -> SUBSET Holders]
      /\ p.assets \in [Holders -> Seq(Markets)] /\ list \in Seq(Markets)
  BY DEF Positions
<1>2. CASE ~isListed(m) \/ account \in p.membership[m]
  BY <1>2 DEF addToMarketInternal
<1>3. CASE isListed(m) /\ account \notin p.membership[m]
  <2>1. addToMarketInternal(p, m, account) = q
    BY <1>3 DEF addToMarketInternal
  <2>2. /\ more \in Seq(Markets) /\ Len(list) \in Nat
        /\ DOMAIN list = 1 .. Len(list) /\ DOMAIN more = 1 .. Len(list) + 1
        /\ \A i \in 1 .. Len(list) : more[i] = list[i]
        /\ more[Len(list) + 1] = m
    BY <1>1, AppendProperties, LenProperties
  <2>3. noRepetition(list) /\ ~contains(list, m)
    BY <1>3 DEF matching
  <2> HIDE DEF list, more
  <2>4. noRepetition(more)
    BY <2>2, <2>3 DEF noRepetition, contains
  <2>5. \A k \in Markets : contains(more, k) <=> contains(list, k) \/ k = m
    BY <2>2 DEF contains
  <2>6. q \in Positions
    BY <1>1, <2>2 DEF Positions
  <2>7. matching(q)
    <3> SUFFICES ASSUME NEW h \in Holders
                 PROVE  /\ noRepetition(q.assets[h])
                        /\ \A k \in Markets :
                              h \in q.membership[k] <=> contains(q.assets[h], k)
      BY DEF matching
    <3>1. CASE h = account
      BY <1>1, <2>4, <2>5, <3>1 DEF matching, list
    <3>2. CASE h # account
      BY <1>1, <3>2 DEF matching
    <3>3. QED
      BY <3>1, <3>2
  <2>8. QED
    BY <1>1, <1>3, <2>1, <2>6, <2>7
<1>4. QED
  BY <1>2, <1>3

\* What exitMarket makes of a list, entry by entry
LEMMA SwapAndPopElements ==
  ASSUME NEW list \in Seq(Markets), NEW index \in DOMAIN list
  PROVE  /\ swapAndPop(list, index) \in Seq(Markets)
         /\ Len(list) \in Nat /\ DOMAIN list = 1 .. Len(list)
         /\ DOMAIN swapAndPop(list, index) = 1 .. Len(list) - 1
         /\ \A i \in 1 .. Len(list) - 1 :
               swapAndPop(list, index)[i] = IF i = index THEN list[Len(list)] ELSE list[i]
<1> DEFINE n       == Len(list)
           swapped == [list EXCEPT ![index] = list[n]]
           shorter == SubSeq(swapped, 1, n - 1)
<1>1. n \in Nat /\ DOMAIN list = 1 .. n /\ index \in 1 .. n /\ list \in [1 .. n -> Markets]
  BY LenProperties
<1>2. list[n] \in Markets
  BY <1>1
<1>3. \A j \in 1 .. n : swapped[j] = IF j = index THEN list[n] ELSE list[j]
  BY <1>1
<1>4. \A j \in 1 .. n - 1 : swapped[j] \in Markets
  BY <1>1, <1>2, <1>3
<1> HIDE DEF swapped
<1>5. /\ shorter \in Seq(Markets)
      /\ Len(shorter) = IF 1 <= n - 1 THEN n - 1 - 1 + 1 ELSE 0
      /\ \A i \in 1 .. n - 1 - 1 + 1 : shorter[i] = swapped[1 + i - 1]
  BY <1>1, <1>4, SubSeqProperties
<1>6. shorter = swapAndPop(list, index)
  BY DEF swapAndPop, swapped
<1> HIDE DEF shorter
<1>7. /\ DOMAIN shorter = 1 .. n - 1
      /\ \A i \in 1 .. n - 1 : shorter[i] = IF i = index THEN list[n] ELSE list[i]
  <2>1. DOMAIN shorter = 1 .. Len(shorter)
    BY <1>5, LenProperties
  <2>2. n \in Nat /\ n >= 1
    BY <1>1
  <2> HIDE DEF n
  <2>3. Len(shorter) = n - 1
    BY <1>5, <2>2
  <2>4. ASSUME NEW i \in 1 .. n - 1
        PROVE  shorter[i] = IF i = index THEN list[n] ELSE list[i]
    <3>1. 1 + i - 1 = i /\ i \in 1 .. n /\ i \in 1 .. n - 1 - 1 + 1
      BY <2>2
    <3>2. shorter[i] = swapped[i]
      BY <1>5, <3>1
    <3>3. QED
      BY <1>3, <3>1, <3>2
  <2>5. QED
    BY <2>1, <2>3, <2>4
<1> HIDE DEF n
<1>8. /\ swapAndPop(list, index) \in Seq(Markets)
      /\ DOMAIN swapAndPop(list, index) = 1 .. n - 1
      /\ \A i \in 1 .. n - 1 : swapAndPop(list, index)[i] = IF i = index THEN list[n] ELSE list[i]
  BY <1>5, <1>6, <1>7
<1>9. QED
  BY <1>1, <1>8 DEF n

\* Removing the entry at index from a list without repetitions removes the
\* market there and no other.
LEMMA SwapAndPopRemoves ==
  ASSUME NEW list \in Seq(Markets), noRepetition(list), NEW index \in DOMAIN list
  PROVE  /\ swapAndPop(list, index) \in Seq(Markets)
         /\ noRepetition(swapAndPop(list, index))
         /\ \A k \in Markets :
               contains(swapAndPop(list, index), k) <=> contains(list, k) /\ k # list[index]
<1> DEFINE n       == Len(list)
           shorter == swapAndPop(list, index)
<1>1. /\ n \in Nat /\ DOMAIN list = 1 .. n /\ index \in 1 .. n
      /\ shorter \in Seq(Markets) /\ DOMAIN shorter = 1 .. n - 1
      /\ \A i \in 1 .. n - 1 : shorter[i] = IF i = index THEN list[n] ELSE list[i]
  BY SwapAndPopElements
<1> HIDE DEF n, shorter
<1>2. noRepetition(shorter)
  BY <1>1 DEF noRepetition
<1>3. ASSUME NEW k \in Markets
      PROVE  contains(shorter, k) <=> contains(list, k) /\ k # list[index]
  <2>1. ASSUME contains(shorter, k)
        PROVE  contains(list, k) /\ k # list[index]
    <3>1. PICK i \in 1 .. n - 1 : shorter[i] = k
      BY <1>1, <2>1 DEF contains
    <3>2. QED
      BY <1>1, <3>1 DEF contains, noRepetition
  <2>2. ASSUME contains(list, k), k # list[index]
        PROVE  contains(shorter, k)
    <3>1. PICK i \in 1 .. n : list[i] = k
      BY <1>1, <2>2 DEF contains
    <3>2. i # index
      BY <2>2, <3>1
    <3>3. CASE i = n
      <4>1. index \in 1 .. n - 1 /\ shorter[index] = k
        BY <1>1, <3>1, <3>2, <3>3
      <4>2. QED
        BY <1>1, <4>1 DEF contains
    <3>4. CASE i # n
      BY <1>1, <3>1, <3>2, <3>4 DEF contains
    <3>5. QED
      BY <3>3, <3>4
  <2>3. QED
    BY <2>1, <2>2
<1>4. QED
  BY <1>1, <1>2, <1>3 DEF shorter
-----------------------------------------------------------------------------

\* A market record that may replace ctoken[m] in a state with the invariant
sound(m, t) ==
  /\ validMarket(t, block)
  /\ \A h \in Holders : t.accountBorrows[h].principal > 0 => h \in accountMembership[m]
  /\ ~isListed(m) => t.totalSupply = 0 /\ t.totalBorrows = 0

\* The invariant makes every market sound.
LEMMA MarketsSound ==
  ASSUME IndInv, NEW m \in Markets
  PROVE  /\ sound(m, ctoken[m])
         /\ validMarket(ctoken[m], block)
         /\ ctoken[m] \in CTokenStorage
BY DEF IndInv, TypeOK, SnapshotsArePast, UnlistedIsInert, BorrowersAreMembers,
       TokensAddUp, sound, validMarket

\* A transaction that only replaces markets by sound ones, and moves
\* underlying, keeps the invariant.
LEMMA SoundMarketsSuffice ==
  ASSUME IndInv, DOMAIN ctoken' = Markets, ctoken' = [m \in Markets |-> ctoken'[m]],
         \A m \in Markets : sound(m, ctoken'[m]),
         underlying' \in [Markets -> [Holders -> Nat]],
         UNCHANGED <<block, comptrollerVars>>
  PROVE  IndInv'
<1>1. /\ block' = block /\ comptroller' = comptroller /\ price' = price
      /\ accountMembership' = accountMembership /\ accountAssets' = accountAssets
  BY DEF comptrollerVars
<1>2. ctoken' \in [Markets -> CTokenStorage]
  BY DEF sound, validMarket
<1>3. TypeOK'
  BY <1>1, <1>2 DEF IndInv, TypeOK, ComptrollerTypeOK
<1>4. SnapshotsArePast' /\ TokensAddUp'
  BY <1>1 DEF SnapshotsArePast, TokensAddUp, sound, validMarket
<1>5. UnlistedIsInert'
  BY <1>1 DEF IndInv, UnlistedIsInert, sound, isListed
<1>6. AssetsMatchMembership'
  BY <1>1 DEF IndInv, AssetsMatchMembership, positions
<1>7. BorrowersAreMembers'
  BY <1>1 DEF BorrowersAreMembers, sound
<1>8. QED
  BY <1>3, <1>4, <1>5, <1>6, <1>7 DEF IndInv

\* The same for a transaction of one market
LEMMA OneSoundMarketSuffices ==
  ASSUME IndInv, NEW m \in Markets, NEW t, sound(m, t),
         ctoken' = [ctoken EXCEPT ![m] = t],
         underlying' \in [Markets -> [Holders -> Nat]],
         UNCHANGED <<block, comptrollerVars>>
  PROVE  IndInv'
<1>1. ctoken \in [Markets -> CTokenStorage]
  BY DEF IndInv, TypeOK
<1>2. DOMAIN ctoken' = Markets /\ ctoken' = [k \in Markets |-> ctoken'[k]]
  BY <1>1
<1>3. \A k \in Markets : ctoken'[k] = IF k = m THEN t ELSE ctoken[k]
  BY <1>1
<1>4. \A k \in Markets : sound(k, ctoken'[k])
  BY <1>3, MarketsSound
<1>5. QED
  BY <1>2, <1>4, SoundMarketsSuffice

\* A market that keeps its borrowers' list, supply and borrows stays sound.
LEMMA SameBookSound ==
  ASSUME NEW m \in Markets, NEW s, NEW t, sound(m, s), validMarket(t, block), sameBook(s, t)
  PROVE  sound(m, t)
BY DEF sound, sameBook

\* A listed market may change its supply and total borrows.
LEMMA ListedSound ==
  ASSUME NEW m \in Markets, NEW s, NEW t, sound(m, s), validMarket(t, block), isListed(m),
         t.accountBorrows = s.accountBorrows
  PROVE  sound(m, t)
BY DEF sound

\* The state every operation of a cToken starts from
LEMMA AccruedSound ==
  ASSUME IndInv, NEW m \in Markets, canAccrue(ctoken[m], block)
  PROVE  /\ sound(m, accrued(m))
         /\ validMarket(accrued(m), block)
         /\ accrued(m) \in CTokenStorage
         /\ accrued(m).accountBorrows = ctoken[m].accountBorrows
         /\ accrued(m).totalSupply = ctoken[m].totalSupply
<1>1. block \in Nat /\ sound(m, ctoken[m]) /\ validMarket(ctoken[m], block)
  BY MarketsSound DEF IndInv, TypeOK
<1> DEFINE t == accrueInterest(ctoken[m], block)
<1>2. /\ validMarket(t, block)
      /\ t.totalSupply = ctoken[m].totalSupply
      /\ t.accountBorrows = ctoken[m].accountBorrows
      /\ ctoken[m].totalBorrows = 0 => t.totalBorrows = 0
  BY <1>1, AccrueValid
<1> HIDE DEF t
<1>3. sound(m, t)
  BY <1>1, <1>2 DEF sound
<1>4. QED
  BY <1>2, <1>3 DEF accrued, validMarket, t
-----------------------------------------------------------------------------
(* Transfers of underlying *)

\* What arrives is a natural, whatever the fee.
LEMMA ReceivedNat ==
  ASSUME NEW m \in Markets, NEW amount \in Nat
  PROVE  received(m, amount) \in Nat
<1>1. /\ transferFee[m] \in Nat /\ transferFee[m] <= expScale
      /\ expScale \in Nat /\ expScale # 0
  BY MoneyMarketAssumption, ExpScaleAssumption
<1>2. mul_Exp(amount, transferFee[m]) \in Nat
  BY <1>1, MulExpNat
<1>3. (amount * transferFee[m]) \div expScale <= amount
  BY <1>1, FractionBound
<1>4. QED
  BY <1>2, <1>3 DEF received, mul_Exp

\* Paying what is there, and being sent anything
LEMMA UnderlyingTyped ==
  ASSUME IndInv, NEW m \in Markets, NEW a \in Holders, NEW amount \in Nat
  PROVE  /\ canPay(m, a, amount) => paid(m, a, amount) \in [Markets -> [Holders -> Nat]]
         /\ sent(m, a, amount) \in [Markets -> [Holders -> Nat]]
<1>1. underlying \in [Markets -> [Holders -> Nat]]
  BY DEF IndInv, TypeOK
<1>2. received(m, amount) \in Nat
  BY ReceivedNat
<1>3. QED
  BY <1>1, <1>2 DEF canPay, paid, sent

\* Accounts hold cTokens, and so does the Comptroller.
LEMMA AccountsAreHolders ==
  Accounts \subseteq Holders /\ ComptrollerAddress \in Holders /\ Admin \in Holders
BY MoneyMarketAssumption
-----------------------------------------------------------------------------
(* One lemma per action: it keeps the invariant. *)

\* accrueInterest, which anybody may call
LEMMA AccrueInterestKeeps ==
  ASSUME IndInv, NEW m \in Markets, AccrueInterest(m)
  PROVE  IndInv'
<1>1. sound(m, accrued(m))
  BY AccruedSound DEF AccrueInterest
<1>2. underlying' \in [Markets -> [Holders -> Nat]]
  BY DEF AccrueInterest, IndInv, TypeOK
<1>3. QED
  BY <1>1, <1>2, OneSoundMarketSuffices DEF AccrueInterest, withAccrued

\* mint: what arrives is booked as cash and as the minter's tokens.
LEMMA MintKeeps ==
  ASSUME IndInv, NEW m \in Markets, NEW minter \in Accounts, NEW amount \in Nat,
         Mint(m, minter, amount)
  PROVE  IndInv'
<1> DEFINE t == mintFresh(accrued(m), minter, received(m, amount))
<1>1. block \in Nat /\ minter \in Holders /\ received(m, amount) \in Nat
  BY AccountsAreHolders, ReceivedNat DEF IndInv, TypeOK
<1>2. sound(m, accrued(m)) /\ validMarket(accrued(m), block)
  BY AccruedSound DEF Mint
<1>3. exchangeRateDefined(accrued(m)) /\ exchangeRateStored(accrued(m)) # 0 /\ isListed(m)
  BY DEF Mint, mintAllowed
<1>4. validMarket(t, block) /\ t.accountBorrows = accrued(m).accountBorrows
  BY <1>1, <1>2, <1>3, MintValid
<1>5. ctoken' = [ctoken EXCEPT ![m] = t] /\ UNCHANGED <<block, comptrollerVars>>
  BY DEF Mint
<1> HIDE DEF t
<1>6. sound(m, t)
  BY <1>2, <1>3, <1>4, ListedSound
<1>7. underlying' \in [Markets -> [Holders -> Nat]]
  BY <1>1, UnderlyingTyped DEF Mint
<1>8. QED
  BY <1>5, <1>6, <1>7, OneSoundMarketSuffices

\* redeemFresh, of tokens its caller computed
LEMMA RedeemFreshKeeps ==
  ASSUME IndInv, NEW m \in Markets, NEW redeemer \in Accounts, NEW tokens \in Nat,
         NEW amount \in Nat, canAccrue(ctoken[m], block),
         RedeemFresh(m, redeemer, tokens, amount)
  PROVE  IndInv'
<1> DEFINE t == redeemFresh(accrued(m), redeemer, tokens, amount)
<1>1. block \in Nat /\ redeemer \in Holders
  BY AccountsAreHolders DEF IndInv, TypeOK
<1>2. sound(m, accrued(m)) /\ validMarket(accrued(m), block)
  BY AccruedSound
<1>3. /\ accrued(m).accountTokens[redeemer] >= tokens
      /\ accrued(m).totalSupply >= tokens /\ accrued(m).cash >= amount
      /\ isListed(m)
  BY DEF RedeemFresh, redeemAllowedInternal
<1>4. validMarket(t, block) /\ t.accountBorrows = accrued(m).accountBorrows
  BY <1>1, <1>2, <1>3, RedeemValid
<1>5. ctoken' = [ctoken EXCEPT ![m] = t] /\ UNCHANGED <<block, comptrollerVars>>
  BY DEF RedeemFresh
<1> HIDE DEF t
<1>6. sound(m, t)
  BY <1>2, <1>3, <1>4, ListedSound
<1>7. underlying' \in [Markets -> [Holders -> Nat]]
  BY <1>1, UnderlyingTyped DEF RedeemFresh
<1>8. QED
  BY <1>5, <1>6, <1>7, OneSoundMarketSuffices

\* redeem: the tokens are given, the amount computed.
LEMMA RedeemKeeps ==
  ASSUME IndInv, NEW m \in Markets, NEW redeemer \in Accounts, NEW tokens \in Nat,
         Redeem(m, redeemer, tokens)
  PROVE  IndInv'
<1>1. canAccrue(ctoken[m], block) /\ exchangeRateDefined(accrued(m))
  BY DEF Redeem
<1>2. exchangeRateStored(accrued(m)) \in Nat
  BY <1>1, AccruedSound, ExchangeRateNat
<1>3. mul_ScalarTruncate(exchangeRateStored(accrued(m)), tokens) \in Nat
  BY <1>2, ScalarTruncateNat
<1>4. QED
  BY <1>1, <1>3, RedeemFreshKeeps DEF Redeem

\* redeemUnderlying: the amount is given, the tokens computed.
LEMMA RedeemUnderlyingKeeps ==
  ASSUME IndInv, NEW m \in Markets, NEW redeemer \in Accounts, NEW amount \in Nat,
         RedeemUnderlying(m, redeemer, amount)
  PROVE  IndInv'
<1>1. /\ canAccrue(ctoken[m], block)
      /\ exchangeRateDefined(accrued(m)) /\ exchangeRateStored(accrued(m)) # 0
  BY DEF RedeemUnderlying
<1>2. exchangeRateStored(accrued(m)) \in Nat
  BY <1>1, AccruedSound, ExchangeRateNat
<1>3. div_Exp(amount, exchangeRateStored(accrued(m))) \in Nat
  BY <1>1, <1>2, DivExpNat
<1>4. QED
  BY <1>1, <1>3, RedeemFreshKeeps DEF RedeemUnderlying

\* borrow: the debtor is a member afterwards, as borrowAllowed adds it to the
\* market it was not in.
LEMMA BorrowKeeps ==
  ASSUME IndInv, NEW m \in Markets, NEW borrower \in Accounts, NEW amount \in Nat,
         Borrow(m, borrower, amount)
  PROVE  IndInv'
<1> DEFINE s == accrued(m)
           t == borrowFresh(s, borrower, amount)
           q == addToMarketInternal(positions, m, borrower)
<1>1. block \in Nat /\ borrower \in Holders
  BY AccountsAreHolders DEF IndInv, TypeOK
<1>2. sound(m, s) /\ validMarket(s, block)
  BY AccruedSound DEF Borrow
<1>3. s.cash >= amount /\ isListed(m)
  BY DEF Borrow, borrowAllowed
<1>4. /\ validMarket(t, block)
      /\ \A h \in Holders \ {borrower} : t.accountBorrows[h] = s.accountBorrows[h]
  BY <1>1, <1>2, <1>3, BorrowValid
<1>5. positions \in Positions /\ matching(positions)
  BY DEF IndInv, TypeOK, ComptrollerTypeOK, positions, Positions, AssetsMatchMembership
<1>6. /\ q \in Positions /\ matching(q) /\ borrower \in q.membership[m]
      /\ \A k \in Markets : accountMembership[k] \subseteq q.membership[k]
      /\ \A k \in Markets : ~isListed(k) => q.membership[k] = accountMembership[k]
  <2>1. positions.membership = accountMembership
    BY DEF positions
  <2>2. QED
    BY <1>1, <1>3, <1>5, <2>1, AddToMarketMatches
<1>7. /\ ctoken' = [ctoken EXCEPT ![m] = t]
      /\ accountMembership' = q.membership /\ accountAssets' = q.assets
      /\ block' = block /\ comptroller' = comptroller /\ price' = price
  BY DEF Borrow, SetPositions
<1> HIDE DEF s, t, q
<1>8. /\ ctoken \in [Markets -> CTokenStorage]
      /\ \A k \in Markets : ctoken'[k] = IF k = m THEN t ELSE ctoken[k]
  BY <1>7 DEF IndInv, TypeOK
<1>9. TypeOK'
  <2>1. underlying' \in [Markets -> [Holders -> Nat]]
    BY <1>1, UnderlyingTyped DEF Borrow
  <2>2. ctoken' \in [Markets -> CTokenStorage]
    BY <1>4, <1>7, <1>8 DEF validMarket
  <2>3. ComptrollerTypeOK'
    BY <1>6, <1>7 DEF IndInv, TypeOK, ComptrollerTypeOK, Positions
  <2>4. QED
    BY <1>1, <1>7, <2>1, <2>2, <2>3 DEF TypeOK
<1>10. SnapshotsArePast' /\ TokensAddUp'
  BY <1>4, <1>7, <1>8 DEF IndInv, SnapshotsArePast, TokensAddUp, validMarket
<1>11. UnlistedIsInert'
  BY <1>3, <1>6, <1>7, <1>8 DEF IndInv, UnlistedIsInert, isListed
<1>12. AssetsMatchMembership'
  <2>1. positions' = [membership |-> q.membership, assets |-> q.assets]
    BY <1>7 DEF positions
  <2>2. QED
    BY <1>6, <2>1 DEF AssetsMatchMembership, matching
<1>13. BorrowersAreMembers'
  <2> SUFFICES ASSUME NEW k \in Markets, NEW h \in Holders,
                      ctoken'[k].accountBorrows[h].principal > 0
               PROVE  h \in q.membership[k]
    BY <1>7 DEF BorrowersAreMembers
  <2>1. CASE k = m /\ h = borrower
    BY <1>6, <2>1
  <2>2. CASE k = m /\ h # borrower
    BY <1>2, <1>4, <1>6, <1>8, <2>2 DEF sound
  <2>3. CASE k # m
    BY <1>6, <1>8, <2>3 DEF IndInv, BorrowersAreMembers
  <2>4. QED
    BY <2>1, <2>2, <2>3
<1>14. QED
  BY <1>9, <1>10, <1>11, <1>12, <1>13 DEF IndInv

\* repayBorrow and repayBorrowBehalf, of an amount or of the full debt
LEMMA RepayBorrowKeeps ==
  ASSUME IndInv, NEW m \in Markets, NEW payer \in Accounts, NEW borrower \in Accounts,
         NEW amount \in Nat, RepayBorrow(m, payer, borrower, amount)
  PROVE  IndInv'
<1> DEFINE s     == accrued(m)
           final == IF amount = UintMax /\ m \notin EtherMarkets
                    THEN borrowBalanceStored(s, borrower) ELSE amount
           t     == repayBorrowFresh(s, borrower, received(m, final))
<1>1. block \in Nat /\ payer \in Holders /\ borrower \in Holders
  BY AccountsAreHolders DEF IndInv, TypeOK
<1>2. sound(m, s) /\ validMarket(s, block) /\ s \in CTokenStorage /\ validSnapshots(s)
  BY AccruedSound DEF RepayBorrow, validMarket
<1>3. final \in Nat
  BY <1>1, <1>2, BorrowBalanceBound
<1>4. /\ isListed(m) /\ canPay(m, payer, final) /\ canRepay(s, borrower, received(m, final))
      /\ ctoken' = [ctoken EXCEPT ![m] = t] /\ underlying' = paid(m, payer, final)
      /\ UNCHANGED <<block, comptrollerVars>>
  BY DEF RepayBorrow, repayBorrowAllowed
<1> HIDE DEF s, final
<1>5. received(m, final) \in Nat
  BY <1>3, ReceivedNat
<1>6. /\ validMarket(t, block)
      /\ \A h \in Holders : t.accountBorrows[h].principal > 0
                               => s.accountBorrows[h].principal > 0
  BY <1>1, <1>2, <1>4, <1>5, RepayValid
<1> HIDE DEF t
<1>7. sound(m, t)
  BY <1>2, <1>4, <1>6 DEF sound
<1>8. underlying' \in [Markets -> [Holders -> Nat]]
  BY <1>1, <1>3, <1>4, UnderlyingTyped
<1>9. QED
  BY <1>4, <1>7, <1>8, OneSoundMarketSuffices

\* transfer and transferFrom
LEMMA TransferKeeps ==
  ASSUME IndInv, NEW m \in Markets, NEW spender \in Accounts, NEW src \in Accounts,
         NEW dst \in Accounts, NEW tokens \in Nat, Transfer(m, spender, src, dst, tokens)
  PROVE  IndInv'
<1> DEFINE t == transferTokens(ctoken[m], spender, src, dst, tokens)
<1>1. block \in Nat /\ spender \in Holders /\ src \in Holders /\ dst \in Holders
  BY AccountsAreHolders DEF IndInv, TypeOK
<1>2. sound(m, ctoken[m]) /\ validMarket(ctoken[m], block)
  BY MarketsSound
<1>3. /\ isListed(m) /\ src # dst
      /\ startingAllowance(ctoken[m], spender, src) >= tokens
      /\ ctoken[m].accountTokens[src] >= tokens
      /\ ctoken' = [ctoken EXCEPT ![m] = t]
      /\ underlying' = underlying /\ UNCHANGED <<block, comptrollerVars>>
  BY DEF Transfer, transferAllowed, redeemAllowedInternal
<1>4. validMarket(t, block) /\ t.accountBorrows = ctoken[m].accountBorrows
  BY <1>1, <1>2, <1>3, TransferValid
<1> HIDE DEF t
<1>5. sound(m, t)
  BY <1>2, <1>3, <1>4, ListedSound
<1>6. underlying' \in [Markets -> [Holders -> Nat]]
  BY <1>3 DEF IndInv, TypeOK
<1>7. QED
  BY <1>3, <1>5, <1>6, OneSoundMarketSuffices

\* approve
LEMMA ApproveKeeps ==
  ASSUME IndInv, NEW m \in Markets, NEW src \in Accounts, NEW spender \in Accounts,
         NEW amount \in Nat, Approve(m, src, spender, amount)
  PROVE  IndInv'
<1> DEFINE t == [ctoken[m] EXCEPT !.transferAllowances[src][spender] = amount]
<1>1. block \in Nat /\ spender \in Holders /\ src \in Holders
  BY AccountsAreHolders DEF IndInv, TypeOK
<1>2. sound(m, ctoken[m]) /\ validMarket(ctoken[m], block)
  BY MarketsSound
<1>3. validMarket(t, block) /\ sameBook(ctoken[m], t)
  BY <1>1, <1>2, SettersValid
<1>4. /\ ctoken' = [ctoken EXCEPT ![m] = t]
      /\ underlying' \in [Markets -> [Holders -> Nat]]
      /\ UNCHANGED <<block, comptrollerVars>>
  BY DEF Approve, IndInv, TypeOK
<1> HIDE DEF t
<1>5. sound(m, t)
  BY <1>2, <1>3, SameBookSound
<1>6. QED
  BY <1>4, <1>5, OneSoundMarketSuffices

\* A plain transfer of underlying to the market
LEMMA DonateKeeps ==
  ASSUME IndInv, NEW m \in Markets, NEW from \in Accounts, NEW amount \in Nat,
         Donate(m, from, amount)
  PROVE  IndInv'
<1> DEFINE t == [ctoken[m] EXCEPT !.cash = @ + received(m, amount)]
<1>1. block \in Nat /\ from \in Holders /\ received(m, amount) \in Nat
  BY AccountsAreHolders, ReceivedNat DEF IndInv, TypeOK
<1>2. sound(m, ctoken[m]) /\ validMarket(ctoken[m], block)
  BY MarketsSound
<1>3. validMarket(t, block) /\ sameBook(ctoken[m], t)
  BY <1>1, <1>2, SettersValid
<1>4. ctoken' = [ctoken EXCEPT ![m] = t] /\ UNCHANGED <<block, comptrollerVars>>
  BY DEF Donate
<1>5. underlying' \in [Markets -> [Holders -> Nat]]
  BY <1>1, UnderlyingTyped DEF Donate
<1> HIDE DEF t
<1>6. sound(m, t)
  BY <1>2, <1>3, SameBookSound
<1>7. QED
  BY <1>4, <1>5, <1>6, OneSoundMarketSuffices

\* _addReserves, of what arrives
LEMMA AddReservesKeeps ==
  ASSUME IndInv, NEW m \in Markets, NEW payer \in Accounts, NEW amount \in Nat,
         AddReserves(m, payer, amount)
  PROVE  IndInv'
<1> DEFINE t == addReservesFresh(accrued(m), received(m, amount))
<1>1. block \in Nat /\ payer \in Holders /\ received(m, amount) \in Nat
  BY AccountsAreHolders, ReceivedNat DEF IndInv, TypeOK
<1>2. sound(m, accrued(m)) /\ validMarket(accrued(m), block)
  BY AccruedSound DEF AddReserves
<1>3. validMarket(t, block) /\ sameBook(accrued(m), t)
  BY <1>1, <1>2, ReservesValid
<1>4. ctoken' = [ctoken EXCEPT ![m] = t] /\ UNCHANGED <<block, comptrollerVars>>
  BY DEF AddReserves
<1>5. underlying' \in [Markets -> [Holders -> Nat]]
  BY <1>1, UnderlyingTyped DEF AddReserves
<1> HIDE DEF t
<1>6. sound(m, t)
  BY <1>2, <1>3, SameBookSound
<1>7. QED
  BY <1>4, <1>5, <1>6, OneSoundMarketSuffices

\* _reduceReserves, within cash and reserves
LEMMA ReduceReservesKeeps ==
  ASSUME IndInv, NEW m \in Markets, NEW amount \in Nat, ReduceReserves(m, amount)
  PROVE  IndInv'
<1> DEFINE t == reduceReservesFresh(accrued(m), amount)
<1>1. block \in Nat /\ Admin \in Holders
  BY AccountsAreHolders DEF IndInv, TypeOK
<1>2. sound(m, accrued(m)) /\ validMarket(accrued(m), block)
  BY AccruedSound DEF ReduceReserves
<1>3. validMarket(t, block) /\ sameBook(accrued(m), t)
  BY <1>1, <1>2, ReservesValid DEF ReduceReserves
<1>4. ctoken' = [ctoken EXCEPT ![m] = t] /\ UNCHANGED <<block, comptrollerVars>>
  BY DEF ReduceReserves
<1>5. underlying' \in [Markets -> [Holders -> Nat]]
  BY <1>1, UnderlyingTyped DEF ReduceReserves
<1> HIDE DEF t
<1>6. sound(m, t)
  BY <1>2, <1>3, SameBookSound
<1>7. QED
  BY <1>4, <1>5, <1>6, OneSoundMarketSuffices

\* _setReserveFactor, after the interest is accrued at the old factor
LEMMA SetReserveFactorKeeps ==
  ASSUME IndInv, NEW m \in Markets, NEW factor \in Nat, SetReserveFactor(m, factor)
  PROVE  IndInv'
<1> DEFINE t == [accrued(m) EXCEPT !.reserveFactorMantissa = factor]
<1>1. block \in Nat
  BY DEF IndInv, TypeOK
<1>2. sound(m, accrued(m)) /\ validMarket(accrued(m), block)
  BY AccruedSound DEF SetReserveFactor
<1>3. factor \in 0 .. reserveFactorMaxMantissa
  BY ExpScaleAssumption DEF SetReserveFactor, reserveFactorMaxMantissa
<1>4. validMarket(t, block) /\ sameBook(accrued(m), t)
  BY <1>1, <1>2, <1>3, SettersValid
<1>5. /\ ctoken' = [ctoken EXCEPT ![m] = t]
      /\ underlying' \in [Markets -> [Holders -> Nat]]
      /\ UNCHANGED <<block, comptrollerVars>>
  BY DEF SetReserveFactor, IndInv, TypeOK
<1> HIDE DEF t
<1>6. sound(m, t)
  BY <1>2, <1>4, SameBookSound
<1>7. QED
  BY <1>5, <1>6, OneSoundMarketSuffices

\* _setInterestRateModel, after the interest is accrued at the old model
LEMMA SetInterestRateModelKeeps ==
  ASSUME IndInv, NEW m \in Markets, NEW irm \in InterestRateModel,
         SetInterestRateModel(m, irm)
  PROVE  IndInv'
<1> DEFINE t == [accrued(m) EXCEPT !.interestRateModel = irm]
<1>1. block \in Nat
  BY DEF IndInv, TypeOK
<1>2. sound(m, accrued(m)) /\ validMarket(accrued(m), block)
  BY AccruedSound DEF SetInterestRateModel
<1>3. validMarket(t, block) /\ sameBook(accrued(m), t)
  BY <1>1, <1>2, SettersValid
<1>4. /\ ctoken' = [ctoken EXCEPT ![m] = t]
      /\ underlying' \in [Markets -> [Holders -> Nat]]
      /\ UNCHANGED <<block, comptrollerVars>>
  BY DEF SetInterestRateModel, IndInv, TypeOK
<1> HIDE DEF t
<1>5. sound(m, t)
  BY <1>2, <1>3, SameBookSound
<1>6. QED
  BY <1>4, <1>5, OneSoundMarketSuffices

\* Where liquidateCalculateSeizeTokens returns, it returns a natural.
LEMMA SeizeTokensNat ==
  ASSUME IndInv, NEW ct, NEW m \in Markets, NEW c \in Markets, ct[c] \in CTokenStorage,
         seizeTokensDefined(ct, m, c), NEW amount \in Nat
  PROVE  liquidateCalculateSeizeTokens(ct, m, c, amount) \in Nat
<1> DEFINE numerator == mul_Exp(comptroller.liquidationIncentiveMantissa, price[m])
           divisor   == seizeDenominator(ct, c)
<1>1. /\ comptroller.liquidationIncentiveMantissa \in Nat
      /\ price[m] \in Nat /\ price[c] \in Nat
  BY DEF IndInv, TypeOK, ComptrollerTypeOK, ComptrollerStorage
<1>2. exchangeRateStored(ct[c]) \in Nat
  BY ExchangeRateNat DEF seizeTokensDefined
<1>3. numerator \in Nat /\ divisor \in Nat /\ divisor # 0
  BY <1>1, <1>2, MulExpNat DEF seizeDenominator, seizeTokensDefined
<1>4. liquidateCalculateSeizeTokens(ct, m, c, amount)
        = mul_ScalarTruncate(div_Exp(numerator, divisor), amount)
  BY DEF liquidateCalculateSeizeTokens
<1> HIDE DEF numerator, divisor
<1>5. div_Exp(numerator, divisor) \in Nat
  BY <1>3, DivExpNat
<1>6. QED
  BY <1>4, <1>5, ScalarTruncateNat

\* The rate a seizure reads, in the frame of the message or outside it, is a
\* natural where it does not revert.
LEMMA SeizeRateNat ==
  ASSUME NEW ct, NEW m \in Markets, NEW c \in Markets, ct[c] \in CTokenStorage,
         exchangeRateDefined(ct[c]), NEW value \in Nat, seizeRateDefined(ct, m, c, value)
  PROVE  seizeRate(ct, m, c, value) \in Nat
<1> DEFINE s == ct[c]
           t == [s EXCEPT !.cash = @ - value]
<1>1. /\ s.cash \in Nat /\ s.totalBorrows \in Nat /\ s.totalReserves \in Nat
      /\ s.totalSupply \in Nat /\ s.initialExchangeRateMantissa \in Nat
  BY DEF CTokenStorage
<1>2. CASE c = m /\ c \in EtherMarkets
  <2>1. seizeRate(ct, m, c, value) = exchangeRateStored(t)
    BY <1>2 DEF seizeRate
  <2>2. /\ t.cash = s.cash - value /\ t.totalBorrows = s.totalBorrows
        /\ t.totalReserves = s.totalReserves /\ t.totalSupply = s.totalSupply
        /\ t.initialExchangeRateMantissa = s.initialExchangeRateMantissa
    BY DEF CTokenStorage
  <2>3. s.totalSupply = 0 \/ s.cash + s.totalBorrows >= s.totalReserves + value
    BY <1>2 DEF seizeRateDefined
  <2> HIDE DEF s, t
  <2>4. CASE s.totalSupply = 0
    BY <1>1, <2>1, <2>2, <2>4 DEF exchangeRateStored
  <2>5. CASE s.totalSupply # 0
    <3>1. cashPlusBorrowsMinusReserves(t) \in Nat
      BY <1>1, <2>2, <2>3, <2>5 DEF cashPlusBorrowsMinusReserves
    <3>2. cashPlusBorrowsMinusReserves(t) * expScale \in Nat
      BY <3>1, ProductNat, ExpScaleAssumption
    <3>3. QED
      BY <1>1, <2>1, <2>2, <2>5, <3>2, QuotientNat DEF exchangeRateStored
  <2>6. QED
    BY <2>4, <2>5
<1>3. CASE ~(c = m /\ c \in EtherMarkets)
  BY <1>3, ExchangeRateNat DEF seizeRate
<1>4. QED
  BY <1>2, <1>3

\* The repayment in the market of the debt, then the seizure in the market of
\* the collateral, which may be the same.
LEMMA LiquidateBorrowKeeps ==
  ASSUME IndInv, NEW m \in Markets, NEW c \in Markets, NEW liquidator \in Accounts,
         NEW borrower \in Accounts, NEW amount \in Nat,
         LiquidateBorrow(m, c, liquidator, borrower, amount)
  PROVE  IndInv'
<1> DEFINE both   == [ctoken EXCEPT ![m] = accrued(m), ![c] = accrued(c)]
           actual == received(m, amount)
           repaid == [both EXCEPT ![m] = repayBorrowFresh(both[m], borrower, actual)]
           tokens == liquidateCalculateSeizeTokens(repaid, m, c, actual)
           rate   == seizeRate(repaid, m, c, amount)
           seized == seizeInternal(repaid[c], liquidator, borrower, tokens, rate)
<1>1. /\ borrower # liquidator /\ canPay(m, liquidator, amount)
      /\ canAccrue(ctoken[m], block) /\ canAccrue(ctoken[c], block)
      /\ canRepay(both[m], borrower, actual)
      /\ isListed(m) /\ isListed(c)
      /\ seizeTokensDefined(repaid, m, c)
      /\ repaid[c].accountTokens[borrower] >= tokens
      /\ seizeRateDefined(repaid, m, c, amount)
      /\ repaid[c].totalSupply >= mul_Exp(tokens, protocolSeizeShareMantissa)
      /\ ctoken' = [repaid EXCEPT ![c] = seized]
      /\ underlying' = paid(m, liquidator, amount)
      /\ UNCHANGED <<block, comptrollerVars>>
  BY DEF LiquidateBorrow, liquidateBorrowAllowed
<1>2. /\ block \in Nat /\ liquidator \in Holders /\ borrower \in Holders
      /\ actual \in Nat /\ ctoken \in [Markets -> CTokenStorage]
  BY AccountsAreHolders, ReceivedNat DEF IndInv, TypeOK
<1>3. /\ sound(m, accrued(m)) /\ validMarket(accrued(m), block)
      /\ sound(c, accrued(c)) /\ validMarket(accrued(c), block)
  BY <1>1, AccruedSound
<1>4. /\ both[m] = accrued(m) /\ DOMAIN both = Markets
      /\ \A k \in Markets : both[k] = IF k \in {m, c} THEN accrued(k) ELSE ctoken[k]
  BY <1>2
<1> HIDE DEF both
<1> DEFINE t == repayBorrowFresh(both[m], borrower, actual)
<1>5. /\ validMarket(t, block)
      /\ \A h \in Holders : t.accountBorrows[h].principal > 0
                               => accrued(m).accountBorrows[h].principal > 0
  BY <1>1, <1>2, <1>3, <1>4, RepayValid
<1>6. /\ DOMAIN repaid = Markets
      /\ \A k \in Markets : repaid[k] = IF k = m THEN t ELSE both[k]
  BY <1>4
<1> HIDE DEF t, repaid, actual
<1>7. \A k \in Markets : sound(k, repaid[k])
  <2>1. sound(m, t)
    BY <1>1, <1>3, <1>5 DEF sound
  <2>2. QED
    BY <1>3, <1>4, <1>6, <2>1, MarketsSound
<1>8. repaid[c] \in CTokenStorage /\ validMarket(repaid[c], block)
  BY <1>7 DEF sound, validMarket
<1>9. tokens \in Nat
  BY <1>1, <1>2, <1>8, SeizeTokensNat
<1>10. rate \in Nat
  <2>1. exchangeRateDefined(repaid[c])
    BY <1>1 DEF seizeTokensDefined
  <2>2. QED
    BY <1>1, <1>8, <2>1, SeizeRateNat
<1> HIDE DEF tokens, rate
<1>11. validMarket(seized, block) /\ seized.accountBorrows = repaid[c].accountBorrows
  BY <1>1, <1>2, <1>8, <1>9, <1>10, SeizeValid
<1> HIDE DEF seized
<1>12. sound(c, seized)
  BY <1>1, <1>7, <1>11, ListedSound
<1>13. /\ DOMAIN ctoken' = Markets /\ ctoken' = [k \in Markets |-> ctoken'[k]]
       /\ \A k \in Markets : ctoken'[k] = IF k = c THEN seized ELSE repaid[k]
  <2>1. repaid = [k \in Markets |-> repaid[k]]
    BY <1>4, <1>6 DEF repaid
  <2>2. QED
    BY <1>1, <1>6, <2>1
<1>14. \A k \in Markets : sound(k, ctoken'[k])
  BY <1>7, <1>12, <1>13
<1>15. underlying' \in [Markets -> [Holders -> Nat]]
  BY <1>1, <1>2, UnderlyingTyped
<1>16. QED
  BY <1>1, <1>13, <1>14, <1>15, SoundMarketsSuffice

\* The seed of a market without supply is a natural.
LEMMA SeedAmountNat ==
  ASSUME NEW s \in CTokenStorage, exchangeRateDefined(s)
  PROVE  seedAmount(s) \in Nat
<1>1. exchangeRateStored(s) \in Nat
  BY ExchangeRateNat
<1>2. exchangeRateStored(s) \div expScale \in Nat
  BY <1>1, QuotientNat, ExpScaleAssumption
<1>3. QED
  BY <1>2 DEF seedAmount

\* The listing: the market is empty before, and may hold anything after.
LEMMA SupportMarketKeeps ==
  ASSUME IndInv, NEW m \in Markets, NEW msgValue \in Nat, SupportMarket(m, msgValue)
  PROVE  IndInv'
<1> DEFINE s     == accrued(m)
           payer == IF m \in EtherMarkets THEN Admin ELSE ComptrollerAddress
           seed  == IF m \in EtherMarkets THEN msgValue ELSE seedAmount(ctoken[m])
           t     == mintFresh(s, ComptrollerAddress, received(m, seed))
           cNew  == [comptroller EXCEPT !.isListed[m] = TRUE,
                                        !.collateralFactorMantissa[m] = 0]
<1>1. /\ ~isListed(m) /\ canAccrue(ctoken[m], block) /\ canPay(m, payer, seed)
      /\ comptroller' = cNew /\ ctoken' = [ctoken EXCEPT ![m] = t]
      /\ underlying' = paid(m, payer, seed)
      /\ block' = block /\ price' = price
      /\ accountMembership' = accountMembership /\ accountAssets' = accountAssets
  BY DEF SupportMarket
<1>2. /\ block \in Nat /\ payer \in Holders /\ ComptrollerAddress \in Holders
      /\ ctoken \in [Markets -> CTokenStorage] /\ comptroller \in ComptrollerStorage
  BY AccountsAreHolders DEF IndInv, TypeOK, ComptrollerTypeOK
<1>3. /\ sound(m, s) /\ validMarket(s, block) /\ s \in CTokenStorage
      /\ s.totalSupply = ctoken[m].totalSupply
  BY <1>1, AccruedSound
<1>4. ctoken[m].totalSupply = 0
  BY <1>1 DEF IndInv, UnlistedIsInert
<1>5. seed \in Nat
  BY <1>2, <1>4, SeedAmountNat DEF exchangeRateDefined
<1> HIDE DEF seed, payer
<1>6. received(m, seed) \in Nat
  BY <1>5, ReceivedNat
<1>7. exchangeRateDefined(s) /\ exchangeRateStored(s) # 0
  BY <1>3, <1>4 DEF exchangeRateDefined, exchangeRateStored, CTokenStorage
<1> HIDE DEF s
<1>8. validMarket(t, block) /\ t.accountBorrows = s.accountBorrows
  BY <1>2, <1>3, <1>6, <1>7, MintValid
<1> HIDE DEF t
<1>9. /\ cNew \in ComptrollerStorage
      /\ \A k \in Markets \ {m} : cNew.isListed[k] = comptroller.isListed[k]
      /\ cNew.isListed[m]
      /\ \A k \in Markets \ {m} : cNew.collateralFactorMantissa[k]
                                    = comptroller.collateralFactorMantissa[k]
  <2>1. 0 \in 0 .. collateralFactorMaxMantissa
    BY MoneyMarketAssumption
  <2>2. /\ [comptroller.isListed EXCEPT ![m] = TRUE] \in [Markets -> BOOLEAN]
        /\ [comptroller.collateralFactorMantissa EXCEPT ![m] = 0]
              \in [Markets -> 0 .. collateralFactorMaxMantissa]
    BY <1>2, <2>1 DEF ComptrollerStorage
  <2>3. cNew \in ComptrollerStorage
    BY <1>2, <2>2 DEF ComptrollerStorage
  <2>4. /\ cNew.isListed = [comptroller.isListed EXCEPT ![m] = TRUE]
        /\ cNew.collateralFactorMantissa
             = [comptroller.collateralFactorMantissa EXCEPT ![m] = 0]
        /\ comptroller.isListed \in [Markets -> BOOLEAN]
        /\ comptroller.collateralFactorMantissa \in [Markets -> Nat]
    BY <1>2, MoneyMarketAssumption DEF ComptrollerStorage
  <2>5. QED
    BY <2>3, <2>4
<1> HIDE DEF cNew
<1>10. \A k \in Markets : ctoken'[k] = IF k = m THEN t ELSE ctoken[k]
  BY <1>1, <1>2
<1>11. TypeOK'
  <2>1. underlying' \in [Markets -> [Holders -> Nat]]
    BY <1>1, <1>2, <1>5, UnderlyingTyped
  <2>2. ctoken' \in [Markets -> CTokenStorage]
    BY <1>1, <1>2, <1>8 DEF validMarket
  <2>3. QED
    BY <1>1, <1>2, <1>9, <2>1, <2>2 DEF IndInv, TypeOK, ComptrollerTypeOK
<1>12. SnapshotsArePast' /\ TokensAddUp'
  BY <1>1, <1>8, <1>10 DEF IndInv, SnapshotsArePast, TokensAddUp, validMarket
<1>13. UnlistedIsInert'
  <2> SUFFICES ASSUME NEW k \in Markets, ~cNew.isListed[k]
               PROVE  /\ ctoken'[k].totalSupply = 0 /\ ctoken'[k].totalBorrows = 0
                      /\ accountMembership[k] = {}
                      /\ cNew.collateralFactorMantissa[k] = 0
    BY <1>1 DEF UnlistedIsInert, isListed
  <2>1. k # m
    BY <1>9
  <2>2. ~isListed(k)
    BY <1>9, <2>1 DEF isListed
  <2>3. QED
    BY <1>9, <1>10, <2>1, <2>2 DEF IndInv, UnlistedIsInert
<1>14. AssetsMatchMembership'
  BY <1>1 DEF IndInv, AssetsMatchMembership, positions
<1>15. BorrowersAreMembers'
  BY <1>1, <1>3, <1>8, <1>10 DEF IndInv, BorrowersAreMembers, sound
<1>16. QED
  BY <1>11, <1>12, <1>13, <1>14, <1>15 DEF IndInv

\* A new block leaves every market's last accrual in the past.
LEMMA NextBlockKeeps ==
  ASSUME IndInv, NextBlock
  PROVE  IndInv'
<1>1. /\ block \in Nat /\ block' = block + 1
      /\ ctoken' = ctoken /\ underlying' = underlying
      /\ comptroller' = comptroller /\ price' = price
      /\ accountMembership' = accountMembership /\ accountAssets' = accountAssets
  BY DEF NextBlock, comptrollerVars, IndInv, TypeOK
<1>2. TypeOK'
  BY <1>1 DEF IndInv, TypeOK, ComptrollerTypeOK
<1>3. SnapshotsArePast'
  <2>1. \A m \in Markets : ctoken[m].accrualBlockNumber \in Nat
    BY DEF IndInv, TypeOK, CTokenStorage
  <2>2. QED
    BY <1>1, <2>1 DEF IndInv, SnapshotsArePast
<1>4. TokensAddUp' /\ UnlistedIsInert' /\ AssetsMatchMembership' /\ BorrowersAreMembers'
  BY <1>1 DEF IndInv, TokensAddUp, UnlistedIsInert, AssetsMatchMembership, BorrowersAreMembers,
              isListed, positions
<1>5. QED
  BY <1>2, <1>3, <1>4 DEF IndInv

\* Positions may be replaced by positions that match, keep every borrower and
\* stay out of the unlisted markets.
LEMMA MatchingPositionsSuffice ==
  ASSUME IndInv, NEW q \in Positions, matching(q),
         accountMembership' = q.membership, accountAssets' = q.assets,
         \A m \in Markets, h \in Holders :
            ctoken[m].accountBorrows[h].principal > 0 => h \in q.membership[m],
         \A m \in Markets : ~isListed(m) => q.membership[m] = {},
         UNCHANGED <<ctoken, underlying, block, comptroller, price>>
  PROVE  IndInv'
<1>1. TypeOK'
  BY DEF IndInv, TypeOK, ComptrollerTypeOK, Positions
<1>2. SnapshotsArePast' /\ TokensAddUp'
  BY DEF IndInv, SnapshotsArePast, TokensAddUp
<1>3. UnlistedIsInert'
  BY DEF IndInv, UnlistedIsInert, isListed
<1>4. AssetsMatchMembership'
  <2>1. positions' = [membership |-> q.membership, assets |-> q.assets]
    BY DEF positions
  <2>2. QED
    BY <2>1 DEF AssetsMatchMembership, matching
<1>5. BorrowersAreMembers'
  BY DEF BorrowersAreMembers
<1>6. QED
  BY <1>1, <1>2, <1>3, <1>4, <1>5 DEF IndInv

\* The two structures as they are
LEMMA PositionsMatch ==
  ASSUME IndInv
  PROVE  /\ positions \in Positions /\ matching(positions)
         /\ positions.membership = accountMembership
         /\ positions.assets = accountAssets
BY DEF IndInv, TypeOK, ComptrollerTypeOK, positions, Positions, AssetsMatchMembership

\* enterMarkets: two joins in a row, of listed markets only
LEMMA EnterMarketsKeeps ==
  ASSUME IndInv, NEW account \in Accounts, NEW first \in Markets, NEW second \in Markets,
         EnterMarkets(account, first, second), UNCHANGED marketVars
  PROVE  IndInv'
<1> DEFINE p == addToMarketInternal(positions, first, account)
           q == addToMarketInternal(p, second, account)
<1>1. account \in Holders
  BY AccountsAreHolders
<1>2. /\ p \in Positions /\ matching(p)
      /\ \A k \in Markets : accountMembership[k] \subseteq p.membership[k]
      /\ \A k \in Markets : ~isListed(k) => p.membership[k] = accountMembership[k]
  BY <1>1, PositionsMatch, AddToMarketMatches
<1>3. /\ accountMembership' = q.membership /\ accountAssets' = q.assets
      /\ UNCHANGED <<ctoken, underlying, block, comptroller, price>>
  BY DEF EnterMarkets, SetPositions, marketVars
<1> HIDE DEF p
<1>4. /\ q \in Positions /\ matching(q)
      /\ \A k \in Markets : p.membership[k] \subseteq q.membership[k]
      /\ \A k \in Markets : ~isListed(k) => q.membership[k] = p.membership[k]
  BY <1>1, <1>2, AddToMarketMatches
<1> HIDE DEF q
<1>5. \A m \in Markets, h \in Holders :
         ctoken[m].accountBorrows[h].principal > 0 => h \in q.membership[m]
  BY <1>2, <1>4 DEF IndInv, BorrowersAreMembers
<1>6. \A m \in Markets : ~isListed(m) => q.membership[m] = {}
  BY <1>2, <1>4 DEF IndInv, UnlistedIsInert
<1>7. QED
  BY <1>3, <1>4, <1>5, <1>6, MatchingPositionsSuffice

\* The account owes nothing where it leaves: its balance read zero.
LEMMA ExitMarketKeeps ==
  ASSUME IndInv, NEW account \in Accounts, NEW m \in Markets,
         ExitMarket(ctoken, account, m), UNCHANGED marketVars
  PROVE  IndInv'
<1> DEFINE list == accountAssets[account]
<1>1. PICK index \in DOMAIN list :
         /\ list[index] = m
         /\ accountAssets' = [accountAssets EXCEPT ![account] = swapAndPop(list, index)]
  BY DEF ExitMarket
<1> DEFINE shorter == swapAndPop(list, index)
           q       == [membership |-> [accountMembership EXCEPT ![m] = @ \ {account}],
                       assets |-> [accountAssets EXCEPT ![account] = shorter]]
<1>2. /\ account \in Holders
      /\ accountMembership \in [Markets -> SUBSET Holders]
      /\ accountAssets \in [Holders -> Seq(Markets)]
      /\ list \in Seq(Markets) /\ noRepetition(list)
  BY AccountsAreHolders DEF IndInv, TypeOK, ComptrollerTypeOK, AssetsMatchMembership,
                            matching, positions
<1>3. /\ shorter \in Seq(Markets) /\ noRepetition(shorter)
      /\ \A k \in Markets : contains(shorter, k) <=> contains(list, k) /\ k # m
  BY <1>1, <1>2, SwapAndPopRemoves
<1>4. /\ accountMembership' = q.membership /\ accountAssets' = q.assets
      /\ UNCHANGED <<ctoken, underlying, block, comptroller, price>>
      /\ borrowBalanceStored(ctoken[m], account) = 0
  BY <1>1 DEF ExitMarket, marketVars
<1> HIDE DEF shorter
<1>5. q \in Positions
  BY <1>2, <1>3 DEF Positions
<1>6. matching(q)
  <2> SUFFICES ASSUME NEW h \in Holders
               PROVE  /\ noRepetition(q.assets[h])
                      /\ \A k \in Markets :
                            h \in q.membership[k] <=> contains(q.assets[h], k)
    BY DEF matching
  <2>1. /\ noRepetition(accountAssets[h])
        /\ \A k \in Markets : h \in accountMembership[k] <=> contains(accountAssets[h], k)
    BY DEF IndInv, AssetsMatchMembership, matching, positions
  <2>2. CASE h = account
    BY <1>2, <1>3, <2>1, <2>2
  <2>3. CASE h # account
    BY <1>2, <2>1, <2>3
  <2>4. QED
    BY <2>2, <2>3
<1>7. ctoken[m].accountBorrows[account].principal = 0
  <2>1. ctoken[m] \in CTokenStorage /\ validSnapshots(ctoken[m])
    BY MarketsSound DEF validMarket
  <2>2. ctoken[m].accountBorrows[account].principal \in Nat
    BY <1>2, <2>1 DEF CTokenStorage, BorrowSnapshot
  <2>3. borrowBalanceStored(ctoken[m], account) >= ctoken[m].accountBorrows[account].principal
    BY <1>2, <2>1, BorrowBalanceBound
  <2>4. QED
    BY <1>4, <2>2, <2>3
<1>8. \A k \in Markets, h \in Holders :
         ctoken[k].accountBorrows[h].principal > 0 => h \in q.membership[k]
  BY <1>2, <1>7 DEF IndInv, BorrowersAreMembers
<1>9. \A k \in Markets : ~isListed(k) => q.membership[k] = {}
  BY <1>2 DEF IndInv, UnlistedIsInert
<1> HIDE DEF q
<1>10. QED
  BY <1>4, <1>5, <1>6, <1>8, <1>9, MatchingPositionsSuffice

\* A configuration keeps the listings, and sets a collateral factor only for a
\* listed market.
LEMMA ConfigurationSuffices ==
  ASSUME IndInv, NEW cNew \in ComptrollerStorage, Configure(cNew), UNCHANGED marketVars,
         cNew.isListed = comptroller.isListed,
         \A m \in Markets : ~isListed(m) =>
            cNew.collateralFactorMantissa[m] = comptroller.collateralFactorMantissa[m]
  PROVE  IndInv'
<1>1. /\ comptroller' = cNew /\ price' = price
      /\ accountMembership' = accountMembership /\ accountAssets' = accountAssets
      /\ ctoken' = ctoken /\ underlying' = underlying /\ block' = block
  BY DEF Configure, marketVars
<1>2. TypeOK'
  BY <1>1 DEF IndInv, TypeOK, ComptrollerTypeOK
<1>3. SnapshotsArePast' /\ TokensAddUp' /\ AssetsMatchMembership' /\ BorrowersAreMembers'
  BY <1>1 DEF IndInv, SnapshotsArePast, TokensAddUp, AssetsMatchMembership, BorrowersAreMembers,
              positions
<1>4. UnlistedIsInert'
  BY <1>1 DEF IndInv, UnlistedIsInert, isListed
<1>5. QED
  BY <1>2, <1>3, <1>4 DEF IndInv

\* Every setter of the Comptroller is a configuration, or new prices.
LEMMA AdminComptrollerStepKeeps ==
  ASSUME IndInv, AdminComptrollerStep
  PROVE  IndInv'
<1> DEFINE c == comptroller
<1>1. c \in ComptrollerStorage /\ UNCHANGED marketVars
  BY DEF IndInv, TypeOK, ComptrollerTypeOK, AdminComptrollerStep
<1>2. CASE \E factor \in CloseFactors : SetCloseFactor(factor)
  <2>1. PICK factor \in CloseFactors : SetCloseFactor(factor)
    BY <1>2
  <2> DEFINE cNew == [c EXCEPT !.closeFactorMantissa = factor]
  <2>2. factor \in Nat
    BY MoneyMarketAssumption
  <2>3. /\ cNew \in ComptrollerStorage /\ cNew.isListed = c.isListed
        /\ cNew.collateralFactorMantissa = c.collateralFactorMantissa
    BY <1>1, <2>2 DEF ComptrollerStorage
  <2>4. QED
    BY <1>1, <2>1, <2>3, ConfigurationSuffices DEF SetCloseFactor
<1>3. CASE \E incentive \in LiquidationIncentives : SetLiquidationIncentive(incentive)
  <2>1. PICK incentive \in LiquidationIncentives : SetLiquidationIncentive(incentive)
    BY <1>3
  <2> DEFINE cNew == [c EXCEPT !.liquidationIncentiveMantissa = incentive]
  <2>2. incentive \in Nat
    BY MoneyMarketAssumption
  <2>3. /\ cNew \in ComptrollerStorage /\ cNew.isListed = c.isListed
        /\ cNew.collateralFactorMantissa = c.collateralFactorMantissa
    BY <1>1, <2>2 DEF ComptrollerStorage
  <2>4. QED
    BY <1>1, <2>1, <2>3, ConfigurationSuffices DEF SetLiquidationIncentive
<1>4. CASE \E m \in Markets, factor \in CollateralFactors : SetCollateralFactor(m, factor)
  <2>1. PICK m \in Markets, factor \in CollateralFactors : SetCollateralFactor(m, factor)
    BY <1>4
  <2> DEFINE cNew == [c EXCEPT !.collateralFactorMantissa[m] = factor]
  <2>2. factor \in 0 .. collateralFactorMaxMantissa /\ isListed(m)
    BY <2>1, MoneyMarketAssumption DEF SetCollateralFactor
  <2>3. [c.collateralFactorMantissa EXCEPT ![m] = factor]
          \in [Markets -> 0 .. collateralFactorMaxMantissa]
    BY <1>1, <2>2 DEF ComptrollerStorage
  <2>4. /\ cNew \in ComptrollerStorage /\ cNew.isListed = c.isListed
        /\ cNew.collateralFactorMantissa = [c.collateralFactorMantissa EXCEPT ![m] = factor]
    BY <1>1, <2>3 DEF ComptrollerStorage
  <2>5. \A k \in Markets : ~isListed(k) =>
           cNew.collateralFactorMantissa[k] = c.collateralFactorMantissa[k]
    BY <2>2, <2>4
  <2>6. QED
    BY <1>1, <2>1, <2>4, <2>5, ConfigurationSuffices DEF SetCollateralFactor
<1>5. CASE \E caller \in Accounts, m \in Markets, cap \in BorrowCaps :
              SetMarketBorrowCap(caller, m, cap)
  <2>1. PICK caller \in Accounts, m \in Markets, cap \in BorrowCaps :
              SetMarketBorrowCap(caller, m, cap)
    BY <1>5
  <2> DEFINE cNew == [c EXCEPT !.borrowCaps[m] = cap]
  <2>2. [c.borrowCaps EXCEPT ![m] = cap] \in [Markets -> Nat]
    BY <1>1, MoneyMarketAssumption DEF ComptrollerStorage
  <2>3. /\ cNew \in ComptrollerStorage /\ cNew.isListed = c.isListed
        /\ cNew.collateralFactorMantissa = c.collateralFactorMantissa
    BY <1>1, <2>2 DEF ComptrollerStorage
  <2>4. QED
    BY <1>1, <2>1, <2>3, ConfigurationSuffices DEF SetMarketBorrowCap
<1>6. CASE \E guardian \in Guardians :
              SetBorrowCapGuardian(guardian) \/ SetPauseGuardian(guardian)
  <2>1. PICK guardian \in Guardians :
              SetBorrowCapGuardian(guardian) \/ SetPauseGuardian(guardian)
    BY <1>6
  <2> DEFINE cCap == [c EXCEPT !.borrowCapGuardian = guardian]
             cPause == [c EXCEPT !.pauseGuardian = guardian]
  <2>2. guardian \in Holders \cup {NoAddress}
    BY MoneyMarketAssumption
  <2>3. /\ cCap \in ComptrollerStorage /\ cCap.isListed = c.isListed
        /\ cCap.collateralFactorMantissa = c.collateralFactorMantissa
        /\ cPause \in ComptrollerStorage /\ cPause.isListed = c.isListed
        /\ cPause.collateralFactorMantissa = c.collateralFactorMantissa
    BY <1>1, <2>2 DEF ComptrollerStorage
  <2>4. Configure(cCap) \/ Configure(cPause)
    BY <2>1 DEF SetBorrowCapGuardian, SetPauseGuardian
  <2> HIDE DEF cCap, cPause
  <2>5. QED
    BY <1>1, <2>3, <2>4, ConfigurationSuffices
<1>7. CASE \E caller \in Pausers, m \in Markets, state \in BOOLEAN :
              \/ "mint" \in Switches /\ SetMintPaused(caller, m, state)
              \/ "borrow" \in Switches /\ SetBorrowPaused(caller, m, state)
              \/ "transfer" \in Switches /\ SetTransferPaused(caller, state)
              \/ "seize" \in Switches /\ SetSeizePaused(caller, state)
  <2>1. PICK caller \in Pausers, m \in Markets, state \in BOOLEAN :
              \/ SetMintPaused(caller, m, state) \/ SetBorrowPaused(caller, m, state)
              \/ SetTransferPaused(caller, state) \/ SetSeizePaused(caller, state)
    BY <1>7
  <2> DEFINE cMint     == [c EXCEPT !.mintGuardianPaused[m] = state]
             cBorrow   == [c EXCEPT !.borrowGuardianPaused[m] = state]
             cTransfer == [c EXCEPT !.transferGuardianPaused = state]
             cSeize    == [c EXCEPT !.seizeGuardianPaused = state]
  <2>2. /\ [c.mintGuardianPaused EXCEPT ![m] = state] \in [Markets -> BOOLEAN]
        /\ [c.borrowGuardianPaused EXCEPT ![m] = state] \in [Markets -> BOOLEAN]
    BY <1>1 DEF ComptrollerStorage
  <2>3. /\ cMint \in ComptrollerStorage /\ cBorrow \in ComptrollerStorage
        /\ cTransfer \in ComptrollerStorage /\ cSeize \in ComptrollerStorage
    BY <1>1, <2>2 DEF ComptrollerStorage
  <2>4. \A cNew \in {cMint, cBorrow, cTransfer, cSeize} :
           /\ cNew.isListed = c.isListed
           /\ cNew.collateralFactorMantissa = c.collateralFactorMantissa
    BY <1>1 DEF ComptrollerStorage
  <2>5. \E cNew \in {cMint, cBorrow, cTransfer, cSeize} : Configure(cNew)
    BY <2>1 DEF SetMintPaused, SetBorrowPaused, SetTransferPaused, SetSeizePaused
  <2> HIDE DEF cMint, cBorrow, cTransfer, cSeize
  <2>6. QED
    BY <1>1, <2>3, <2>4, <2>5, ConfigurationSuffices
<1>8. CASE \E prices \in PriceVectors : SetPrices(prices)
  <2>1. PICK prices \in PriceVectors : SetPrices(prices)
    BY <1>8
  <2>2. /\ price' \in [Markets -> Nat] /\ comptroller' = comptroller
        /\ accountMembership' = accountMembership /\ accountAssets' = accountAssets
        /\ ctoken' = ctoken /\ underlying' = underlying /\ block' = block
    BY <1>1, <2>1, MoneyMarketAssumption DEF SetPrices, marketVars
  <2>3. TypeOK'
    BY <2>2 DEF IndInv, TypeOK, ComptrollerTypeOK
  <2>4. SnapshotsArePast' /\ TokensAddUp' /\ UnlistedIsInert' /\ AssetsMatchMembership'
        /\ BorrowersAreMembers'
    BY <2>2 DEF IndInv, SnapshotsArePast, TokensAddUp, UnlistedIsInert, AssetsMatchMembership,
                BorrowersAreMembers, isListed, positions
  <2>5. QED
    BY <2>3, <2>4 DEF IndInv
<1>9. QED
  BY <1>2, <1>3, <1>4, <1>5, <1>6, <1>7, <1>8 DEF AdminComptrollerStep
-----------------------------------------------------------------------------
(* The invariant *)

\* The state of deploy/ before the first listing
LEMMA InitEstablishes ==
  ASSUME Init
  PROVE  IndInv
<1>1. /\ block = 0 /\ underlying = initialUnderlying /\ price = initialPrices
      /\ comptroller = deployedComptroller(initialCloseFactor, initialLiquidationIncentive)
      /\ accountMembership = [m \in Markets |-> {}]
      /\ accountAssets = [h \in Holders |-> << >>]
  BY DEF Init, ComptrollerInit, NobodyInAnyMarket
<1>2. \A m \in Markets :
         /\ validMarket(ctoken[m], 0)
         /\ ctoken[m].totalSupply = 0 /\ ctoken[m].totalBorrows = 0
         /\ \A h \in Holders : ctoken[m].accountBorrows[h].principal = 0
  <2> TAKE m \in Markets
  <2>1. initialExchangeRate[m] \in Nat \ {0} /\ initialModel[m] \in InterestRateModel
    BY MoneyMarketAssumption
  <2>2. ctoken[m] = initialize(initialExchangeRate[m], initialModel[m], 0)
    BY DEF Init
  <2>3. QED
    BY <2>1, <2>2, InitializeValid
<1>3. ctoken \in [Markets -> CTokenStorage]
  BY <1>2 DEF Init, validMarket
<1>4. TypeOK
  <2>1. comptroller \in ComptrollerStorage
    <3>1. 0 \in 0 .. collateralFactorMaxMantissa
      BY MoneyMarketAssumption
    <3>2. QED
      BY <1>1, <3>1, MoneyMarketAssumption DEF deployedComptroller, ComptrollerStorage
  <2>2. ComptrollerTypeOK
    BY <1>1, <2>1, MoneyMarketAssumption DEF ComptrollerTypeOK
  <2>3. QED
    BY <1>1, <1>3, <2>2, MoneyMarketAssumption DEF TypeOK
<1>5. SnapshotsArePast /\ TokensAddUp
  BY <1>1, <1>2 DEF SnapshotsArePast, TokensAddUp, validMarket
<1>6. UnlistedIsInert
  <2>1. \A m \in Markets : comptroller.collateralFactorMantissa[m] = 0
    BY <1>1 DEF deployedComptroller
  <2>2. QED
    BY <1>1, <1>2, <2>1 DEF UnlistedIsInert
<1>7. AssetsMatchMembership
  BY <1>1 DEF AssetsMatchMembership, matching, noRepetition, contains, positions
<1>8. BorrowersAreMembers
  BY <1>2 DEF BorrowersAreMembers
<1>9. QED
  BY <1>4, <1>5, <1>6, <1>7, <1>8 DEF IndInv

\* What a supplier does keeps the invariant.
LEMMA SupplierStepKeeps ==
  ASSUME IndInv, NEW m \in Markets, NEW a \in Accounts, SupplierStep(m, a)
  PROVE  IndInv'
<1>1. /\ Amounts \subseteq Nat /\ TokenAmounts \subseteq Nat /\ TransferAmounts \subseteq Nat
      /\ Approvals \subseteq Nat /\ Donations \subseteq Nat
  BY MoneyMarketAssumption
<1>2. CASE \E amount \in Amounts : Mint(m, a, amount) \/ RedeemUnderlying(m, a, amount)
  BY <1>1, <1>2, MintKeeps, RedeemUnderlyingKeeps
<1>3. CASE \E tokens \in TokenAmounts : Redeem(m, a, tokens)
  BY <1>1, <1>3, RedeemKeeps
<1>4. CASE \E tokens \in TransferAmounts, src \in Accounts, dst \in Accounts :
              Transfer(m, a, src, dst, tokens)
  BY <1>1, <1>4, TransferKeeps
<1>5. CASE \E amount \in Approvals, spender \in Accounts \ {a} : Approve(m, a, spender, amount)
  BY <1>1, <1>5, ApproveKeeps
<1>6. CASE \E amount \in Donations : Donate(m, a, amount) \/ AddReserves(m, a, amount)
  BY <1>1, <1>6, DonateKeeps, AddReservesKeeps
<1>7. QED
  BY <1>2, <1>3, <1>4, <1>5, <1>6 DEF SupplierStep

\* What a borrower, its payer or its liquidator does keeps the invariant.
LEMMA BorrowerStepKeeps ==
  ASSUME IndInv, NEW m \in Markets, NEW borrower \in Accounts, BorrowerStep(m, borrower)
  PROVE  IndInv'
<1>1. Amounts \subseteq Nat /\ UintMax \in Nat
  BY MoneyMarketAssumption, CTokenAssumption
<1>2. CASE \E amount \in Amounts : Borrow(m, borrower, amount)
  BY <1>1, <1>2, BorrowKeeps
<1>3. CASE \E amount \in Amounts \cup {UintMax}, payer \in Accounts :
              RepayBorrow(m, payer, borrower, amount)
  BY <1>1, <1>3, RepayBorrowKeeps
<1>4. CASE \E amount \in Amounts, liquidator \in Accounts, c \in Markets :
              LiquidateBorrow(m, c, liquidator, borrower, amount)
  BY <1>1, <1>4, LiquidateBorrowKeeps
<1>5. QED
  BY <1>2, <1>3, <1>4 DEF BorrowerStep

\* What the Admin does to a market keeps the invariant.
LEMMA AdminMarketStepKeeps ==
  ASSUME IndInv, NEW m \in Markets, AdminMarketStep(m)
  PROVE  IndInv'
<1>1. /\ Amounts \subseteq Nat /\ ReserveFactors \subseteq Nat /\ ReserveAmounts \subseteq Nat
      /\ RateModels \subseteq InterestRateModel
  BY MoneyMarketAssumption
<1>2. CASE \E value \in Amounts : SupportMarket(m, value)
  BY <1>1, <1>2, SupportMarketKeeps
<1>3. CASE \E factor \in ReserveFactors : SetReserveFactor(m, factor)
  BY <1>1, <1>3, SetReserveFactorKeeps
<1>4. CASE \E amount \in ReserveAmounts : ReduceReserves(m, amount)
  BY <1>1, <1>4, ReduceReservesKeeps
<1>5. CASE \E irm \in RateModels : SetInterestRateModel(m, irm)
  BY <1>1, <1>5, SetInterestRateModelKeeps
<1>6. QED
  BY <1>2, <1>3, <1>4, <1>5 DEF AdminMarketStep

\* Entering and leaving markets keeps the invariant.
LEMMA MembershipStepKeeps ==
  ASSUME IndInv, NEW a \in Accounts, MembershipStep(a)
  PROVE  IndInv'
<1>1. Entered[a] \subseteq Markets
  BY MoneyMarketAssumption
<1>2. CASE /\ \E first, second \in Entered[a] : EnterMarkets(a, first, second)
           /\ UNCHANGED marketVars
  BY <1>1, <1>2, EnterMarketsKeeps
<1>3. CASE (\E m \in Markets : ExitMarket(ctoken, a, m)) /\ UNCHANGED marketVars
  BY <1>3, ExitMarketKeeps
<1>4. QED
  BY <1>2, <1>3 DEF MembershipStep

\* The invariant is inductive: every transaction keeps it.
LEMMA StepKeeps ==
  ASSUME IndInv, [Next]_vars
  PROVE  IndInv'
<1>1. \A m \in Markets : Suppliers[m] \subseteq Accounts /\ Borrowers[m] \subseteq Accounts
  BY MoneyMarketAssumption
<1>2. CASE \E m \in Markets : \E a \in Suppliers[m] : SupplierStep(m, a)
  BY <1>1, <1>2, SupplierStepKeeps
<1>3. CASE \E m \in Markets : \E a \in Borrowers[m] : BorrowerStep(m, a)
  BY <1>1, <1>3, BorrowerStepKeeps
<1>4. CASE \E a \in Accounts : MembershipStep(a)
  BY <1>4, MembershipStepKeeps
<1>5. CASE \E m \in Markets : AccrueInterest(m) \/ AdminMarketStep(m)
  BY <1>5, AccrueInterestKeeps, AdminMarketStepKeeps
<1>6. CASE AdminComptrollerStep
  BY <1>6, AdminComptrollerStepKeeps
<1>7. CASE NextBlock
  BY <1>7, NextBlockKeeps
<1>8. CASE UNCHANGED vars
  BY <1>8 DEF vars, comptrollerVars, IndInv, TypeOK, ComptrollerTypeOK, SnapshotsArePast,
              TokensAddUp, UnlistedIsInert, AssetsMatchMembership, BorrowersAreMembers, isListed,
              positions
<1>9. QED
  BY <1>2, <1>3, <1>4, <1>5, <1>6, <1>7, <1>8 DEF Next

\* What deploy/ may be given: factors within the limits of the setters, and the
\* Ether a CEther is listed with
DeployedWith(collateralFactors, reserveFactors, etherSeed) ==
  /\ collateralFactors \in [Markets -> 0 .. collateralFactorMaxMantissa]
  /\ reserveFactors \in [Markets -> 0 .. reserveFactorMaxMantissa]
  /\ etherSeed \in Amounts \ {0}

\* One market as deploy/ leaves it: a first mint of what arrived of the seed,
\* and its reserve factor
seededMarket(m, seed, reserveFactor) ==
  LET fresh == initialize(initialExchangeRate[m], initialModel[m], 0)
  IN  [mintFresh(fresh, ComptrollerAddress, received(m, seed))
          EXCEPT !.reserveFactorMantissa = reserveFactor]

firstSeed(m, etherSeed) ==
  IF m \in EtherMarkets THEN etherSeed
  ELSE seedAmount(initialize(initialExchangeRate[m], initialModel[m], 0))

LEMMA FirstSeedNat ==
  ASSUME NEW cf, NEW rf, NEW etherSeed, DeployedWith(cf, rf, etherSeed), NEW m \in Markets
  PROVE  firstSeed(m, etherSeed) \in Nat
<1>1. etherSeed \in Nat
  BY MoneyMarketAssumption DEF DeployedWith
<1>2. initialExchangeRate[m] \in Nat \ {0} /\ initialModel[m] \in InterestRateModel
  BY MoneyMarketAssumption
<1> DEFINE s == initialize(initialExchangeRate[m], initialModel[m], 0)
<1>3. s \in CTokenStorage /\ s.totalSupply = 0
  BY <1>2, InitializeValid DEF validMarket
<1> HIDE DEF s
<1>4. seedAmount(s) \in Nat
  BY <1>3, SeedAmountNat DEF exchangeRateDefined
<1> QED  BY <1>1, <1>4 DEF firstSeed, s

LEMMA SeededMarketValid ==
  ASSUME NEW m \in Markets, NEW seed \in Nat, NEW factor \in 0 .. reserveFactorMaxMantissa
  PROVE  LET t == seededMarket(m, seed, factor)
         IN  /\ validMarket(t, 0)
             /\ \A h \in Holders : t.accountBorrows[h].principal = 0
<1> DEFINE fresh == initialize(initialExchangeRate[m], initialModel[m], 0)
           x == received(m, seed)
           u == mintFresh(fresh, ComptrollerAddress, x)
           t == [u EXCEPT !.reserveFactorMantissa = factor]
<1>1. initialExchangeRate[m] \in Nat \ {0} /\ initialModel[m] \in InterestRateModel
  BY MoneyMarketAssumption
<1>2. /\ validMarket(fresh, 0) /\ fresh.totalSupply = 0
      /\ fresh.initialExchangeRateMantissa = initialExchangeRate[m]
      /\ \A h \in Holders : fresh.accountBorrows[h].principal = 0
  BY <1>1, InitializeValid DEF initialize
<1>3. x \in Nat /\ ComptrollerAddress \in Holders
  BY ReceivedNat, MoneyMarketAssumption
<1> HIDE DEF fresh, x
<1>4. exchangeRateDefined(fresh) /\ exchangeRateStored(fresh) # 0
  BY <1>1, <1>2 DEF exchangeRateDefined, exchangeRateStored
<1>5. 0 \in Nat
  OBVIOUS
<1>6. validMarket(u, 0) /\ u.accountBorrows = fresh.accountBorrows
  BY <1>2, <1>3, <1>4, <1>5, MintValid
<1> HIDE DEF u
<1>7. /\ t \in CTokenStorage /\ t.accrualBlockNumber = u.accrualBlockNumber
      /\ t.accountBorrows = u.accountBorrows /\ t.borrowIndex = u.borrowIndex
      /\ t.totalSupply = u.totalSupply /\ t.accountTokens = u.accountTokens
  BY <1>6 DEF validMarket, CTokenStorage
<1> HIDE DEF t
<1>8. validMarket(t, 0) /\ \A h \in Holders : t.accountBorrows[h].principal = 0
  BY <1>2, <1>6, <1>7 DEF validMarket, validSnapshots, tokensAddUp
<1> QED  BY <1>8 DEF t, u, x, fresh, seededMarket

\* Where deploy/ leaves the protocol, the invariant holds too.
LEMMA DeployedEstablishes ==
  ASSUME NEW cf, NEW rf, NEW seed, DeployedWith(cf, rf, seed), DeployedInit(cf, rf, seed)
  PROVE  IndInv
<1>1. /\ block = 0 /\ underlying = initialUnderlying /\ price = initialPrices
      /\ comptroller = [deployedComptroller(initialCloseFactor, initialLiquidationIncentive)
                           EXCEPT !.isListed = [m \in Markets |-> TRUE],
                                  !.collateralFactorMantissa = cf]
      /\ accountMembership = [m \in Markets |-> {}]
      /\ accountAssets = [h \in Holders |-> << >>]
  BY DEF DeployedInit, NobodyInAnyMarket
<1>2. ctoken = [m \in Markets |-> seededMarket(m, firstSeed(m, seed), rf[m])]
  BY DEF DeployedInit, seededMarket, firstSeed
<1>3. \A m \in Markets :
         /\ validMarket(ctoken[m], 0)
         /\ \A h \in Holders : ctoken[m].accountBorrows[h].principal = 0
  <2> SUFFICES ASSUME NEW m \in Markets
               PROVE  /\ validMarket(ctoken[m], 0)
                      /\ \A h \in Holders : ctoken[m].accountBorrows[h].principal = 0
    OBVIOUS
  <2>1. rf[m] \in 0 .. reserveFactorMaxMantissa
    BY DEF DeployedWith
  <2>2. firstSeed(m, seed) \in Nat
    BY FirstSeedNat
  <2>3. LET t == seededMarket(m, firstSeed(m, seed), rf[m])
        IN  /\ validMarket(t, 0)
            /\ \A h \in Holders : t.accountBorrows[h].principal = 0
    BY <2>1, <2>2, SeededMarketValid
  <2> QED  BY <1>2, <2>3
<1>4. TypeOK
  <2>1. comptroller \in ComptrollerStorage
    <3>1. cf \in [Markets -> 0 .. collateralFactorMaxMantissa]
      BY DEF DeployedWith
    <3>2. QED
      BY <1>1, <3>1, MoneyMarketAssumption DEF deployedComptroller, ComptrollerStorage
  <2>2. ComptrollerTypeOK
    BY <1>1, <2>1, MoneyMarketAssumption DEF ComptrollerTypeOK
  <2>3. ctoken \in [Markets -> CTokenStorage]
    BY <1>2, <1>3 DEF validMarket
  <2>4. QED
    BY <1>1, <2>2, <2>3, MoneyMarketAssumption DEF TypeOK
<1>5. SnapshotsArePast /\ TokensAddUp
  BY <1>1, <1>3 DEF SnapshotsArePast, TokensAddUp, validMarket
<1>6. UnlistedIsInert
  <2>1. \A m \in Markets : comptroller.isListed[m]
    BY <1>1 DEF deployedComptroller
  <2>2. QED
    BY <2>1 DEF UnlistedIsInert, isListed
<1>7. AssetsMatchMembership
  BY <1>1 DEF AssetsMatchMembership, matching, noRepetition, contains, positions
<1>8. BorrowersAreMembers
  BY <1>3 DEF BorrowersAreMembers
<1>9. QED
  BY <1>4, <1>5, <1>6, <1>7, <1>8 DEF IndInv

\* From any of its states on, the invariant holds.
LEMMA InvarianceFrom == IndInv /\ [][Next]_vars => []IndInv
<1>1. IndInv /\ [Next]_vars => IndInv'
  BY StepKeeps
<1>2. QED
  BY <1>1, PTL

\* The inductive invariant holds in every reachable state of the protocol.
THEOREM Invariance == Spec => []IndInv
<1>1. Init => IndInv
  BY InitEstablishes
<1>2. QED
  BY <1>1, InvarianceFrom, PTL DEF Spec

\* No checked subtraction that is a guard's job underflows: every balance,
\* total, index and rate stays a natural, for every scale, price and fee.
THEOREM TypeCorrect == Spec => []TypeOK
<1>1. IndInv => TypeOK
  BY DEF IndInv
<1>2. QED
  BY <1>1, Invariance, PTL

\* An account that owes in a market is a member of it, so that the debt counts
\* in its liquidity: borrow joins the market, and exitMarket's reading of a
\* balance of zero is a principal of zero.
THEOREM DebtorsStayMembers == Spec => []BorrowersAreMembers
<1>1. IndInv => BorrowersAreMembers
  BY DEF IndInv
<1>2. QED
  BY <1>1, Invariance, PTL

\* The list of an account's assets is its membership, without repetition, after
\* any sequence of enterMarkets, borrow and exitMarket.
THEOREM AssetsFaithful == Spec => []AssetsMatchMembership
<1>1. IndInv => AssetsMatchMembership
  BY DEF IndInv
<1>2. QED
  BY <1>1, Invariance, PTL

\* A market the Admin has not listed has no supply, no borrows, no members and
\* no collateral factor.
THEOREM UnlistedStaysInert == Spec => []UnlistedIsInert
<1>1. IndInv => UnlistedIsInert
  BY DEF IndInv
<1>2. QED
  BY <1>1, Invariance, PTL

\* The cTokens of all accounts are the supply, after any sequence of mints,
\* redemptions, transfers, seizures and listings: none is created or lost.
THEOREM TokensStayAddedUp == Spec => []TokensAddUp
<1>1. IndInv => TokensAddUp
  BY DEF IndInv
<1>2. QED
  BY <1>1, Invariance, PTL

\* A debt never reads as less than its principal in any reachable state, as
\* its snapshot of the interest index is one the market has passed.
THEOREM SnapshotsStayPast == Spec => []SnapshotsArePast
<1>1. IndInv => SnapshotsArePast
  BY DEF IndInv
<1>2. QED
  BY <1>1, Invariance, PTL

-----------------------------------------------------------------------------
(* What a transaction does to one market, as far as its tokens, its debts  *)
(* and its pool are concerned.                                             *)

\* The state of market m that an operation works on
Start(m, s) == s = ctoken[m] \/ (canAccrue(ctoken[m], block) /\ s = accrued(m))

\* A debt in s is repaid with what arrives.
repaidTo(s, t) ==
  \E borrower \in Accounts, x \in Nat :
     /\ x <= borrowBalanceStored(s, borrower)
     /\ debtSettled(s, t, borrower, borrowBalanceStored(s, borrower) - x)
     /\ t.cash = s.cash + x

\* No tokens move, no debt is settled and the pool does not shrink.
Quieting(m) == \E s \in CTokenStorage : Start(m, s) /\ quiet(s, ctoken'[m])

\* mint of an amount that arrived
Minting(m) ==
  \E s \in CTokenStorage, minter \in Accounts, x \in Nat :
     /\ Start(m, s) /\ isListed(m) /\ ~comptroller.mintGuardianPaused[m]
     /\ exchangeRateDefined(s) /\ exchangeRateStored(s) # 0
     /\ tokensMinted(s, ctoken'[m], minter, div_Exp(x, exchangeRateStored(s)), x)

\* redeem, which rounds the amount down, and redeemUnderlying, which rounds
\* the tokens down
Redeeming(m) ==
  \E s \in CTokenStorage, redeemer \in Accounts, n \in Nat, x \in Nat :
     /\ Start(m, s) /\ isListed(m) /\ exchangeRateDefined(s)
     /\ tokensRedeemed(s, ctoken'[m], redeemer, n, x)
     /\ \/ /\ x * expScale <= exchangeRateStored(s) * n
           /\ \E tokens \in TokenAmounts : Redeem(m, redeemer, tokens)
        \/ /\ x * expScale < (n + 1) * exchangeRateStored(s)
           /\ \E amount \in Amounts : RedeemUnderlying(m, redeemer, amount)

\* transfer and transferFrom
Transferring(m) ==
  \E spender \in Accounts, src \in Accounts, dst \in Accounts, n \in TransferAmounts :
     /\ isListed(m) /\ ~comptroller.transferGuardianPaused
     /\ Transfer(m, spender, src, dst, n)
     /\ tokensMoved(ctoken[m], ctoken'[m], src, dst, n)

\* borrow
Borrowing(m) ==
  \E borrower \in Accounts, x \in Nat :
     /\ canAccrue(ctoken[m], block) /\ isListed(m) /\ ~comptroller.borrowGuardianPaused[m]
     /\ debtSettled(accrued(m), ctoken'[m], borrower,
                    borrowBalanceStored(accrued(m), borrower) + x)

\* A repayment, of one's own debt, another's, or a liquidated one
Repaying(m) ==
  canAccrue(ctoken[m], block) /\ isListed(m) /\ repaidTo(accrued(m), ctoken'[m])

\* A seizure, in the market of the repayment or in another
Seizing(m) ==
  \E r \in CTokenStorage, borrower \in Accounts, liquidator \in Accounts,
     n \in Nat, p \in Nat, x \in Nat :
     /\ canAccrue(ctoken[m], block) /\ isListed(m) /\ ~comptroller.seizeGuardianPaused
     /\ r = accrued(m) \/ repaidTo(accrued(m), r)
     /\ exchangeRateDefined(r) /\ x * expScale <= exchangeRateStored(r) * p
     /\ tokensSeized(r, ctoken'[m], borrower, liquidator, n, p, x)
     /\ \E c \in Markets : ctoken[c].accountBorrows[borrower].principal # 0

\* The amounts a market may be listed with
Seed(m, x) ==
  \/ m \in EtherMarkets /\ \E value \in Amounts : value > 0 /\ x = received(m, value)
  \/ m \notin EtherMarkets /\ x = received(m, seedAmount(ctoken[m]))

\* The listing of a market, with its first mint
Seeding(m) ==
  \E s \in CTokenStorage, x \in Nat :
     /\ Start(m, s) /\ ~isListed(m) /\ ~comptroller.mintGuardianPaused[m]
     /\ Seed(m, x)
     /\ tokensMinted(s, ctoken'[m], ComptrollerAddress, div_Exp(x, exchangeRateStored(s)), x)

\* No listing
StaysListed(m) == comptroller'.isListed[m] = comptroller.isListed[m]

\* All that a transaction does to market m
Effect(m) ==
  \/ Seeding(m)
  \/ /\ StaysListed(m)
     /\ \/ Quieting(m) \/ Minting(m) \/ Redeeming(m) \/ Transferring(m)
        \/ Borrowing(m) \/ Repaying(m) \/ Seizing(m)

\* The state an operation works on is the market, perhaps with interest.
LEMMA StartAges ==
  ASSUME IndInv, NEW m \in Markets, NEW s, Start(m, s)
  PROVE  /\ s \in CTokenStorage /\ validMarket(s, block) /\ aged(ctoken[m], s)
         /\ s.totalSupply = ctoken[m].totalSupply
<1>1. block \in Nat /\ validMarket(ctoken[m], block) /\ ctoken[m] \in CTokenStorage
  BY MarketsSound DEF IndInv, TypeOK
<1>2. aged(ctoken[m], ctoken[m])
  BY <1>1, PoolInt DEF aged
<1>3. canAccrue(ctoken[m], block) => aged(ctoken[m], accrued(m))
  BY <1>1, AccrueAges DEF accrued
<1> QED  BY <1>1, <1>2, <1>3, AccruedSound DEF Start, aged

\* accrued(m) is such a state.
LEMMA StartAccrued ==
  ASSUME IndInv, NEW m \in Markets, canAccrue(ctoken[m], block)
  PROVE  Start(m, accrued(m)) /\ accrued(m) \in CTokenStorage /\ validMarket(accrued(m), block)
BY AccruedSound DEF Start

\* A market that nobody touches is quiet.
LEMMA UntouchedQuiet ==
  ASSUME IndInv, NEW k \in Markets, ctoken'[k] = ctoken[k]
  PROVE  Quieting(k)
<1>1. ctoken[k] \in CTokenStorage
  BY MarketsSound
<1>2. quiet(ctoken[k], ctoken[k])
  BY <1>1, QuietEffects
<1> QED  BY <1>1, <1>2 DEF Quieting, Start

\* A transaction of one market leaves the others quiet.
LEMMA OneMarketChanges ==
  ASSUME IndInv, NEW m \in Markets, NEW t, ctoken' = [ctoken EXCEPT ![m] = t],
         \A k \in Markets \ {m} : StaysListed(k), ctoken'[m] = t => Effect(m)
  PROVE  \A k \in Markets : Effect(k)
<1>1. ctoken \in [Markets -> CTokenStorage]
  BY DEF IndInv, TypeOK
<1>2. ctoken'[m] = t /\ \A k \in Markets \ {m} : ctoken'[k] = ctoken[k]
  BY <1>1
<1>3. \A k \in Markets \ {m} : Quieting(k)
  BY <1>2, UntouchedQuiet
<1> QED  BY <1>2, <1>3 DEF Effect

\* No hook but the listing lists a market.
LEMMA SameComptroller ==
  ASSUME UNCHANGED comptroller
  PROVE  \A k \in Markets : StaysListed(k)
BY DEF StaysListed
-----------------------------------------------------------------------------
(* One lemma per action: its effect. *)

\* accrueInterest
LEMMA AccrueInterestEffect ==
  ASSUME IndInv, NEW m \in Markets, AccrueInterest(m)
  PROVE  \A k \in Markets : Effect(k)
<1>1. canAccrue(ctoken[m], block) /\ ctoken' = [ctoken EXCEPT ![m] = accrued(m)]
      /\ UNCHANGED comptroller
  BY DEF AccrueInterest, withAccrued, comptrollerVars
<1>2. Start(m, accrued(m)) /\ accrued(m) \in CTokenStorage
  BY <1>1, StartAccrued
<1>3. quiet(accrued(m), accrued(m))
  BY <1>2, QuietEffects
<1>4. ctoken'[m] = accrued(m) => Effect(m)
  BY <1>1, <1>2, <1>3, SameComptroller DEF Effect, Quieting
<1> QED  BY <1>1, <1>4, OneMarketChanges, SameComptroller

\* mint
LEMMA MintingEffect ==
  ASSUME IndInv, NEW m \in Markets, NEW minter \in Accounts, NEW amount \in Nat,
         Mint(m, minter, amount)
  PROVE  \A k \in Markets : Effect(k)
<1> DEFINE s == accrued(m)
           x == received(m, amount)
           t == mintFresh(s, minter, x)
<1>1. /\ canAccrue(ctoken[m], block) /\ ctoken' = [ctoken EXCEPT ![m] = t] /\ UNCHANGED comptroller
      /\ isListed(m) /\ ~comptroller.mintGuardianPaused[m]
      /\ exchangeRateDefined(s) /\ exchangeRateStored(s) # 0
  BY DEF Mint, mintAllowed, comptrollerVars
<1>2. x \in Nat /\ minter \in Holders
  BY ReceivedNat, AccountsAreHolders
<1>3. Start(m, s) /\ s \in CTokenStorage
  BY <1>1, StartAccrued
<1> HIDE DEF s, x
<1>4. tokensMinted(s, t, minter, div_Exp(x, exchangeRateStored(s)), x)
  BY <1>2, <1>3, MintEffect
<1> HIDE DEF t
<1>5. ctoken'[m] = t => Effect(m)
  BY <1>1, <1>2, <1>3, <1>4, SameComptroller DEF Effect, Minting
<1> QED  BY <1>1, <1>5, OneMarketChanges, SameComptroller

\* redeem
LEMMA RedeemingEffect ==
  ASSUME IndInv, NEW m \in Markets, NEW redeemer \in Accounts, NEW tokens \in TokenAmounts,
         Redeem(m, redeemer, tokens)
  PROVE  \A k \in Markets : Effect(k)
<1> DEFINE s == accrued(m)
           r == exchangeRateStored(s)
           x == mul_ScalarTruncate(r, tokens)
           t == redeemFresh(s, redeemer, tokens, x)
<1>0. tokens \in Nat /\ redeemer \in Holders /\ expScale \in Nat /\ expScale # 0
  BY MoneyMarketAssumption, AccountsAreHolders, ExpScaleAssumption
<1>1. /\ canAccrue(ctoken[m], block) /\ exchangeRateDefined(s)
      /\ ctoken' = [ctoken EXCEPT ![m] = t] /\ UNCHANGED comptroller
      /\ isListed(m) /\ s.accountTokens[redeemer] >= tokens
  BY DEF Redeem, RedeemFresh, redeemAllowedInternal, comptrollerVars
<1>3. Start(m, s) /\ s \in CTokenStorage
  BY <1>1, StartAccrued
<1>4. r \in Nat
  BY <1>1, <1>3, ExchangeRateNat
<1> HIDE DEF r
<1>5. x \in Nat /\ x * expScale <= r * tokens
  <2>1. r * tokens \in Nat
    BY <1>0, <1>4, ProductNat
  <2>2. x = (r * tokens) \div expScale
    BY DEF mul_ScalarTruncate, truncate
  <2> QED  BY <1>0, <2>1, <2>2, QuotientBounds
<1> HIDE DEF s, x
<1>6. tokens <= s.accountTokens[redeemer]
  <2>1. s.accountTokens[redeemer] \in Nat
    BY <1>0, <1>3 DEF CTokenStorage
  <2> QED  BY <1>0, <1>1, <2>1
<1>7. tokensRedeemed(s, t, redeemer, tokens, x)
  BY <1>0, <1>3, <1>5, <1>6, RedeemEffect
<1> HIDE DEF t
<1>8. ASSUME ctoken'[m] = t PROVE Effect(m)
  <2>1. x * expScale <= exchangeRateStored(s) * tokens
    BY <1>5 DEF r
  <2> QED  BY <1>0, <1>1, <1>3, <1>5, <1>7, <1>8, <2>1, SameComptroller DEF Effect, Redeeming
<1> QED  BY <1>1, <1>8, OneMarketChanges, SameComptroller

\* redeemUnderlying
LEMMA RedeemingUnderlyingEffect ==
  ASSUME IndInv, NEW m \in Markets, NEW redeemer \in Accounts, NEW amount \in Amounts,
         RedeemUnderlying(m, redeemer, amount)
  PROVE  \A k \in Markets : Effect(k)
<1> DEFINE s == accrued(m)
           r == exchangeRateStored(s)
           n == div_Exp(amount, r)
           t == redeemFresh(s, redeemer, n, amount)
<1>0. amount \in Nat /\ redeemer \in Holders /\ expScale \in Nat /\ expScale # 0
  BY MoneyMarketAssumption, AccountsAreHolders, ExpScaleAssumption
<1>1. /\ canAccrue(ctoken[m], block) /\ exchangeRateDefined(s) /\ r # 0
      /\ ctoken' = [ctoken EXCEPT ![m] = t] /\ UNCHANGED comptroller
      /\ isListed(m) /\ s.accountTokens[redeemer] >= n
  BY DEF RedeemUnderlying, RedeemFresh, redeemAllowedInternal, comptrollerVars
<1>3. Start(m, s) /\ s \in CTokenStorage
  BY <1>1, StartAccrued
<1>4. r \in Nat
  BY <1>1, <1>3, ExchangeRateNat
<1> HIDE DEF r
<1>5. n \in Nat /\ amount * expScale < (n + 1) * r
  <2>1. amount * expScale \in Nat
    BY <1>0, ProductNat
  <2>2. n = (amount * expScale) \div r
    BY DEF div_Exp
  <2> QED  BY <1>1, <1>4, <2>1, <2>2, QuotientBounds
<1> HIDE DEF s, n
<1>6. n <= s.accountTokens[redeemer]
  <2>1. s.accountTokens[redeemer] \in Nat
    BY <1>0, <1>3 DEF CTokenStorage
  <2> QED  BY <1>5, <1>1, <2>1
<1>7. tokensRedeemed(s, t, redeemer, n, amount)
  BY <1>0, <1>3, <1>5, <1>6, RedeemEffect
<1> HIDE DEF t
<1>8. ASSUME ctoken'[m] = t PROVE Effect(m)
  <2>1. amount * expScale < (n + 1) * exchangeRateStored(s)
    BY <1>5 DEF r
  <2> QED  BY <1>0, <1>1, <1>3, <1>5, <1>7, <1>8, <2>1, SameComptroller DEF Effect, Redeeming
<1> QED  BY <1>1, <1>8, OneMarketChanges, SameComptroller

\* transfer and transferFrom
LEMMA TransferringEffect ==
  ASSUME IndInv, NEW m \in Markets, NEW spender \in Accounts, NEW src \in Accounts,
         NEW dst \in Accounts, NEW tokens \in TransferAmounts, Transfer(m, spender, src, dst, tokens)
  PROVE  \A k \in Markets : Effect(k)
<1> DEFINE s == ctoken[m]
           t == transferTokens(s, spender, src, dst, tokens)
<1>0. tokens \in Nat /\ spender \in Holders /\ src \in Holders /\ dst \in Holders
  BY MoneyMarketAssumption, AccountsAreHolders
<1>1. /\ ctoken' = [ctoken EXCEPT ![m] = t] /\ UNCHANGED comptroller
      /\ isListed(m) /\ ~comptroller.transferGuardianPaused
      /\ src # dst /\ s.accountTokens[src] >= tokens
  BY DEF Transfer, transferAllowed, redeemAllowedInternal, comptrollerVars
<1>2. s \in CTokenStorage
  BY MarketsSound
<1>3. tokens <= s.accountTokens[src]
  <2>1. s.accountTokens[src] \in Nat
    BY <1>0, <1>2 DEF CTokenStorage
  <2> QED  BY <1>0, <1>1, <2>1
<1>4. tokensMoved(s, t, src, dst, tokens)
  BY <1>0, <1>1, <1>2, <1>3, TransferEffect
<1> HIDE DEF t
<1>5. ctoken'[m] = t => Effect(m)
  BY <1>1, <1>4, SameComptroller DEF Effect, Transferring
<1> QED  BY <1>1, <1>5, OneMarketChanges, SameComptroller

\* borrow
LEMMA BorrowingEffect ==
  ASSUME IndInv, NEW m \in Markets, NEW borrower \in Accounts, NEW amount \in Nat,
         Borrow(m, borrower, amount)
  PROVE  \A k \in Markets : Effect(k)
<1> DEFINE s == accrued(m)
           t == borrowFresh(s, borrower, amount)
<1>0. borrower \in Holders
  BY AccountsAreHolders
<1>1. /\ canAccrue(ctoken[m], block) /\ ctoken' = [ctoken EXCEPT ![m] = t] /\ UNCHANGED comptroller
      /\ isListed(m) /\ ~comptroller.borrowGuardianPaused[m]
  BY DEF Borrow, borrowAllowed
<1>2. s \in CTokenStorage /\ validSnapshots(s)
  BY <1>1, StartAccrued DEF validMarket
<1>3. debtSettled(s, t, borrower, borrowBalanceStored(s, borrower) + amount)
  BY <1>0, <1>2, BorrowEffect
<1> HIDE DEF t
<1>4. ctoken'[m] = t => Effect(m)
  BY <1>1, <1>3, SameComptroller DEF Effect, Borrowing
<1> QED  BY <1>1, <1>4, OneMarketChanges, SameComptroller

\* repayBorrow and repayBorrowBehalf
LEMMA RepayingEffect ==
  ASSUME IndInv, NEW m \in Markets, NEW payer \in Accounts, NEW borrower \in Accounts,
         NEW amount \in Nat, RepayBorrow(m, payer, borrower, amount)
  PROVE  \A k \in Markets : Effect(k)
<1> DEFINE s     == accrued(m)
           final == IF amount = UintMax /\ m \notin EtherMarkets
                    THEN borrowBalanceStored(s, borrower) ELSE amount
           x     == received(m, final)
           t     == repayBorrowFresh(s, borrower, x)
<1>0. borrower \in Holders
  BY AccountsAreHolders
<1>1. /\ canAccrue(ctoken[m], block) /\ ctoken' = [ctoken EXCEPT ![m] = t] /\ UNCHANGED comptroller
      /\ isListed(m) /\ canRepay(s, borrower, x)
  BY DEF RepayBorrow, repayBorrowAllowed, comptrollerVars
<1>2. s \in CTokenStorage /\ validSnapshots(s)
  BY <1>1, StartAccrued DEF validMarket
<1>3. x \in Nat
  <2>1. final \in Nat
    BY <1>0, <1>2, BorrowBalanceBound
  <2> QED  BY <2>1, ReceivedNat
<1> HIDE DEF x
<1>4. /\ debtSettled(s, t, borrower, borrowBalanceStored(s, borrower) - x)
      /\ t.cash = s.cash + x
  BY <1>0, <1>2, <1>3, RepayEffect
<1> HIDE DEF t
<1>5. ctoken'[m] = t => Effect(m)
  BY <1>1, <1>3, <1>4, SameComptroller DEF Effect, Repaying, repaidTo, canRepay
<1> QED  BY <1>1, <1>5, OneMarketChanges, SameComptroller

\* approve and the plain transfer of underlying work on the stored market.
LEMMA QuietTransaction ==
  ASSUME IndInv, NEW m \in Markets, NEW s \in CTokenStorage, Start(m, s), NEW t, quiet(s, t),
         ctoken' = [ctoken EXCEPT ![m] = t], UNCHANGED comptroller
  PROVE  \A k \in Markets : Effect(k)
<1>1. ctoken'[m] = t => Effect(m)
  BY SameComptroller DEF Effect, Quieting
<1> QED  BY <1>1, OneMarketChanges, SameComptroller

\* approve
LEMMA ApproveEffect ==
  ASSUME IndInv, NEW m \in Markets, NEW src, NEW spender, NEW amount, Approve(m, src, spender, amount)
  PROVE  \A k \in Markets : Effect(k)
<1> DEFINE t == [ctoken[m] EXCEPT !.transferAllowances[src][spender] = amount]
<1>1. ctoken' = [ctoken EXCEPT ![m] = t] /\ UNCHANGED comptroller
  BY DEF Approve, comptrollerVars
<1>2. Start(m, ctoken[m]) /\ ctoken[m] \in CTokenStorage
  BY MarketsSound DEF Start
<1>3. quiet(ctoken[m], t)
  BY <1>2, QuietEffects
<1> HIDE DEF t
<1> QED  BY <1>1, <1>2, <1>3, QuietTransaction

\* a donation
LEMMA DonateEffect ==
  ASSUME IndInv, NEW m \in Markets, NEW from, NEW amount \in Nat, Donate(m, from, amount)
  PROVE  \A k \in Markets : Effect(k)
<1> DEFINE x == received(m, amount)
           t == [ctoken[m] EXCEPT !.cash = @ + x]
<1>1. ctoken' = [ctoken EXCEPT ![m] = t] /\ UNCHANGED comptroller
  BY DEF Donate, comptrollerVars
<1>2. Start(m, ctoken[m]) /\ ctoken[m] \in CTokenStorage /\ x \in Nat
  BY MarketsSound, ReceivedNat DEF Start
<1> HIDE DEF x
<1>3. quiet(ctoken[m], t)
  BY <1>2, QuietEffects
<1> HIDE DEF t
<1> QED  BY <1>1, <1>2, <1>3, QuietTransaction

\* _addReserves, _reduceReserves, _setReserveFactor and _setInterestRateModel
LEMMA AdminEffect ==
  ASSUME IndInv, NEW m \in Markets, NEW payer, NEW amount \in Nat, NEW irm,
         \/ AddReserves(m, payer, amount) \/ ReduceReserves(m, amount)
         \/ SetReserveFactor(m, amount) \/ SetInterestRateModel(m, irm)
  PROVE  \A k \in Markets : Effect(k)
<1> DEFINE s == accrued(m)
           x == received(m, amount)
           added    == addReservesFresh(s, x)
           reduced  == reduceReservesFresh(s, amount)
           factored == [s EXCEPT !.reserveFactorMantissa = amount]
           modelled == [s EXCEPT !.interestRateModel = irm]
<1>1. /\ canAccrue(ctoken[m], block) /\ UNCHANGED comptroller
      /\ \/ ctoken' = [ctoken EXCEPT ![m] = added] \/ ctoken' = [ctoken EXCEPT ![m] = reduced]
         \/ ctoken' = [ctoken EXCEPT ![m] = factored] \/ ctoken' = [ctoken EXCEPT ![m] = modelled]
  BY DEF AddReserves, ReduceReserves, SetReserveFactor, SetInterestRateModel, comptrollerVars
<1>2. Start(m, s) /\ s \in CTokenStorage /\ x \in Nat
  BY <1>1, StartAccrued, ReceivedNat
<1> HIDE DEF s, x
<1>3. quiet(s, added)
  BY <1>2, QuietEffects
<1>4. quiet(s, reduced) /\ quiet(s, factored) /\ quiet(s, modelled)
  BY <1>2, QuietEffects
<1> HIDE DEF added, reduced, factored, modelled
<1> QED  BY <1>1, <1>2, <1>3, <1>4, QuietTransaction

\* A debt that is taken over by a liquidator is one.
LEMMA LiquidatedOwes ==
  ASSUME IndInv, NEW m \in Markets, NEW c \in Markets, NEW borrower \in Holders, NEW amount \in Nat,
         amount # 0, NEW ct, NEW value,
         ct[m].accountBorrows = accrued(m).accountBorrows, ct[m].borrowIndex = accrued(m).borrowIndex,
         canAccrue(ctoken[m], block), liquidateBorrowAllowed(ct, m, c, borrower, amount)
  PROVE  ctoken[m].accountBorrows[borrower].principal # 0
<1> SUFFICES ASSUME ctoken[m].accountBorrows[borrower].principal = 0
             PROVE  FALSE
  OBVIOUS
<1>1. accrued(m).accountBorrows = ctoken[m].accountBorrows
  BY AccruedSound
<1>2. borrowBalanceStored(ct[m], borrower) = 0
  BY <1>1 DEF borrowBalanceStored
<1>3. amount <= 0 \/ amount <= mul_ScalarTruncate(comptroller.closeFactorMantissa, 0)
  BY <1>2 DEF liquidateBorrowAllowed
<1>4. mul_ScalarTruncate(comptroller.closeFactorMantissa, 0) = 0
  <2>1. comptroller.closeFactorMantissa \in Nat
    BY DEF IndInv, TypeOK, ComptrollerTypeOK, ComptrollerStorage
  <2>2. comptroller.closeFactorMantissa * 0 = 0
    BY <2>1
  <2>3. expScale \in Nat /\ expScale # 0 /\ 0 \div expScale = 0
    BY ExpScaleAssumption
  <2> QED  BY <2>2, <2>3 DEF mul_ScalarTruncate, truncate
<1> QED  BY <1>3, <1>4

\* The rate of a seizure is at most the market's.
LEMMA SeizeRateBound ==
  ASSUME NEW ct, NEW m \in Markets, NEW c \in Markets, ct[c] \in CTokenStorage, pool(ct[c]) \in Nat,
         ct[c].totalSupply # 0,
         exchangeRateDefined(ct[c]), NEW value \in Nat, seizeRateDefined(ct, m, c, value)
  PROVE  seizeRate(ct, m, c, value) <= exchangeRateStored(ct[c])
<1> DEFINE s == ct[c]
           t == [s EXCEPT !.cash = @ - value]
<1>1. exchangeRateStored(s) \in Nat
  BY RateBounds
<1>2. CASE c = m /\ c \in EtherMarkets
  <2>1. seizeRate(ct, m, c, value) = exchangeRateStored(t)
    BY <1>2 DEF seizeRate
  <2>2. /\ t.cash = s.cash - value /\ t.totalBorrows = s.totalBorrows
        /\ t.totalReserves = s.totalReserves /\ t.totalSupply = s.totalSupply
    BY DEF CTokenStorage
  <2>3. s.cash + s.totalBorrows >= s.totalReserves + value
    BY <1>2 DEF seizeRateDefined
  <2>4. /\ s.cash \in Nat /\ s.totalBorrows \in Nat /\ s.totalReserves \in Nat /\ s.totalSupply \in Nat
        /\ s.totalSupply # 0 /\ expScale \in Nat /\ pool(s) \in Nat
        /\ pool(s) = s.cash + s.totalBorrows - s.totalReserves
    BY PoolInt, ExpScaleAssumption
  <2> HIDE DEF s, t
  <2>5. pool(t) = pool(s) - value /\ pool(t) \in Nat
    <3>1. pool(t) = s.cash - value + s.totalBorrows - s.totalReserves
      BY <2>2 DEF pool, cashPlusBorrowsMinusReserves
    <3> QED  BY <2>3, <2>4, <3>1
  <2> DEFINE a == pool(t) * expScale
             b == pool(s) * expScale
  <2>6. a \in Nat /\ b \in Nat /\ a <= b
    <3>1. pool(t) <= pool(s)
      BY <2>4, <2>5
    <3> QED  BY <2>4, <2>5, <3>1, ProductMonotone, ProductNat
  <2>7. exchangeRateStored(t) = a \div s.totalSupply /\ exchangeRateStored(s) = b \div s.totalSupply
    BY <2>2, <2>4 DEF exchangeRateStored, pool
  <2> HIDE DEF a, b
  <2>8. a \div s.totalSupply \in Nat /\ (a \div s.totalSupply) * s.totalSupply <= a
    BY <2>4, <2>6, QuotientBounds
  <2>9. (a \div s.totalSupply) * s.totalSupply <= b
    <3>1. (a \div s.totalSupply) * s.totalSupply \in Nat
      BY <2>4, <2>8, ProductNat
    <3> QED  BY <2>6, <2>8, <3>1
  <2>10. a \div s.totalSupply <= b \div s.totalSupply
    BY <2>4, <2>6, <2>8, <2>9, QuotientGreatest
  <2> QED  BY <2>1, <2>7, <2>10 DEF s
<1>3. CASE ~(c = m /\ c \in EtherMarkets)
  <2>1. seizeRate(ct, m, c, value) = exchangeRateStored(s)
    BY <1>3 DEF seizeRate
  <2> QED  BY <1>1, <2>1
<1> QED  BY <1>2, <1>3

\* liquidateBorrow: a repayment in one market, a seizure in the other, or both
\* in one
LEMMA LiquidatingEffect ==
  ASSUME IndInv, NEW m \in Markets, NEW c \in Markets, NEW liquidator \in Accounts,
         NEW borrower \in Accounts, NEW amount \in Nat,
         LiquidateBorrow(m, c, liquidator, borrower, amount)
  PROVE  \A k \in Markets : Effect(k)
<1> DEFINE both   == [ctoken EXCEPT ![m] = accrued(m), ![c] = accrued(c)]
           actual == received(m, amount)
           repaid == [both EXCEPT ![m] = repayBorrowFresh(both[m], borrower, actual)]
           tokens == liquidateCalculateSeizeTokens(repaid, m, c, actual)
           rate   == seizeRate(repaid, m, c, amount)
           share  == mul_Exp(tokens, protocolSeizeShareMantissa)
           worth  == mul_ScalarTruncate(rate, share)
           seized == seizeInternal(repaid[c], liquidator, borrower, tokens, rate)
<1>1. /\ borrower # liquidator /\ amount # 0
      /\ canAccrue(ctoken[m], block) /\ canAccrue(ctoken[c], block)
      /\ canRepay(both[m], borrower, actual)
      /\ liquidateBorrowAllowed(seenByComptroller(both, m, amount), m, c, borrower, amount)
      /\ isListed(m) /\ isListed(c) /\ ~comptroller.seizeGuardianPaused
      /\ seizeTokensDefined(repaid, m, c) /\ exchangeRateDefined(repaid[c])
      /\ repaid[c].accountTokens[borrower] >= tokens
      /\ seizeRateDefined(repaid, m, c, amount)
      /\ repaid[c].totalSupply >= share
      /\ ctoken' = [repaid EXCEPT ![c] = seized]
      /\ UNCHANGED comptroller
  BY DEF LiquidateBorrow, liquidateBorrowAllowed, seizeAllowed, seizeTokensDefined, comptrollerVars
<1>2. /\ block \in Nat /\ liquidator \in Holders /\ borrower \in Holders
      /\ actual \in Nat /\ ctoken \in [Markets -> CTokenStorage]
      /\ expScale \in Nat /\ expScale # 0
  BY AccountsAreHolders, ReceivedNat, ExpScaleAssumption DEF IndInv, TypeOK
<1>3. /\ validMarket(accrued(m), block) /\ accrued(m) \in CTokenStorage /\ accrued(c) \in CTokenStorage
  BY <1>1, AccruedSound
<1>4. /\ both[m] = accrued(m) /\ DOMAIN both = Markets
      /\ \A k \in Markets : both[k] = IF k \in {m, c} THEN accrued(k) ELSE ctoken[k]
  BY <1>2
<1> DEFINE seen == seenByComptroller(both, m, amount)
<1>5. seen[m].accountBorrows = both[m].accountBorrows /\ seen[m].borrowIndex = both[m].borrowIndex
  <2>1. CASE m \in EtherMarkets
    <3>1. seen[m] = [both[m] EXCEPT !.cash = @ + amount]
      BY <1>4, <2>1 DEF seenByComptroller
    <3>2. both[m] \in CTokenStorage
      BY <1>3, <1>4
    <3> QED  BY <3>1, <3>2 DEF CTokenStorage
  <2>2. CASE m \notin EtherMarkets
    BY <2>2 DEF seenByComptroller
  <2> QED  BY <2>1, <2>2
<1> HIDE DEF both, seen
<1>6. ctoken[m].accountBorrows[borrower].principal # 0
  <2>1. liquidateBorrowAllowed(seen, m, c, borrower, amount)
    BY <1>1 DEF seen
  <2>2. seen[m].accountBorrows = accrued(m).accountBorrows /\ seen[m].borrowIndex = accrued(m).borrowIndex
    BY <1>4, <1>5
  <2> QED  BY <1>1, <1>2, <2>1, <2>2, LiquidatedOwes
<1> DEFINE t == repayBorrowFresh(accrued(m), borrower, actual)
<1>7. validMarket(t, block) /\ t \in CTokenStorage
  BY <1>1, <1>2, <1>3, <1>4, RepayValid DEF validMarket
<1>8. /\ DOMAIN repaid = Markets
      /\ \A k \in Markets : repaid[k] = IF k = m THEN t ELSE both[k]
  BY <1>4
<1>9. repaidTo(accrued(m), t)
  <2>1. /\ debtSettled(accrued(m), t, borrower, borrowBalanceStored(accrued(m), borrower) - actual)
        /\ t.cash = accrued(m).cash + actual
    BY <1>2, <1>3, RepayEffect DEF validMarket
  <2>2. actual <= borrowBalanceStored(accrued(m), borrower)
    BY <1>1, <1>4 DEF canRepay
  <2> HIDE DEF t, actual
  <2> QED  BY <1>2, <2>1, <2>2 DEF repaidTo
<1> HIDE DEF t, repaid, actual
<1> DEFINE r == repaid[c]
<1>10. r \in CTokenStorage /\ (r = accrued(c) \/ repaidTo(accrued(c), r))
  BY <1>3, <1>4, <1>7, <1>8, <1>9
<1>11. tokens \in Nat /\ rate \in Nat
  BY <1>1, <1>2, <1>10, SeizeTokensNat, SeizeRateNat
<1>12. rate <= exchangeRateStored(r) \/ r.totalSupply = 0
  <2> SUFFICES ASSUME r.totalSupply # 0 PROVE rate <= exchangeRateStored(r)
    OBVIOUS
  <2>1. pool(r) \in Nat
    <3>1. r.cash + r.totalBorrows >= r.totalReserves
      BY <1>1 DEF exchangeRateDefined
    <3> HIDE DEF r
    <3> QED  BY <1>10, <3>1, PoolInt
  <2> QED  BY <1>1, <1>2, <1>10, <2>1, SeizeRateBound
<1> HIDE DEF tokens, rate
<1>13. tokens <= r.accountTokens[borrower]
  <2>1. r.accountTokens[borrower] \in Nat
    BY <1>2, <1>10 DEF CTokenStorage
  <2> QED  BY <1>1, <1>11, <2>1
<1> HIDE DEF r
<1>14. /\ share \in Nat /\ worth \in Nat /\ worth * expScale <= rate * share
       /\ tokensSeized(r, seizeInternal(r, liquidator, borrower, tokens, rate),
                       borrower, liquidator, tokens, share, worth)
  BY <1>1, <1>2, <1>10, <1>11, <1>13, SeizeEffect
<1>15. seized = seizeInternal(r, liquidator, borrower, tokens, rate)
  BY DEF r
<1>16. r.totalSupply \in Nat /\ share <= r.totalSupply
  <2>1. r.totalSupply \in Nat /\ r.totalSupply >= share
    BY <1>1, <1>10, PoolInt DEF r
  <2> QED  BY <2>1, <1>14
<1> HIDE DEF share, worth, seized
<1>17. exchangeRateStored(r) \in Nat
  BY <1>1, <1>10, ExchangeRateNat DEF r
<1>18. worth * expScale <= exchangeRateStored(r) * share
  <2>1. CASE r.totalSupply = 0
    <3>1. share = 0
      BY <1>14, <1>16, <2>1
    <3>2. rate * share = 0 /\ exchangeRateStored(r) * share = 0
      BY <1>11, <1>17, <3>1
    <3> QED  BY <1>14, <3>2
  <2>2. CASE rate <= exchangeRateStored(r)
    <3>1. rate * share <= exchangeRateStored(r) * share
      BY <1>11, <1>14, <1>17, <2>2, ProductMonotone
    <3>2. worth * expScale \in Nat /\ rate * share \in Nat /\ exchangeRateStored(r) * share \in Nat
      BY <1>2, <1>11, <1>14, <1>17, ProductNat
    <3> QED  BY <1>14, <3>1, <3>2
  <2> QED  BY <1>12, <2>1, <2>2
<1>19. \A k \in Markets : ctoken'[k] = IF k = c THEN seized ELSE repaid[k]
  BY <1>1, <1>8
<1>20. Seizing(c)
  <2>1. ctoken'[c] = seized /\ exchangeRateDefined(r)
    BY <1>1, <1>19 DEF r
  <2>2. tokensSeized(r, ctoken'[c], borrower, liquidator, tokens, share, worth)
    BY <1>14, <1>15, <2>1
  <2> QED  BY <1>1, <1>6, <1>10, <1>11, <1>14, <1>18, <2>1, <2>2 DEF Seizing
<1>21. c # m => Repaying(m)
  <2>1. c # m => ctoken'[m] = t
    BY <1>8, <1>19
  <2> QED  BY <1>1, <1>9, <2>1 DEF Repaying
<1>22. ASSUME NEW k \in Markets \ {m, c} PROVE Quieting(k)
  <2>1. ctoken'[k] = ctoken[k]
    BY <1>4, <1>8, <1>19
  <2> QED  BY <2>1, UntouchedQuiet
<1>23. \A k \in Markets : StaysListed(k)
  BY <1>1, SameComptroller
<1> QED  BY <1>20, <1>21, <1>22, <1>23 DEF Effect

\* _supportMarket: the seed is minted to the Comptroller.
LEMMA SeedingEffect ==
  ASSUME IndInv, NEW m \in Markets, NEW msgValue \in Amounts, SupportMarket(m, msgValue)
  PROVE  \A k \in Markets : Effect(k)
<1> DEFINE s    == accrued(m)
           paidIn == IF m \in EtherMarkets THEN msgValue ELSE seedAmount(ctoken[m])
           x    == received(m, paidIn)
           t    == mintFresh(s, ComptrollerAddress, x)
<1>1. /\ ~isListed(m) /\ canAccrue(ctoken[m], block) /\ ~comptroller.mintGuardianPaused[m]
      /\ m \in EtherMarkets => msgValue > 0
      /\ ctoken' = [ctoken EXCEPT ![m] = t]
      /\ comptroller' = [comptroller EXCEPT !.isListed[m] = TRUE, !.collateralFactorMantissa[m] = 0]
  BY DEF SupportMarket
<1>2. \A k \in Markets \ {m} : StaysListed(k)
  BY <1>1 DEF StaysListed, IndInv, TypeOK, ComptrollerTypeOK, ComptrollerStorage
<1>3. ctoken[m].totalSupply = 0 /\ ctoken[m] \in CTokenStorage
  BY <1>1, MarketsSound DEF IndInv, UnlistedIsInert
<1>4. paidIn \in Nat
  BY <1>3, SeedAmountNat, MoneyMarketAssumption DEF exchangeRateDefined
<1>5. Seed(m, x)
  BY <1>1 DEF Seed
<1> HIDE DEF paidIn
<1>6. x \in Nat /\ ComptrollerAddress \in Holders
  BY <1>4, ReceivedNat, AccountsAreHolders
<1>7. Start(m, s) /\ s \in CTokenStorage
  BY <1>1, StartAccrued
<1> HIDE DEF s, x
<1>8. tokensMinted(s, t, ComptrollerAddress, div_Exp(x, exchangeRateStored(s)), x)
  BY <1>6, <1>7, MintEffect
<1> HIDE DEF t
<1>9. ctoken'[m] = t => Effect(m)
  BY <1>1, <1>5, <1>6, <1>7, <1>8 DEF Effect, Seeding
<1> QED  BY <1>1, <1>2, <1>9, OneMarketChanges

\* What leaves every market as it is, and lists none
LEMMA NothingHappens ==
  ASSUME IndInv, UNCHANGED ctoken, \A k \in Markets : StaysListed(k)
  PROVE  \A k \in Markets : Effect(k)
BY UntouchedQuiet DEF Effect

\* Every transaction has one of the effects on every market.
LEMMA StepEffects ==
  ASSUME IndInv, [Next]_vars
  PROVE  \A k \in Markets : Effect(k)
<1>0. /\ \A m \in Markets : Suppliers[m] \subseteq Accounts /\ Borrowers[m] \subseteq Accounts
      /\ Amounts \subseteq Nat /\ UintMax \in Nat /\ Donations \subseteq Nat
      /\ ReserveFactors \subseteq Nat /\ ReserveAmounts \subseteq Nat
  BY MoneyMarketAssumption, CTokenAssumption
<1>1. ASSUME NEW m \in Markets, NEW a \in Suppliers[m], SupplierStep(m, a)
      PROVE  \A k \in Markets : Effect(k)
  <2>0. a \in Accounts
    BY <1>0
  <2>1. CASE \E amount \in Amounts : Mint(m, a, amount) \/ RedeemUnderlying(m, a, amount)
    BY <1>0, <2>0, <2>1, MintingEffect, RedeemingUnderlyingEffect
  <2>2. CASE \E tokens \in TokenAmounts : Redeem(m, a, tokens)
    BY <2>0, <2>2, RedeemingEffect
  <2>3. CASE \E tokens \in TransferAmounts, src \in Accounts, dst \in Accounts :
                Transfer(m, a, src, dst, tokens)
    BY <2>0, <2>3, TransferringEffect
  <2>4. CASE \E amount \in Approvals, spender \in Accounts \ {a} : Approve(m, a, spender, amount)
    BY <2>4, ApproveEffect
  <2>5. CASE \E amount \in Donations : Donate(m, a, amount) \/ AddReserves(m, a, amount)
    BY <1>0, <2>5, DonateEffect, AdminEffect
  <2> QED  BY <1>1, <2>1, <2>2, <2>3, <2>4, <2>5 DEF SupplierStep
<1>2. ASSUME NEW m \in Markets, NEW b \in Borrowers[m], BorrowerStep(m, b)
      PROVE  \A k \in Markets : Effect(k)
  <2>0. b \in Accounts
    BY <1>0
  <2>1. CASE \E amount \in Amounts : Borrow(m, b, amount)
    BY <1>0, <2>0, <2>1, BorrowingEffect
  <2>2. CASE \E amount \in Amounts \cup {UintMax}, payer \in Accounts : RepayBorrow(m, payer, b, amount)
    BY <1>0, <2>0, <2>2, RepayingEffect
  <2>3. CASE \E amount \in Amounts, liquidator \in Accounts, c \in Markets :
                LiquidateBorrow(m, c, liquidator, b, amount)
    BY <1>0, <2>0, <2>3, LiquidatingEffect
  <2> QED  BY <1>2, <2>1, <2>2, <2>3 DEF BorrowerStep
<1>3. ASSUME NEW a \in Accounts, MembershipStep(a)
      PROVE  \A k \in Markets : Effect(k)
  <2>1. UNCHANGED ctoken /\ UNCHANGED comptroller
    BY <1>3 DEF MembershipStep, marketVars, EnterMarkets, ExitMarket
  <2> QED  BY <2>1, NothingHappens, SameComptroller
<1>4. ASSUME NEW m \in Markets, AccrueInterest(m) \/ AdminMarketStep(m)
      PROVE  \A k \in Markets : Effect(k)
  <2>1. CASE AccrueInterest(m)
    BY <2>1, AccrueInterestEffect
  <2>2. CASE \E value \in Amounts : SupportMarket(m, value)
    BY <2>2, SeedingEffect
  <2>3. CASE \E factor \in ReserveFactors : SetReserveFactor(m, factor)
    BY <1>0, <2>3, AdminEffect
  <2>4. CASE \E amount \in ReserveAmounts : ReduceReserves(m, amount)
    BY <1>0, <2>4, AdminEffect
  <2>5. CASE \E irm \in RateModels : SetInterestRateModel(m, irm)
    <3>1. 0 \in Nat
      OBVIOUS
    <3> QED  BY <2>5, <3>1, AdminEffect
  <2> QED  BY <1>4, <2>1, <2>2, <2>3, <2>4, <2>5 DEF AdminMarketStep
<1>5. CASE AdminComptrollerStep
  <2>1. UNCHANGED ctoken
    BY <1>5 DEF AdminComptrollerStep, marketVars
  <2>2. comptroller'.isListed = comptroller.isListed
    <3>1. comptroller \in ComptrollerStorage
      BY DEF IndInv, TypeOK, ComptrollerTypeOK
    <3> QED  BY <1>5, <3>1 DEF AdminComptrollerStep, SetCloseFactor, SetLiquidationIncentive,
                SetCollateralFactor, SetMarketBorrowCap, SetBorrowCapGuardian, SetPauseGuardian,
                SetMintPaused, SetBorrowPaused, SetTransferPaused, SetSeizePaused, SetPrices,
                Configure, ComptrollerStorage
  <2> QED  BY <2>1, <2>2, NothingHappens DEF StaysListed
<1>6. CASE NextBlock
  BY <1>6, NothingHappens, SameComptroller DEF NextBlock, comptrollerVars
<1>7. CASE UNCHANGED vars
  BY <1>7, NothingHappens, SameComptroller DEF vars, comptrollerVars
<1> QED  BY <1>1, <1>2, <1>3, <1>4, <1>5, <1>6, <1>7 DEF Next

-----------------------------------------------------------------------------
(* What the effects mean for debts, for the pauses and for the holders. *)

\* A market after a transaction
LEMMA NextMarket ==
  ASSUME IndInv', NEW m \in Markets
  PROVE  ctoken'[m] \in CTokenStorage
BY DEF IndInv, TypeOK

\* A debt does not fall as long as its snapshot stays.
LEMMA SameDebtsGrow ==
  ASSUME IndInv, NEW m \in Markets, NEW s, Start(m, s), NEW t \in CTokenStorage, NEW h \in Holders,
         t.accountBorrows[h] = s.accountBorrows[h], t.borrowIndex = s.borrowIndex
  PROVE  /\ borrowBalanceStored(ctoken[m], h) \in Nat /\ borrowBalanceStored(t, h) \in Nat
         /\ borrowBalanceStored(t, h) >= borrowBalanceStored(ctoken[m], h)
<1>1. ctoken[m] \in CTokenStorage /\ validSnapshots(ctoken[m])
  BY MarketsSound DEF validMarket
<1>2. s.accountBorrows = ctoken[m].accountBorrows /\ s.borrowIndex >= ctoken[m].borrowIndex
  BY StartAges DEF aged
<1>3. t.accountBorrows[h] = ctoken[m].accountBorrows[h] /\ t.borrowIndex >= ctoken[m].borrowIndex
  BY <1>2
<1> QED  BY <1>1, <1>3, BalanceGrows

\* A repayment takes from a debt what arrives, and from others nothing.
LEMMA RepaymentsArePaid ==
  ASSUME IndInv, NEW m \in Markets, NEW s, Start(m, s), NEW t \in CTokenStorage, repaidTo(s, t),
         NEW h \in Holders
  PROVE  LET owed  == borrowBalanceStored(ctoken[m], h)
             owed_ == borrowBalanceStored(t, h)
         IN  owed_ >= owed \/ owed - owed_ <= t.cash - ctoken[m].cash
<1>1. PICK borrower \in Accounts, x \in Nat :
         /\ x <= borrowBalanceStored(s, borrower)
         /\ debtSettled(s, t, borrower, borrowBalanceStored(s, borrower) - x)
         /\ t.cash = s.cash + x
  BY DEF repaidTo
<1>2. /\ s \in CTokenStorage /\ s.cash = ctoken[m].cash /\ ctoken[m] \in CTokenStorage
      /\ borrower \in Holders /\ s.cash \in Nat
  BY StartAges, MarketsSound, AccountsAreHolders, PoolInt DEF aged
<1>3. \A g \in Holders : borrowBalanceStored(s, g) \in Nat /\ borrowBalanceStored(ctoken[m], g) \in Nat
                         /\ borrowBalanceStored(s, g) >= borrowBalanceStored(ctoken[m], g)
  BY <1>2, SameDebtsGrow
<1> DEFINE b == borrowBalanceStored(s, borrower)
<1>4. b \in Nat /\ b - x \in Nat
  BY <1>1, <1>2, <1>3
<1>5. /\ borrowBalanceStored(t, borrower) = b - x
      /\ \A g \in Holders \ {borrower} : t.accountBorrows[g] = s.accountBorrows[g]
      /\ t.borrowIndex = s.borrowIndex
  <2>1. debtSettled(s, t, borrower, b - x)
    BY <1>1
  <2> QED  BY <1>2, <1>4, <2>1, SettledBalance DEF debtSettled
<1>6. CASE h = borrower
  <2>1. b >= borrowBalanceStored(ctoken[m], h) /\ borrowBalanceStored(ctoken[m], h) \in Nat
        /\ borrowBalanceStored(t, h) = b - x
    BY <1>2, <1>3, <1>5, <1>6
  <2> HIDE DEF b
  <2>2. borrowBalanceStored(ctoken[m], h) - borrowBalanceStored(t, h) <= x
    BY <1>4, <2>1
  <2>3. t.cash - ctoken[m].cash = x
    BY <1>1, <1>2
  <2> QED  BY <2>2, <2>3
<1>7. CASE h # borrower
  BY <1>5, <1>7, SameDebtsGrow
<1> QED  BY <1>6, <1>7

\* No effect forgives a debt.
LEMMA EffectKeepsDebts ==
  ASSUME IndInv, IndInv', NEW m \in Markets, Effect(m), NEW h \in Holders
  PROVE  LET owed  == borrowBalanceStored(ctoken[m], h)
             owed_ == borrowBalanceStored(ctoken'[m], h)
         IN  owed_ >= owed \/ owed - owed_ <= ctoken'[m].cash - ctoken[m].cash
<1> DEFINE t == ctoken'[m]
<1>1. t \in CTokenStorage
  BY NextMarket
<1> HIDE DEF t
<1>2. ASSUME NEW s \in CTokenStorage, Start(m, s), sameDebts(s, t)
      PROVE  borrowBalanceStored(t, h) >= borrowBalanceStored(ctoken[m], h)
  <2>1. t.accountBorrows[h] = s.accountBorrows[h] /\ t.borrowIndex = s.borrowIndex
    BY <1>2 DEF sameDebts
  <2> QED  BY <1>1, <1>2, <2>1, SameDebtsGrow
<1>3. CASE Quieting(m)
  BY <1>2, <1>3 DEF Quieting, quiet, t
<1>4. CASE Minting(m)
  BY <1>2, <1>4 DEF Minting, tokensMinted, t
<1>5. CASE Redeeming(m)
  BY <1>2, <1>5 DEF Redeeming, tokensRedeemed, t
<1>6. CASE Transferring(m)
  <2>1. sameDebts(ctoken[m], t)
    BY <1>6 DEF Transferring, tokensMoved, t
  <2>2. Start(m, ctoken[m]) /\ ctoken[m] \in CTokenStorage
    BY MarketsSound DEF Start
  <2> QED  BY <1>2, <2>1, <2>2 DEF t
<1>7. CASE Seeding(m)
  BY <1>2, <1>7 DEF Seeding, tokensMinted, t
<1>8. CASE Borrowing(m)
  <2>1. PICK borrower \in Accounts, x \in Nat :
           /\ canAccrue(ctoken[m], block)
           /\ debtSettled(accrued(m), t, borrower, borrowBalanceStored(accrued(m), borrower) + x)
    BY <1>8 DEF Borrowing, t
  <2>2. Start(m, accrued(m)) /\ accrued(m) \in CTokenStorage /\ borrower \in Holders
    BY <2>1, StartAccrued, AccountsAreHolders
  <2>3. /\ borrowBalanceStored(accrued(m), borrower) \in Nat
        /\ borrowBalanceStored(ctoken[m], borrower) \in Nat
        /\ borrowBalanceStored(accrued(m), borrower) >= borrowBalanceStored(ctoken[m], borrower)
    BY <2>2, SameDebtsGrow
  <2> DEFINE b == borrowBalanceStored(accrued(m), borrower) + x
  <2>4. b \in Nat /\ b >= borrowBalanceStored(ctoken[m], borrower)
    BY <2>3
  <2>5. /\ borrowBalanceStored(t, borrower) = b
        /\ \A g \in Holders \ {borrower} : t.accountBorrows[g] = accrued(m).accountBorrows[g]
        /\ t.borrowIndex = accrued(m).borrowIndex
    <3>1. debtSettled(accrued(m), t, borrower, b)
      BY <2>1
    <3> HIDE DEF b
    <3> QED  BY <1>1, <2>2, <2>4, <3>1, SettledBalance DEF debtSettled
  <2>6. CASE h = borrower
    BY <2>4, <2>5, <2>6 DEF t
  <2>7. CASE h # borrower
    <3>1. borrowBalanceStored(t, h) >= borrowBalanceStored(ctoken[m], h)
      BY <1>1, <2>2, <2>5, <2>7, SameDebtsGrow
    <3> QED  BY <3>1 DEF t
  <2> QED  BY <2>6, <2>7
<1>9. CASE Repaying(m)
  <2>1. Start(m, accrued(m)) /\ repaidTo(accrued(m), t)
    BY <1>9, StartAccrued DEF Repaying, t
  <2> QED  BY <1>1, <2>1, RepaymentsArePaid DEF t
<1>10. CASE Seizing(m)
  <2>1. PICK r \in CTokenStorage, borrower \in Accounts, liquidator \in Accounts,
             n \in Nat, p \in Nat, x \in Nat :
           /\ canAccrue(ctoken[m], block)
           /\ r = accrued(m) \/ repaidTo(accrued(m), r)
           /\ tokensSeized(r, t, borrower, liquidator, n, p, x)
    BY <1>10 DEF Seizing, t
  <2>2. Start(m, accrued(m)) /\ accrued(m) \in CTokenStorage
    BY <2>1, StartAccrued
  <2>3. CASE r = accrued(m)
    <3>1. sameDebts(accrued(m), t)
      BY <2>1, <2>3 DEF tokensSeized
    <3> QED  BY <1>2, <2>2, <3>1 DEF t
  <2>4. CASE repaidTo(accrued(m), r)
    <3>1. borrowBalanceStored(t, h) = borrowBalanceStored(r, h) /\ t.cash = r.cash
      BY <2>1 DEF tokensSeized, sameDebts, borrowBalanceStored
    <3>2. \/ borrowBalanceStored(r, h) >= borrowBalanceStored(ctoken[m], h)
          \/ borrowBalanceStored(ctoken[m], h) - borrowBalanceStored(r, h) <= r.cash - ctoken[m].cash
      BY <2>2, <2>4, RepaymentsArePaid
    <3> QED  BY <3>1, <3>2 DEF t
  <2> QED  BY <2>1, <2>3, <2>4
<1> QED  BY <1>3, <1>4, <1>5, <1>6, <1>7, <1>8, <1>9, <1>10 DEF Effect

\* From any state of the invariant on, debts fall by payments.
LEMMA DebtsPaidFrom == IndInv /\ [][Next]_vars => DebtFallsOnlyByPayment
<1> DEFINE kept(m, h) ==
             LET owed  == borrowBalanceStored(ctoken[m], h)
                 owed_ == borrowBalanceStored(ctoken'[m], h)
             IN  owed_ >= owed \/ owed - owed_ <= ctoken'[m].cash - ctoken[m].cash
           all == \A m \in Markets, h \in Holders : kept(m, h)
<1>1. IndInv /\ [Next]_vars => all
  BY StepKeeps, StepEffects, EffectKeepsDebts
<1>2. [][IndInv /\ [Next]_vars]_vars => [][all]_vars
  BY <1>1, PTL
<1>3. IndInv /\ [][Next]_vars => [][all]_vars
  BY <1>2, InvarianceFrom, PTL
<1> QED  BY <1>3 DEF DebtFallsOnlyByPayment

\* No debt is ever forgiven: what an account owes falls by no more than the
\* market received in the same transaction, through interest, rounding,
\* repayments of any amount, liquidations and fees of the underlying.
THEOREM DebtsArePaidFor == Spec => DebtFallsOnlyByPayment
<1>1. Init => IndInv
  BY InitEstablishes
<1>2. QED
  BY <1>1, DebtsPaidFrom, PTL DEF Spec

\* What the pauses forbid in market m
MintPauseBinds(m) ==
  comptroller.mintGuardianPaused[m] => ctoken'[m].totalSupply <= ctoken[m].totalSupply

\* ... its borrow pause
BorrowPauseBinds(m) ==
  comptroller.borrowGuardianPaused[m] =>
    \A h \in Holders :
       \/ ctoken'[m].accountBorrows[h].principal <= ctoken[m].accountBorrows[h].principal
       \/ ctoken'[m].accountBorrows[h].principal <= borrowBalanceStored(accrued(m), h)

\* ... and the transfer and seize pauses do to market m
TransferPauseBinds(m) ==
  comptroller.transferGuardianPaused /\ comptroller.seizeGuardianPaused =>
    \A h \in Holders :
       \/ ctoken'[m].accountTokens[h] <= ctoken[m].accountTokens[h]
       \/ ctoken'[m].accountTokens[h] - ctoken[m].accountTokens[h]
             <= ctoken'[m].totalSupply - ctoken[m].totalSupply

\* The tokens of a market that only got tokens for one account, or lost some
LEMMA MintedTokens ==
  ASSUME NEW s \in CTokenStorage, NEW t \in CTokenStorage, NEW g \in Holders, NEW n \in Nat, NEW x,
         tokensMinted(s, t, g, n, x), NEW h \in Holders
  PROVE  t.accountTokens[h] = IF h = g THEN s.accountTokens[g] + n ELSE s.accountTokens[h]
<1>1. s.accountTokens \in [Holders -> Nat]
  BY DEF CTokenStorage
<1> QED  BY <1>1 DEF tokensMinted

\* A redemption takes tokens of the redeemer only.
LEMMA RedeemedTokens ==
  ASSUME NEW s \in CTokenStorage, NEW t \in CTokenStorage, NEW g \in Holders, NEW n \in Nat, NEW x,
         tokensRedeemed(s, t, g, n, x), NEW h \in Holders
  PROVE  t.accountTokens[h] = IF h = g THEN s.accountTokens[g] - n ELSE s.accountTokens[h]
<1>1. s.accountTokens \in [Holders -> Nat]
  BY DEF CTokenStorage
<1> QED  BY <1>1 DEF tokensRedeemed

\* A transfer takes tokens of its source only.
LEMMA MovedTokens ==
  ASSUME NEW s \in CTokenStorage, NEW t \in CTokenStorage, NEW src \in Holders, NEW dst \in Holders,
         NEW n \in Nat, tokensMoved(s, t, src, dst, n), NEW h \in Holders
  PROVE  t.accountTokens[h] = IF h = src THEN s.accountTokens[src] - n
                              ELSE IF h = dst THEN s.accountTokens[dst] + n ELSE s.accountTokens[h]
<1>1. s.accountTokens \in [Holders -> Nat]
  BY DEF CTokenStorage
<1> QED  BY <1>1 DEF tokensMoved

\* A seizure takes tokens of the borrower only.
LEMMA SeizedTokens ==
  ASSUME NEW s \in CTokenStorage, NEW t \in CTokenStorage, NEW b \in Holders, NEW l \in Holders,
         NEW n \in Nat, NEW p \in Nat, NEW x, tokensSeized(s, t, b, l, n, p, x), NEW h \in Holders
  PROVE  t.accountTokens[h] = IF h = b THEN s.accountTokens[b] - n
                              ELSE IF h = l THEN s.accountTokens[l] + (n - p) ELSE s.accountTokens[h]
<1>1. s.accountTokens \in [Holders -> Nat]
  BY DEF CTokenStorage
<1> QED  BY <1>1 DEF tokensSeized

\* A repayment moves no cTokens.
LEMMA RepaidSame ==
  ASSUME NEW s, NEW r, repaidTo(s, r)
  PROVE  /\ r.accountTokens = s.accountTokens /\ r.totalSupply = s.totalSupply /\ pool(r) = pool(s)
         /\ r.initialExchangeRateMantissa = s.initialExchangeRateMantissa
         /\ r.borrowIndex = s.borrowIndex
BY DEF repaidTo, debtSettled, sameTokens, sameStart

\* The state in which a seizure takes place
LEMMA SeizedFrom ==
  ASSUME IndInv, NEW m \in Markets, canAccrue(ctoken[m], block), NEW r \in CTokenStorage,
         r = accrued(m) \/ repaidTo(accrued(m), r)
  PROVE  /\ r.accountTokens = ctoken[m].accountTokens /\ r.totalSupply = ctoken[m].totalSupply
         /\ pool(r) >= pool(ctoken[m])
         /\ r.initialExchangeRateMantissa = ctoken[m].initialExchangeRateMantissa
<1>1. aged(ctoken[m], accrued(m))
  BY StartAccrued, StartAges
<1> QED  BY <1>1, RepaidSame DEF aged

\* Minting, and nothing else, makes tokens.
LEMMA EffectMintPause ==
  ASSUME IndInv, IndInv', NEW m \in Markets, Effect(m)
  PROVE  MintPauseBinds(m)
<1>1. /\ ctoken[m] \in CTokenStorage /\ ctoken'[m] \in CTokenStorage
      /\ ctoken[m].totalSupply \in Nat /\ ctoken'[m].totalSupply \in Nat
  BY MarketsSound, NextMarket, PoolInt
<1>2. SUFFICES ASSUME comptroller.mintGuardianPaused[m]
               PROVE  ctoken'[m].totalSupply <= ctoken[m].totalSupply
  BY DEF MintPauseBinds
<1>3. ~Minting(m) /\ ~Seeding(m)
  BY <1>2 DEF Minting, Seeding
<1>4. CASE Quieting(m)
  BY <1>1, <1>4, StartAges DEF Quieting, quiet, sameTokens
<1>5. CASE Redeeming(m)
  <2>1. \E n \in Nat : ctoken'[m].totalSupply = ctoken[m].totalSupply - n
    BY <1>5, StartAges DEF Redeeming, tokensRedeemed
  <2> QED  BY <1>1, <2>1
<1>6. CASE Transferring(m)
  BY <1>1, <1>6 DEF Transferring, tokensMoved
<1>7. CASE Borrowing(m)
  <2>1. ctoken'[m].totalSupply = accrued(m).totalSupply /\ canAccrue(ctoken[m], block)
    BY <1>7 DEF Borrowing, debtSettled, sameTokens
  <2> QED  BY <1>1, <2>1, AccruedSound
<1>8. CASE Repaying(m)
  <2>1. ctoken'[m].totalSupply = accrued(m).totalSupply /\ canAccrue(ctoken[m], block)
    BY <1>8, RepaidSame DEF Repaying
  <2> QED  BY <1>1, <2>1, AccruedSound
<1>9. CASE Seizing(m)
  <2>1. \E p \in Nat : ctoken'[m].totalSupply = ctoken[m].totalSupply - p
    BY <1>9, SeizedFrom DEF Seizing, tokensSeized
  <2> QED  BY <1>1, <2>1
<1> QED  BY <1>3, <1>4, <1>5, <1>6, <1>7, <1>8, <1>9 DEF Effect

\* Borrowing, and nothing else, raises a principal above what is owed.
LEMMA EffectBorrowPause ==
  ASSUME IndInv, IndInv', NEW m \in Markets, Effect(m)
  PROVE  BorrowPauseBinds(m)
<1> SUFFICES ASSUME comptroller.borrowGuardianPaused[m], NEW h \in Holders
             PROVE  \/ ctoken'[m].accountBorrows[h].principal <= ctoken[m].accountBorrows[h].principal
                    \/ ctoken'[m].accountBorrows[h].principal <= borrowBalanceStored(accrued(m), h)
  BY DEF BorrowPauseBinds
<1> DEFINE before == ctoken[m].accountBorrows[h].principal
           after  == ctoken'[m].accountBorrows[h].principal
<1>1. /\ ctoken[m] \in CTokenStorage /\ ctoken'[m] \in CTokenStorage
      /\ before \in Nat /\ after \in Nat
  BY MarketsSound, NextMarket DEF CTokenStorage, BorrowSnapshot
<1>2. ASSUME NEW s \in CTokenStorage, Start(m, s), ctoken'[m].accountBorrows = s.accountBorrows
      PROVE  after <= before
  <2>1. ctoken'[m].accountBorrows = ctoken[m].accountBorrows
    BY <1>2, StartAges DEF aged
  <2> QED  BY <1>1, <2>1
<1>3. ~Borrowing(m)
  BY DEF Borrowing
<1>4. CASE Quieting(m)
  BY <1>2, <1>4 DEF Quieting, quiet, sameDebts
<1>5. CASE Minting(m)
  BY <1>2, <1>5 DEF Minting, tokensMinted, sameDebts
<1>6. CASE Redeeming(m)
  BY <1>2, <1>6 DEF Redeeming, tokensRedeemed, sameDebts
<1>7. CASE Transferring(m)
  <2>1. ctoken'[m].accountBorrows = ctoken[m].accountBorrows
    BY <1>7 DEF Transferring, tokensMoved, sameDebts
  <2> QED  BY <1>1, <2>1
<1>8. CASE Seeding(m)
  BY <1>2, <1>8 DEF Seeding, tokensMinted, sameDebts
<1>9. ASSUME canAccrue(ctoken[m], block), NEW t \in CTokenStorage, repaidTo(accrued(m), t),
             ctoken'[m].accountBorrows = t.accountBorrows
      PROVE  after <= before \/ after <= borrowBalanceStored(accrued(m), h)
  <2> DEFINE s == accrued(m)
  <2>1. Start(m, s) /\ s \in CTokenStorage /\ s.accountBorrows = ctoken[m].accountBorrows
    BY <1>9, StartAccrued, AccruedSound
  <2>2. PICK borrower \in Accounts, x \in Nat :
           /\ x <= borrowBalanceStored(s, borrower)
           /\ debtSettled(s, t, borrower, borrowBalanceStored(s, borrower) - x)
    BY <1>9 DEF repaidTo
  <2>3. borrower \in Holders
    BY AccountsAreHolders
  <2>4. borrowBalanceStored(s, borrower) \in Nat
    BY <2>1, <2>3, SameDebtsGrow
  <2> DEFINE b == borrowBalanceStored(s, borrower)
  <2>5. b - x \in Nat /\ b - x <= b
    <3>1. x <= b /\ b \in Nat
      BY <2>2, <2>4
    <3> HIDE DEF b
    <3> QED  BY <3>1
  <2>6. t.accountBorrows[borrower].principal = b - x
        /\ \A g \in Holders \ {borrower} : t.accountBorrows[g] = s.accountBorrows[g]
    <3>1. debtSettled(s, t, borrower, b - x)
      BY <2>2
    <3> HIDE DEF b, s
    <3> QED  BY <2>1, <2>3, <2>5, <3>1, SettledBalance
  <2>7. CASE h = borrower
    BY <1>9, <2>5, <2>6, <2>7
  <2>8. CASE h # borrower
    BY <1>1, <1>9, <2>1, <2>6, <2>8
  <2> QED  BY <2>7, <2>8
<1>10. CASE Repaying(m)
  <2>1. canAccrue(ctoken[m], block) /\ repaidTo(accrued(m), ctoken'[m])
    BY <1>10 DEF Repaying
  <2> QED  BY <1>1, <1>9, <2>1
<1>11. CASE Seizing(m)
  <2>1. PICK r \in CTokenStorage :
           /\ canAccrue(ctoken[m], block) /\ (r = accrued(m) \/ repaidTo(accrued(m), r))
           /\ ctoken'[m].accountBorrows = r.accountBorrows
    BY <1>11 DEF Seizing, tokensSeized, sameDebts
  <2>2. CASE r = accrued(m)
    BY <1>2, <2>1, <2>2, StartAccrued
  <2>3. CASE repaidTo(accrued(m), r)
    BY <1>9, <2>1, <2>3
  <2> QED  BY <2>1, <2>2, <2>3
<1> QED  BY <1>3, <1>4, <1>5, <1>6, <1>7, <1>8, <1>10, <1>11 DEF Effect

\* Without transfers and seizures an account gets tokens only by minting.
LEMMA EffectTransferPause ==
  ASSUME IndInv, IndInv', NEW m \in Markets, Effect(m)
  PROVE  TransferPauseBinds(m)
<1> SUFFICES ASSUME comptroller.transferGuardianPaused, comptroller.seizeGuardianPaused,
                    NEW h \in Holders
             PROVE  \/ ctoken'[m].accountTokens[h] <= ctoken[m].accountTokens[h]
                    \/ ctoken'[m].accountTokens[h] - ctoken[m].accountTokens[h]
                          <= ctoken'[m].totalSupply - ctoken[m].totalSupply
  BY DEF TransferPauseBinds
<1> DEFINE c == ctoken[m]
           t == ctoken'[m]
<1>1. /\ c \in CTokenStorage /\ t \in CTokenStorage
      /\ c.accountTokens[h] \in Nat /\ t.accountTokens[h] \in Nat
      /\ c.totalSupply \in Nat /\ t.totalSupply \in Nat
  BY MarketsSound, NextMarket DEF CTokenStorage
<1>2. ASSUME NEW s, Start(m, s)
      PROVE  s \in CTokenStorage /\ s.accountTokens = c.accountTokens /\ s.totalSupply = c.totalSupply
  BY <1>2, StartAges DEF aged
<1>3. ~Transferring(m) /\ ~Seizing(m)
  BY DEF Transferring, Seizing
<1>4. CASE Quieting(m)
  <2>1. t.accountTokens = c.accountTokens
    BY <1>2, <1>4 DEF Quieting, quiet, sameTokens
  <2> QED  BY <1>1, <2>1
<1>5. ASSUME NEW s \in CTokenStorage, Start(m, s), NEW g \in Holders, NEW n \in Nat, NEW x,
             tokensMinted(s, t, g, n, x)
      PROVE  t.accountTokens[h] <= c.accountTokens[h]
             \/ t.accountTokens[h] - c.accountTokens[h] <= t.totalSupply - c.totalSupply
  <2>1. t.accountTokens[h] = IF h = g THEN c.accountTokens[g] + n ELSE c.accountTokens[h]
    BY <1>1, <1>2, <1>5, MintedTokens
  <2>2. t.totalSupply = c.totalSupply + n
    BY <1>2, <1>5 DEF tokensMinted
  <2> HIDE DEF c, t
  <2> QED  BY <1>1, <1>5, <2>1, <2>2
<1>6. CASE Minting(m)
  <2>1. PICK s \in CTokenStorage, minter \in Accounts, x \in Nat :
           /\ Start(m, s) /\ exchangeRateDefined(s) /\ exchangeRateStored(s) # 0
           /\ tokensMinted(s, t, minter, div_Exp(x, exchangeRateStored(s)), x)
    BY <1>6 DEF Minting
  <2>2. exchangeRateStored(s) \in Nat
    BY <2>1, ExchangeRateNat
  <2>3. div_Exp(x, exchangeRateStored(s)) \in Nat
    BY <2>1, <2>2, DivExpNat
  <2> QED  BY <1>5, <2>1, <2>3, AccountsAreHolders
<1>7. CASE Seeding(m)
  <2>1. PICK s \in CTokenStorage, x \in Nat :
           /\ Start(m, s) /\ ~isListed(m)
           /\ tokensMinted(s, t, ComptrollerAddress, div_Exp(x, exchangeRateStored(s)), x)
    BY <1>7 DEF Seeding
  <2>2. s.totalSupply = 0
    BY <1>2, <2>1 DEF IndInv, UnlistedIsInert
  <2>3. exchangeRateStored(s) \in Nat /\ exchangeRateStored(s) # 0
    BY <2>2 DEF exchangeRateStored, CTokenStorage
  <2>4. div_Exp(x, exchangeRateStored(s)) \in Nat
    BY <2>3, DivExpNat
  <2> QED  BY <1>5, <2>1, <2>4, AccountsAreHolders
<1>8. CASE Redeeming(m)
  <2>1. PICK s \in CTokenStorage, redeemer \in Accounts, n \in Nat, x \in Nat :
           Start(m, s) /\ tokensRedeemed(s, t, redeemer, n, x)
    BY <1>8 DEF Redeeming
  <2>2. t.accountTokens[h] = IF h = redeemer THEN c.accountTokens[redeemer] - n ELSE c.accountTokens[h]
    BY <1>1, <1>2, <2>1, RedeemedTokens, AccountsAreHolders
  <2> HIDE DEF c, t
  <2> QED  BY <1>1, <2>2 DEF c, t
<1>9. CASE Borrowing(m) \/ Repaying(m)
  <2>1. canAccrue(ctoken[m], block) /\ t.accountTokens = accrued(m).accountTokens
    BY <1>9, RepaidSame DEF Borrowing, Repaying, debtSettled, sameTokens
  <2>2. t.accountTokens = c.accountTokens
    BY <1>2, <2>1, StartAccrued
  <2> QED  BY <1>1, <2>2
<1> QED  BY <1>3, <1>4, <1>6, <1>7, <1>8, <1>9 DEF Effect

\* From any state of the invariant on, the pauses bind.
LEMMA PausesBindFrom == IndInv /\ [][Next]_vars => PausesBind
<1> DEFINE all ==
             \A m \in Markets :
                LET s == ctoken[m]  s_ == ctoken'[m]
                IN  /\ comptroller.mintGuardianPaused[m] => s_.totalSupply <= s.totalSupply
                    /\ comptroller.borrowGuardianPaused[m] =>
                          \A h \in Holders :
                             \/ s_.accountBorrows[h].principal <= s.accountBorrows[h].principal
                             \/ s_.accountBorrows[h].principal <= borrowBalanceStored(accrued(m), h)
                    /\ comptroller.transferGuardianPaused /\ comptroller.seizeGuardianPaused =>
                          \A h \in Holders :
                             \/ s_.accountTokens[h] <= s.accountTokens[h]
                             \/ s_.accountTokens[h] - s.accountTokens[h]
                                   <= s_.totalSupply - s.totalSupply
<1>1. ASSUME IndInv, [Next]_vars PROVE all
  <2>1. \A m \in Markets : MintPauseBinds(m) /\ BorrowPauseBinds(m) /\ TransferPauseBinds(m)
    BY <1>1, StepKeeps, StepEffects, EffectMintPause, EffectBorrowPause, EffectTransferPause
  <2> QED  BY <2>1 DEF MintPauseBinds, BorrowPauseBinds, TransferPauseBinds
<1>2. [][IndInv /\ [Next]_vars]_vars => [][all]_vars
  BY <1>1, PTL
<1>3. IndInv /\ [][Next]_vars => [][all]_vars
  BY <1>2, InvarianceFrom, PTL
<1> QED  BY <1>3 DEF PausesBind

\* Every path of the cTokens respects the Comptroller's pauses: minting,
\* borrowing, transfers and seizures, also where one transaction does several
\* of them, in two markets or in one.
THEOREM PausesAreRespected == Spec => PausesBind
<1>1. Init => IndInv
  BY InitEstablishes
<1>2. QED
  BY <1>1, PausesBindFrom, PTL DEF Spec

\* What an account without debts loses, it redeems or transfers.
LEMMA EffectKeepsTokens ==
  ASSUME IndInv, IndInv', NEW m \in Markets, Effect(m), NEW h \in Holders,
         ctoken'[m].accountTokens[h] < ctoken[m].accountTokens[h],
         \A c \in Markets : ctoken[c].accountBorrows[h].principal = 0
  PROVE  \/ \E tokens \in TokenAmounts : Redeem(m, h, tokens)
         \/ \E amount \in Amounts : RedeemUnderlying(m, h, amount)
         \/ \E tokens \in TransferAmounts, spender \in Accounts, dst \in Accounts :
               /\ Transfer(m, spender, h, dst, tokens)
               /\ spender # h => tokens <= ctoken[m].transferAllowances[h][spender]
<1> DEFINE c == ctoken[m]
           t == ctoken'[m]
<1>1. /\ c \in CTokenStorage /\ t \in CTokenStorage
      /\ c.accountTokens \in [Holders -> Nat] /\ t.accountTokens \in [Holders -> Nat]
      /\ t.accountTokens[h] < c.accountTokens[h]
  BY MarketsSound, NextMarket DEF CTokenStorage
<1>2. ASSUME NEW s, Start(m, s)
      PROVE  s \in CTokenStorage /\ s.accountTokens = c.accountTokens /\ s.totalSupply = c.totalSupply
  BY <1>2, StartAges DEF aged
<1>3. t.accountTokens # c.accountTokens
  BY <1>1
<1>4. ~Quieting(m) /\ ~Borrowing(m) /\ ~Repaying(m)
  <2>1. ~Quieting(m)
    BY <1>2, <1>3 DEF Quieting, quiet, sameTokens
  <2>2. Borrowing(m) \/ Repaying(m)
          => canAccrue(ctoken[m], block) /\ t.accountTokens = accrued(m).accountTokens
    BY RepaidSame DEF Borrowing, Repaying, debtSettled, sameTokens
  <2>3. canAccrue(ctoken[m], block) => accrued(m).accountTokens = c.accountTokens
    BY <1>2, StartAccrued
  <2> QED  BY <1>3, <2>1, <2>2, <2>3
<1>5. ASSUME NEW s \in CTokenStorage, Start(m, s), NEW g \in Holders, NEW n \in Nat, NEW x,
             tokensMinted(s, t, g, n, x)
      PROVE  FALSE
  <2>1. t.accountTokens[h] = IF h = g THEN c.accountTokens[g] + n ELSE c.accountTokens[h]
    BY <1>1, <1>2, <1>5, MintedTokens
  <2>2. c.accountTokens[h] \in Nat
    BY <1>1
  <2> HIDE DEF c, t
  <2> QED  BY <1>1, <1>5, <2>1, <2>2
<1>6. ~Minting(m)
  <2> SUFFICES ASSUME Minting(m) PROVE FALSE
    OBVIOUS
  <2>1. PICK s \in CTokenStorage, minter \in Accounts, x \in Nat :
           /\ Start(m, s) /\ exchangeRateDefined(s) /\ exchangeRateStored(s) # 0
           /\ tokensMinted(s, t, minter, div_Exp(x, exchangeRateStored(s)), x)
    BY DEF Minting
  <2>2. exchangeRateStored(s) \in Nat
    BY <2>1, ExchangeRateNat
  <2>3. div_Exp(x, exchangeRateStored(s)) \in Nat
    BY <2>1, <2>2, DivExpNat
  <2> QED  BY <1>5, <2>1, <2>3, AccountsAreHolders
<1>7. ~Seeding(m)
  <2> SUFFICES ASSUME Seeding(m) PROVE FALSE
    OBVIOUS
  <2>1. PICK s \in CTokenStorage, x \in Nat :
           /\ Start(m, s) /\ ~isListed(m)
           /\ tokensMinted(s, t, ComptrollerAddress, div_Exp(x, exchangeRateStored(s)), x)
    BY DEF Seeding
  <2>2. s.totalSupply = 0
    BY <1>2, <2>1 DEF IndInv, UnlistedIsInert
  <2>3. exchangeRateStored(s) \in Nat /\ exchangeRateStored(s) # 0
    BY <2>2 DEF exchangeRateStored, CTokenStorage
  <2>4. div_Exp(x, exchangeRateStored(s)) \in Nat
    BY <2>3, DivExpNat
  <2> QED  BY <1>5, <2>1, <2>4, AccountsAreHolders
<1>8. CASE Redeeming(m)
  <2>1. PICK s \in CTokenStorage, redeemer \in Accounts, n \in Nat, x \in Nat :
           /\ Start(m, s) /\ tokensRedeemed(s, t, redeemer, n, x)
           /\ \/ \E tokens \in TokenAmounts : Redeem(m, redeemer, tokens)
              \/ \E amount \in Amounts : RedeemUnderlying(m, redeemer, amount)
    BY <1>8 DEF Redeeming
  <2>2. t.accountTokens[h] = IF h = redeemer THEN c.accountTokens[redeemer] - n ELSE c.accountTokens[h]
    BY <1>1, <1>2, <2>1, RedeemedTokens, AccountsAreHolders
  <2>3. h = redeemer
    <3>1. c.accountTokens[h] \in Nat
      BY <1>1
    <3> HIDE DEF c, t
    <3> QED  BY <1>1, <2>2, <3>1
  <2> QED  BY <2>1, <2>3
<1>9. CASE Transferring(m)
  <2>1. PICK spender \in Accounts, src \in Accounts, dst \in Accounts, n \in TransferAmounts :
           Transfer(m, spender, src, dst, n) /\ tokensMoved(c, t, src, dst, n)
    BY <1>9 DEF Transferring
  <2>2. n \in Nat /\ src \in Holders /\ dst \in Holders /\ spender \in Holders
    BY MoneyMarketAssumption, AccountsAreHolders
  <2>3. t.accountTokens[h] = IF h = src THEN c.accountTokens[src] - n
                              ELSE IF h = dst THEN c.accountTokens[dst] + n ELSE c.accountTokens[h]
    BY <1>1, <2>1, <2>2, MovedTokens
  <2>4. h = src
    <3>1. c.accountTokens[h] \in Nat
      BY <1>1
    <3> HIDE DEF c, t
    <3> QED  BY <1>1, <2>2, <2>3, <3>1
  <2>5. spender # src => n <= c.transferAllowances[src][spender]
    <3>1. spender # src => c.transferAllowances[src][spender] >= n
      BY <2>1 DEF Transfer, startingAllowance
    <3>2. c.transferAllowances[src][spender] \in Nat
      BY <1>1, <2>2 DEF CTokenStorage
    <3> HIDE DEF c
    <3> QED  BY <2>2, <3>1, <3>2
  <2> QED  BY <2>1, <2>4, <2>5
<1>10. CASE Seizing(m)
  <2>1. PICK r \in CTokenStorage, borrower \in Accounts, liquidator \in Accounts,
             n \in Nat, p \in Nat, x \in Nat :
           /\ canAccrue(ctoken[m], block) /\ (r = accrued(m) \/ repaidTo(accrued(m), r))
           /\ tokensSeized(r, t, borrower, liquidator, n, p, x)
           /\ \E k \in Markets : ctoken[k].accountBorrows[borrower].principal # 0
    BY <1>10 DEF Seizing
  <2>2. borrower # h /\ r.accountTokens = c.accountTokens /\ p <= n
    BY <2>1, SeizedFrom DEF tokensSeized
  <2>3. t.accountTokens[h] = IF h = borrower THEN c.accountTokens[borrower] - n
                              ELSE IF h = liquidator THEN c.accountTokens[liquidator] + (n - p)
                              ELSE c.accountTokens[h]
    <3>1. borrower \in Holders /\ liquidator \in Holders /\ tokensSeized(r, t, borrower, liquidator, n, p, x)
      BY <2>1, AccountsAreHolders
    <3>2. t.accountTokens[h] = IF h = borrower THEN r.accountTokens[borrower] - n
                                ELSE IF h = liquidator THEN r.accountTokens[liquidator] + (n - p)
                                ELSE r.accountTokens[h]
      BY <1>1, <3>1, SeizedTokens
    <3> QED  BY <2>2, <3>2
  <2>4. FALSE
    <3>1. c.accountTokens[h] \in Nat
      BY <1>1
    <3> HIDE DEF c, t
    <3> QED  BY <1>1, <2>2, <2>3, <3>1
  <2> QED  BY <2>4
<1> QED  BY <1>4, <1>6, <1>7, <1>8, <1>9, <1>10 DEF Effect

\* From any state of the invariant on, accounts without debts keep their tokens.
LEMMA TokensSafeFrom == IndInv /\ [][Next]_vars => DebtFreeKeepsTokens
<1> DEFINE safe(m, h) ==
             /\ ctoken'[m].accountTokens[h] < ctoken[m].accountTokens[h]
             /\ \A c \in Markets : ctoken[c].accountBorrows[h].principal = 0
             => \/ \E tokens \in TokenAmounts : Redeem(m, h, tokens)
                \/ \E amount \in Amounts : RedeemUnderlying(m, h, amount)
                \/ \E tokens \in TransferAmounts, spender \in Accounts, dst \in Accounts :
                      /\ Transfer(m, spender, h, dst, tokens)
                      /\ spender # h => tokens <= ctoken[m].transferAllowances[h][spender]
           all == \A m \in Markets, h \in Holders : safe(m, h)
<1>1. IndInv /\ [Next]_vars => all
  BY StepKeeps, StepEffects, EffectKeepsTokens
<1>2. [][IndInv /\ [Next]_vars]_vars => [][all]_vars
  BY <1>1, PTL
<1>3. IndInv /\ [][Next]_vars => [][all]_vars
  BY <1>2, InvarianceFrom, PTL
<1> QED  BY <1>3 DEF DebtFreeKeepsTokens

\* An account that owes nothing anywhere loses cTokens only by its own redeem
\* or transfer, or to a spender within its approval: no seizure, of any market
\* and through any change of prices, reaches it.
THEOREM TokensOfDebtFreeAreSafe == Spec => DebtFreeKeepsTokens
<1>1. Init => IndInv
  BY InitEstablishes
<1>2. QED
  BY <1>1, TokensSafeFrom, PTL DEF Spec

-----------------------------------------------------------------------------
(* Listed markets stay open, and their exchange rates do not fall.         *)

\* The invariant of listed markets, and what it needs of the others: that
\* their reserves are covered when they are listed
open(m, s) ==
  /\ s.initialExchangeRateMantissa = initialExchangeRate[m]
  /\ pool(s) >= 0
  /\ isListed(m) => s.accountTokens[ComptrollerAddress] > 0 /\ pool(s) > 0

OpenInv == \A m \in Markets : open(m, ctoken[m])

\* Two holders have no more than there is.
LEMMA TwoHolders ==
  ASSUME NEW s \in CTokenStorage, tokensAddUp(s), NEW g \in Holders, NEW h \in Holders, g # h
  PROVE  /\ s.accountTokens[g] \in Nat /\ s.accountTokens[h] \in Nat /\ s.totalSupply \in Nat
         /\ s.accountTokens[g] + s.accountTokens[h] <= s.totalSupply
<1> DEFINE f == s.accountTokens
<1>1. f \in [Holders -> Nat] /\ s.totalSupply \in Nat
  BY DEF CTokenStorage
<1> HIDE DEF f
<1>2. IsFiniteSet(Holders) /\ IsFiniteSet(Holders \ {g}) /\ IsFiniteSet((Holders \ {g}) \ {h})
  BY HoldersFinite, FS_RemoveElement
<1>3. SumFunctionOnSet(f, Holders) = f[g] + SumFunctionOnSet(f, Holders \ {g})
  BY <1>1, <1>2, SumSplit
<1>4. SumFunctionOnSet(f, Holders \ {g}) = f[h] + SumFunctionOnSet(f, (Holders \ {g}) \ {h})
  BY <1>1, <1>2, SumSplit
<1>5. SumFunctionOnSet(f, (Holders \ {g}) \ {h}) \in Nat
  BY <1>1, <1>2, SumNat
<1>6. s.totalSupply = SumFunctionOnSet(f, Holders)
  BY DEF tokensAddUp, f
<1>7. f[g] \in Nat /\ f[h] \in Nat
  BY <1>1
<1>8. s.totalSupply = f[g] + (f[h] + SumFunctionOnSet(f, (Holders \ {g}) \ {h}))
  BY <1>3, <1>4, <1>6
<1> QED  BY <1>1, <1>5, <1>7, <1>8 DEF f

\* The state a transaction works on is as open as the market.
LEMMA StartOpen ==
  ASSUME IndInv, NEW m \in Markets, open(m, ctoken[m]), NEW s, Start(m, s)
  PROVE  open(m, s) /\ s \in CTokenStorage /\ tokensAddUp(s) /\ pool(s) \in Nat
<1>1. s \in CTokenStorage /\ aged(ctoken[m], s) /\ tokensAddUp(s) /\ ctoken[m] \in CTokenStorage
  BY StartAges, MarketsSound DEF validMarket
<1>2. pool(s) \in Int /\ pool(ctoken[m]) \in Int /\ pool(s) >= pool(ctoken[m])
  BY <1>1, PoolInt DEF aged
<1> QED  BY <1>1, <1>2 DEF open, aged

\* A redemption or seizure of tokens that are not the Comptroller's leaves some.
LEMMA SomeTokensStay ==
  ASSUME NEW m \in Markets, isListed(m), NEW s \in CTokenStorage, open(m, s), tokensAddUp(s),
         NEW a \in Accounts, NEW n \in Nat, n <= s.accountTokens[a]
  PROVE  n < s.totalSupply
<1>1. a # ComptrollerAddress /\ a \in Holders /\ ComptrollerAddress \in Holders
  BY MoneyMarketAssumption
<1>2. s.accountTokens[ComptrollerAddress] > 0
  BY DEF open
<1> QED  BY <1>1, <1>2, TwoHolders

\* How a market's exchange rate moved from c to t: up, or down by the rounding
\* of a redemption of an amount
roseOrRounded(m, c, t) ==
  \/ exchangeRateStored(t) >= exchangeRateStored(c)
  \/ /\ \E a \in Accounts, amount \in Amounts : RedeemUnderlying(m, a, amount)
     /\ pool(t) * c.totalSupply > pool(c) * (t.totalSupply - 1)

\* What a transaction does to an open listed market
staysOpen(m, t) ==
  /\ open(m, t)
  /\ isListed(m) => roseOrRounded(m, ctoken[m], t)

\* A listed market has tokens, and a rate that is a natural.
LEMMA ListedRate ==
  ASSUME IndInv, NEW m \in Markets, isListed(m), open(m, ctoken[m]), NEW s, Start(m, s)
  PROVE  /\ s.totalSupply # 0 /\ pool(s) \in Nat /\ pool(s) # 0
         /\ exchangeRateStored(ctoken[m]) \in Nat /\ exchangeRateStored(s) \in Nat
         /\ exchangeRateStored(s) >= exchangeRateStored(ctoken[m])
<1>1. /\ open(m, s) /\ s \in CTokenStorage /\ tokensAddUp(s) /\ pool(s) \in Nat
      /\ ctoken[m] \in CTokenStorage /\ aged(ctoken[m], s)
  BY StartOpen, StartAges, MarketsSound
<1>2. s.totalSupply # 0
  <2>1. PICK a \in Accounts : TRUE
    BY MoneyMarketAssumption
  <2>2. s.accountTokens[a] \in Nat /\ s.totalSupply \in Nat
    BY <1>1, AccountsAreHolders DEF CTokenStorage
  <2>3. 0 < s.totalSupply
    BY <1>1, <2>1, <2>2, SomeTokensStay
  <2> QED  BY <2>3
<1>3. pool(s) # 0
  BY <1>1 DEF open
<1>4. ctoken[m].totalSupply = s.totalSupply /\ pool(ctoken[m]) \in Nat /\ pool(s) >= pool(ctoken[m])
  <2>1. pool(ctoken[m]) >= 0 /\ pool(ctoken[m]) \in Int
    BY <1>1, PoolInt DEF open
  <2> QED  BY <1>1, <2>1 DEF aged
<1> QED  BY <1>1, <1>2, <1>3, <1>4, RateOfPool, RateBounds

\* The tokens stay and the pool does not shrink.
LEMMA SameTokensOpen ==
  ASSUME IndInv, NEW m \in Markets, open(m, ctoken[m]), NEW s, Start(m, s), NEW t \in CTokenStorage,
         t.accountTokens[ComptrollerAddress] = s.accountTokens[ComptrollerAddress],
         t.totalSupply = s.totalSupply, pool(t) >= pool(s), sameStart(s, t)
  PROVE  staysOpen(m, t)
<1>1. open(m, s) /\ s \in CTokenStorage /\ pool(s) \in Nat /\ pool(t) \in Int
  BY StartOpen, PoolInt
<1>2. open(m, t)
  <2>1. pool(t) >= 0 /\ (pool(s) > 0 => pool(t) > 0)
    BY <1>1
  <2> QED  BY <1>1, <2>1 DEF open, sameStart
<1>3. ASSUME isListed(m) PROVE roseOrRounded(m, ctoken[m], t)
  <2>1. /\ s.totalSupply # 0 /\ exchangeRateStored(ctoken[m]) \in Nat /\ exchangeRateStored(s) \in Nat
        /\ exchangeRateStored(s) >= exchangeRateStored(ctoken[m])
    BY <1>3, ListedRate
  <2>2. exchangeRateStored(t) >= exchangeRateStored(s)
    BY <1>1, <2>1, RateOfPool
  <2>3. exchangeRateStored(t) \in Nat
    <3>1. t.totalSupply # 0 /\ pool(t) \in Nat
      BY <1>1, <2>1
    <3> QED  BY <3>1, RateBounds
  <2>4. exchangeRateStored(t) >= exchangeRateStored(ctoken[m])
    BY <2>1, <2>2, <2>3
  <2> QED  BY <2>4 DEF roseOrRounded
<1> QED  BY <1>2, <1>3 DEF staysOpen

\* Minting for an account
LEMMA MintingOpen ==
  ASSUME IndInv, NEW m \in Markets, open(m, ctoken[m]), Minting(m), ctoken'[m] \in CTokenStorage
  PROVE  staysOpen(m, ctoken'[m])
<1> DEFINE t == ctoken'[m]
<1>1. PICK s \in CTokenStorage, minter \in Accounts, x \in Nat :
         /\ Start(m, s) /\ isListed(m) /\ exchangeRateStored(s) # 0
         /\ tokensMinted(s, t, minter, div_Exp(x, exchangeRateStored(s)), x)
  BY DEF Minting
<1> HIDE DEF t
<1>2. /\ open(m, s) /\ pool(s) \in Nat /\ t \in CTokenStorage
      /\ minter \in Holders /\ minter # ComptrollerAddress /\ ComptrollerAddress \in Holders
  BY <1>1, StartOpen, MoneyMarketAssumption DEF t
<1>3. /\ s.totalSupply # 0 /\ exchangeRateStored(ctoken[m]) \in Nat /\ exchangeRateStored(s) \in Nat
      /\ exchangeRateStored(s) >= exchangeRateStored(ctoken[m])
  BY <1>1, ListedRate
<1>4. div_Exp(x, exchangeRateStored(s)) \in Nat
  BY <1>1, <1>3, DivExpNat
<1>5. t.accountTokens[ComptrollerAddress] = s.accountTokens[ComptrollerAddress]
  BY <1>1, <1>2, <1>4, MintedTokens
<1>6. pool(t) = pool(s) + x /\ sameStart(s, t) /\ t.totalSupply = s.totalSupply + div_Exp(x, exchangeRateStored(s))
  BY <1>1 DEF tokensMinted
<1>7. open(m, t)
  <2>1. pool(t) >= 0 /\ (pool(s) > 0 => pool(t) > 0)
    BY <1>2, <1>6
  <2> QED  BY <1>2, <1>5, <1>6, <2>1 DEF open, sameStart
<1>8. exchangeRateStored(t) >= exchangeRateStored(s)
  BY <1>1, <1>2, <1>3, AccountsAreHolders, RateOfMint
<1>9. exchangeRateStored(t) \in Nat
  <2>1. pool(t) \in Nat
    BY <1>2, <1>6
  <2>2. t.totalSupply # 0
    <3>1. s.totalSupply \in Nat
      BY PoolInt
    <3> QED  BY <1>3, <1>4, <1>6, <3>1
  <2> QED  BY <1>2, <2>1, <2>2, RateBounds
<1>10. exchangeRateStored(t) >= exchangeRateStored(ctoken[m])
  BY <1>3, <1>8, <1>9
<1> QED  BY <1>7, <1>10 DEF staysOpen, roseOrRounded, t

\* What arrives of a seed the assumption is about
enoughFor(m, x) ==
  IF m \in EtherMarkets THEN \E value \in Amounts \ {0} : x = received(m, value)
  ELSE x = received(m, IF initialExchangeRate[m] \div expScale = 0 THEN 1
                       ELSE initialExchangeRate[m] \div expScale)

\* A first mint with enough of a seed leaves tokens to the Comptroller and a
\* pool that is not empty.
LEMMA FirstMintOpens ==
  ASSUME SeedIsEnough, NEW m \in Markets, NEW s \in CTokenStorage, NEW t \in CTokenStorage,
         s.initialExchangeRateMantissa = initialExchangeRate[m], s.totalSupply = 0, pool(s) >= 0,
         NEW x \in Nat, enoughFor(m, x),
         tokensMinted(s, t, ComptrollerAddress, div_Exp(x, exchangeRateStored(s)), x)
  PROVE  /\ t.initialExchangeRateMantissa = initialExchangeRate[m]
         /\ pool(t) > 0 /\ t.accountTokens[ComptrollerAddress] > 0
<1> DEFINE rate == initialExchangeRate[m]
<1>1. exchangeRateStored(s) = rate
  BY DEF exchangeRateStored
<1>2. /\ ComptrollerAddress \in Holders /\ pool(s) \in Nat
      /\ rate \in Nat /\ rate # 0 /\ expScale \in Nat
  BY PoolInt, MoneyMarketAssumption, ExpScaleAssumption
<1> DEFINE n == div_Exp(x, rate)
<1>3. n > 0
  <2>1. CASE m \in EtherMarkets
    BY <2>1 DEF SeedIsEnough, enoughFor
  <2>2. CASE m \notin EtherMarkets
    BY <2>2 DEF SeedIsEnough, enoughFor
  <2> QED  BY <2>1, <2>2
<1> HIDE DEF rate
<1>4. x > 0
  <2>1. SUFFICES ASSUME x = 0 PROVE FALSE
    OBVIOUS
  <2>2. x * expScale = 0
    BY <1>2, <2>1
  <2>3. n = 0
    <3>1. 0 \div rate = 0
      BY <1>2
    <3> QED  BY <2>2, <3>1 DEF div_Exp
  <2> HIDE DEF n
  <2> QED  BY <1>3, <2>3
<1>5. n \in Nat
  BY <1>2, DivExpNat
<1> HIDE DEF n
<1>6. tokensMinted(s, t, ComptrollerAddress, n, x)
  BY <1>1 DEF n
<1>7. t.accountTokens[ComptrollerAddress] = s.accountTokens[ComptrollerAddress] + n
  BY <1>2, <1>5, <1>6, MintedTokens
<1>8. s.accountTokens[ComptrollerAddress] \in Nat
  BY <1>2 DEF CTokenStorage
<1>9. t.accountTokens[ComptrollerAddress] > 0
  BY <1>3, <1>5, <1>7, <1>8
<1>10. pool(t) > 0
  <2>1. pool(t) = pool(s) + x
    BY <1>6 DEF tokensMinted
  <2> QED  BY <1>2, <1>4, <2>1
<1>11. t.initialExchangeRateMantissa = initialExchangeRate[m]
  BY <1>6 DEF tokensMinted, sameStart
<1> QED  BY <1>9, <1>10, <1>11

\* The listing, with a seed that buys a token
LEMMA SeedingOpen ==
  ASSUME IndInv, SeedIsEnough, NEW m \in Markets, open(m, ctoken[m]), Seeding(m),
         ctoken'[m] \in CTokenStorage
  PROVE  /\ ctoken'[m].initialExchangeRateMantissa = initialExchangeRate[m]
         /\ pool(ctoken'[m]) > 0 /\ ctoken'[m].accountTokens[ComptrollerAddress] > 0
         /\ ~isListed(m)
<1> DEFINE t == ctoken'[m]
           rate == initialExchangeRate[m]
<1>1. PICK s \in CTokenStorage, x \in Nat :
         /\ Start(m, s) /\ ~isListed(m) /\ Seed(m, x)
         /\ tokensMinted(s, t, ComptrollerAddress, div_Exp(x, exchangeRateStored(s)), x)
  BY DEF Seeding
<1> HIDE DEF t
<1>2. /\ open(m, s) /\ pool(s) \in Nat /\ t \in CTokenStorage
  BY <1>1, StartOpen DEF t
<1>3. ctoken[m].totalSupply = 0 /\ s.totalSupply = 0
  BY <1>1, StartAges DEF IndInv, UnlistedIsInert
<1>4. exchangeRateStored(ctoken[m]) = rate /\ s.initialExchangeRateMantissa = rate
  BY <1>2, <1>3 DEF exchangeRateStored, open
<1>5. enoughFor(m, x)
  <2>1. CASE m \in EtherMarkets
    <3>1. PICK value \in Amounts : value > 0 /\ x = received(m, value)
      BY <1>1, <2>1 DEF Seed
    <3>2. value \in Amounts \ {0}
      <4>1. value \in Nat
        BY MoneyMarketAssumption
      <4> QED  BY <3>1, <4>1
    <3> QED  BY <2>1, <3>1, <3>2 DEF enoughFor
  <2>2. CASE m \notin EtherMarkets
    <3>1. x = received(m, seedAmount(ctoken[m]))
      BY <1>1, <2>2 DEF Seed
    <3>2. seedAmount(ctoken[m]) = IF rate \div expScale = 0 THEN 1 ELSE rate \div expScale
      BY <1>4 DEF seedAmount
    <3> QED  BY <2>2, <3>1, <3>2 DEF enoughFor
  <2> QED  BY <2>1, <2>2
<1>6. pool(s) >= 0
  BY <1>2
<1>7. /\ t.initialExchangeRateMantissa = rate
      /\ pool(t) > 0 /\ t.accountTokens[ComptrollerAddress] > 0
  BY <1>1, <1>2, <1>3, <1>4, <1>5, <1>6, FirstMintOpens
<1> QED  BY <1>1, <1>7 DEF t

\* A redemption, of tokens or of an amount
LEMMA RedeemingOpen ==
  ASSUME IndInv, NEW m \in Markets, open(m, ctoken[m]), Redeeming(m), ctoken'[m] \in CTokenStorage
  PROVE  staysOpen(m, ctoken'[m])
<1> DEFINE t == ctoken'[m]
           c == ctoken[m]
<1>1. PICK s \in CTokenStorage, redeemer \in Accounts, n \in Nat, x \in Nat :
         /\ Start(m, s) /\ isListed(m) /\ tokensRedeemed(s, t, redeemer, n, x)
         /\ \/ x * expScale <= exchangeRateStored(s) * n
            \/ /\ x * expScale < (n + 1) * exchangeRateStored(s)
               /\ \E amount \in Amounts : RedeemUnderlying(m, redeemer, amount)
  BY DEF Redeeming
<1> HIDE DEF t
<1>2. /\ open(m, s) /\ tokensAddUp(s) /\ pool(s) \in Nat /\ t \in CTokenStorage
      /\ redeemer \in Holders /\ redeemer # ComptrollerAddress /\ ComptrollerAddress \in Holders
  BY <1>1, StartOpen, MoneyMarketAssumption DEF t
<1>3. /\ s.totalSupply # 0 /\ pool(s) # 0
      /\ exchangeRateStored(c) \in Nat /\ exchangeRateStored(s) \in Nat
      /\ exchangeRateStored(s) >= exchangeRateStored(c)
  BY <1>1, ListedRate
<1>4. /\ n <= s.accountTokens[redeemer] /\ sameStart(s, t)
      /\ t.totalSupply = s.totalSupply - n /\ pool(t) = pool(s) - x
  BY <1>1 DEF tokensRedeemed
<1>5. n < s.totalSupply
  BY <1>1, <1>2, <1>4, SomeTokensStay
<1>6. t.accountTokens[ComptrollerAddress] = s.accountTokens[ComptrollerAddress]
  BY <1>1, <1>2, RedeemedTokens
<1>7. pool(t) > 0 => open(m, t)
  <2>1. pool(t) \in Int
    BY <1>2, PoolInt
  <2> QED  BY <1>1, <1>2, <1>4, <1>6, <2>1 DEF open, sameStart
<1>8. CASE x * expScale <= exchangeRateStored(s) * n
  <2>1. pool(t) > 0 /\ exchangeRateStored(t) >= exchangeRateStored(s)
    BY <1>2, <1>3, <1>4, <1>5, <1>8, RateOfTokens
  <2>2. exchangeRateStored(t) \in Nat
    <3>1. t.totalSupply # 0 /\ pool(t) \in Nat
      <4>1. pool(t) \in Int /\ s.totalSupply \in Nat /\ t.totalSupply \in Nat
        BY <1>2, PoolInt
      <4> QED  BY <1>4, <1>5, <2>1, <4>1
    <3> QED  BY <1>2, <3>1, RateBounds
  <2>3. exchangeRateStored(t) >= exchangeRateStored(c)
    BY <1>3, <2>1, <2>2
  <2> QED  BY <1>7, <2>1, <2>3 DEF staysOpen, roseOrRounded, t
<1>9. CASE /\ x * expScale < (n + 1) * exchangeRateStored(s)
           /\ \E amount \in Amounts : RedeemUnderlying(m, redeemer, amount)
  <2>1. pool(t) > 0 /\ pool(t) * s.totalSupply > pool(s) * (t.totalSupply - 1)
    BY <1>2, <1>3, <1>4, <1>5, <1>9, RateOfAmount
  <2>2. c \in CTokenStorage /\ aged(c, s)
    BY <1>1, MarketsSound, StartAges
  <2>3. c.totalSupply = s.totalSupply /\ pool(c) <= pool(s) /\ pool(c) \in Nat
    <3>1. pool(c) \in Int /\ pool(c) >= 0
      BY <2>2, PoolInt DEF open
    <3> QED  BY <1>2, <2>2, <3>1 DEF aged
  <2>4. t.totalSupply - 1 \in Nat /\ pool(t) \in Nat /\ s.totalSupply \in Nat
    <3>1. pool(t) \in Int /\ s.totalSupply \in Nat
      BY <1>2, PoolInt
    <3> QED  BY <1>4, <1>5, <2>1, <3>1
  <2> DEFINE u == t.totalSupply - 1
             a == pool(c)
             b == pool(s)
  <2>5. a * u <= b * u /\ a * u \in Nat /\ b * u \in Nat
    <3>1. u \in Nat /\ a \in Nat /\ b \in Nat /\ a <= b
      BY <1>2, <2>3, <2>4
    <3> HIDE DEF a, b, u
    <3> QED  BY <3>1, ProductMonotone, ProductNat
  <2>6. pool(t) * s.totalSupply \in Nat /\ pool(t) * s.totalSupply > b * u
    BY <2>1, <2>4, ProductNat
  <2>7. pool(t) * s.totalSupply > a * u
    BY <2>5, <2>6
  <2>8. pool(t) * c.totalSupply > pool(c) * (t.totalSupply - 1)
    BY <2>3, <2>7
  <2> QED  BY <1>7, <1>9, <2>1, <2>8 DEF staysOpen, roseOrRounded, t
<1> QED  BY <1>1, <1>8, <1>9

\* A seizure, which pays the reserves from the pool
LEMMA SeizingOpen ==
  ASSUME IndInv, NEW m \in Markets, open(m, ctoken[m]), Seizing(m), ctoken'[m] \in CTokenStorage
  PROVE  staysOpen(m, ctoken'[m])
<1> DEFINE t == ctoken'[m]
           c == ctoken[m]
           s == accrued(m)
<1>1. PICK r \in CTokenStorage, borrower \in Accounts, liquidator \in Accounts,
           n \in Nat, p \in Nat, x \in Nat :
         /\ canAccrue(ctoken[m], block) /\ isListed(m)
         /\ r = s \/ repaidTo(s, r)
         /\ x * expScale <= exchangeRateStored(r) * p
         /\ tokensSeized(r, t, borrower, liquidator, n, p, x)
  BY DEF Seizing
<1> HIDE DEF t
<1>2. Start(m, s) /\ s \in CTokenStorage
  BY <1>1, StartAccrued
<1>3. /\ s.totalSupply # 0 /\ pool(s) \in Nat /\ pool(s) # 0 /\ tokensAddUp(s) /\ open(m, s)
      /\ exchangeRateStored(c) \in Nat /\ exchangeRateStored(s) \in Nat
      /\ exchangeRateStored(s) >= exchangeRateStored(c)
  BY <1>1, <1>2, ListedRate, StartOpen
<1>4. /\ r.totalSupply = s.totalSupply /\ pool(r) = pool(s) /\ r.accountTokens = s.accountTokens
      /\ r.initialExchangeRateMantissa = s.initialExchangeRateMantissa
  BY <1>1, RepaidSame
<1>5. exchangeRateStored(r) = exchangeRateStored(s)
  BY <1>3, <1>4 DEF exchangeRateStored, pool
<1>6. /\ n <= r.accountTokens[borrower] /\ p <= n /\ sameStart(r, t)
      /\ t.totalSupply = r.totalSupply - p /\ pool(t) = pool(r) - x
  BY <1>1 DEF tokensSeized
<1>7. /\ borrower \in Holders /\ liquidator \in Holders /\ ComptrollerAddress \in Holders
      /\ borrower # ComptrollerAddress /\ liquidator # ComptrollerAddress /\ t \in CTokenStorage
  BY MoneyMarketAssumption DEF t
<1>8. p < r.totalSupply
  <2>1. n < s.totalSupply
    BY <1>1, <1>2, <1>3, <1>4, <1>6, SomeTokensStay
  <2>2. s.totalSupply \in Nat
    BY <1>2, PoolInt
  <2> QED  BY <1>4, <1>6, <2>1, <2>2
<1>9. t.accountTokens[ComptrollerAddress] = s.accountTokens[ComptrollerAddress]
  <2>1. tokensSeized(r, t, borrower, liquidator, n, p, x)
    BY <1>1
  <2> QED  BY <1>4, <1>7, <2>1, SeizedTokens
<1>10. pool(t) > 0 /\ exchangeRateStored(t) >= exchangeRateStored(r)
  <2>1. pool(r) \in Nat /\ pool(r) # 0
    BY <1>3, <1>4
  <2> QED  BY <1>1, <1>6, <1>7, <1>8, <2>1, RateOfTokens
<1>11. open(m, t)
  <2>1. pool(t) \in Int
    BY <1>7, PoolInt
  <2> QED  BY <1>1, <1>3, <1>4, <1>6, <1>9, <1>10, <2>1 DEF open, sameStart
<1>12. exchangeRateStored(t) \in Nat
  <2>1. t.totalSupply # 0 /\ pool(t) \in Nat
    <3>1. pool(t) \in Int /\ r.totalSupply \in Nat
      BY <1>7, PoolInt
    <3> QED  BY <1>6, <1>8, <1>10, <3>1
  <2> QED  BY <1>7, <2>1, RateBounds
<1>13. exchangeRateStored(t) >= exchangeRateStored(c)
  BY <1>3, <1>5, <1>10, <1>12
<1> QED  BY <1>11, <1>13 DEF staysOpen, roseOrRounded, t

\* Every effect but the listing keeps a market open, and a listed one's rate up.
LEMMA EffectOpen ==
  ASSUME IndInv, IndInv', NEW m \in Markets, open(m, ctoken[m]), Effect(m), ~Seeding(m)
  PROVE  staysOpen(m, ctoken'[m]) /\ StaysListed(m)
<1> DEFINE t == ctoken'[m]
<1>1. t \in CTokenStorage /\ StaysListed(m)
  BY NextMarket DEF Effect
<1>2. ctoken[m] \in CTokenStorage
  BY MarketsSound
<1>3. CASE Quieting(m)
  <2>1. PICK s \in CTokenStorage : Start(m, s) /\ quiet(s, t)
    BY <1>3 DEF Quieting
  <2> HIDE DEF t
  <2>2. staysOpen(m, t)
    BY <1>1, <2>1, SameTokensOpen DEF quiet, sameTokens
  <2> QED  BY <1>1, <2>2 DEF t
<1>4. CASE Minting(m)
  BY <1>1, <1>4, MintingOpen
<1>5. CASE Redeeming(m)
  BY <1>1, <1>5, RedeemingOpen
<1>6. CASE Transferring(m)
  <2>1. PICK src \in Accounts, dst \in Accounts, n \in TransferAmounts : tokensMoved(ctoken[m], t, src, dst, n)
    BY <1>6 DEF Transferring
  <2>2. /\ src \in Holders /\ dst \in Holders /\ n \in Nat /\ ComptrollerAddress \in Holders
        /\ src # ComptrollerAddress /\ dst # ComptrollerAddress
    BY MoneyMarketAssumption
  <2>3. t.accountTokens[ComptrollerAddress] = ctoken[m].accountTokens[ComptrollerAddress]
    BY <1>1, <1>2, <2>1, <2>2, MovedTokens
  <2>4. /\ t.totalSupply = ctoken[m].totalSupply /\ pool(t) >= pool(ctoken[m]) /\ sameStart(ctoken[m], t)
    BY <1>2, <2>1, PoolInt DEF tokensMoved
  <2>5. Start(m, ctoken[m])
    BY DEF Start
  <2> HIDE DEF t
  <2>6. staysOpen(m, t)
    BY <1>1, <2>3, <2>4, <2>5, SameTokensOpen
  <2> QED  BY <1>1, <2>6 DEF t
<1>7. ASSUME canAccrue(ctoken[m], block), t.accountTokens = accrued(m).accountTokens,
             t.totalSupply = accrued(m).totalSupply, pool(t) = pool(accrued(m)), sameStart(accrued(m), t)
      PROVE  staysOpen(m, t)
  <2>1. Start(m, accrued(m)) /\ accrued(m) \in CTokenStorage
    BY <1>7, StartAccrued
  <2>2. pool(t) >= pool(accrued(m))
    BY <1>7, <2>1, PoolInt
  <2> HIDE DEF t
  <2> QED  BY <1>1, <1>7, <2>1, <2>2, SameTokensOpen
<1>8. CASE Borrowing(m)
  <2>1. staysOpen(m, t)
    BY <1>7, <1>8 DEF Borrowing, debtSettled, sameTokens
  <2> QED  BY <1>1, <2>1
<1>9. CASE Repaying(m)
  <2>1. canAccrue(ctoken[m], block) /\ repaidTo(accrued(m), t)
    BY <1>9 DEF Repaying
  <2>2. staysOpen(m, t)
    BY <1>7, <2>1, RepaidSame DEF sameStart
  <2> QED  BY <1>1, <2>2
<1>10. CASE Seizing(m)
  BY <1>1, <1>10, SeizingOpen
<1> QED  BY <1>3, <1>4, <1>5, <1>6, <1>8, <1>9, <1>10 DEF Effect

\* Open markets stay open, the listing included.
LEMMA StepOpen ==
  ASSUME SeedIsEnough, IndInv, OpenInv, [Next]_vars
  PROVE  OpenInv'
<1> SUFFICES ASSUME NEW m \in Markets PROVE open(m, ctoken[m])'
  BY DEF OpenInv
<1>1. Effect(m) /\ open(m, ctoken[m]) /\ ctoken'[m] \in CTokenStorage /\ IndInv'
  BY StepEffects, StepKeeps, NextMarket DEF OpenInv
<1>2. CASE Seeding(m)
  <2>1. /\ pool(ctoken'[m]) > 0 /\ ctoken'[m].accountTokens[ComptrollerAddress] > 0
        /\ ctoken'[m].initialExchangeRateMantissa = initialExchangeRate[m]
    BY <1>1, <1>2, SeedingOpen
  <2>2. pool(ctoken'[m]) \in Int
    BY <1>1, PoolInt
  <2>3. pool(ctoken'[m]) >= 0
    BY <2>1, <2>2
  <2>4. pool(ctoken[m])' = pool(ctoken'[m])
    BY DEF pool, cashPlusBorrowsMinusReserves
  <2> QED  BY <2>1, <2>3, <2>4 DEF open
<1>3. CASE ~Seeding(m)
  <2>1. open(m, ctoken'[m]) /\ StaysListed(m)
    BY <1>1, <1>3, EffectOpen DEF staysOpen
  <2> QED  BY <2>1 DEF open, StaysListed, isListed, pool, cashPlusBorrowsMinusReserves
<1> QED  BY <1>2, <1>3

\* The state of deploy/ before the first listing
LEMMA InitOpen ==
  ASSUME Init
  PROVE  OpenInv
<1> SUFFICES ASSUME NEW m \in Markets PROVE open(m, ctoken[m])
  BY DEF OpenInv
<1>1. /\ ctoken[m] = initialize(initialExchangeRate[m], initialModel[m], 0)
      /\ ~isListed(m)
  BY DEF Init, ComptrollerInit, deployedComptroller, isListed
<1>2. /\ ctoken[m].initialExchangeRateMantissa = initialExchangeRate[m]
      /\ ctoken[m].cash = 0 /\ ctoken[m].totalBorrows = 0 /\ ctoken[m].totalReserves = 0
  BY <1>1 DEF initialize
<1>3. pool(ctoken[m]) = 0
  BY <1>2 DEF pool, cashPlusBorrowsMinusReserves
<1> QED  BY <1>1, <1>2, <1>3 DEF open

\* Where deploy/ leaves the protocol, the markets it listed are open.
LEMMA DeployedOpen ==
  ASSUME SeedIsEnough, NEW cf, NEW rf, NEW etherSeed, DeployedWith(cf, rf, etherSeed),
         DeployedInit(cf, rf, etherSeed)
  PROVE  OpenInv
<1> SUFFICES ASSUME NEW m \in Markets PROVE open(m, ctoken[m])
  BY DEF OpenInv
<1> DEFINE rate  == initialExchangeRate[m]
           fresh == initialize(rate, initialModel[m], 0)
           x == received(m, firstSeed(m, etherSeed))
           u == mintFresh(fresh, ComptrollerAddress, x)
<1>1. ctoken[m] = [u EXCEPT !.reserveFactorMantissa = rf[m]]
  BY DEF DeployedInit, firstSeed
<1>2. rate \in Nat \ {0} /\ initialModel[m] \in InterestRateModel
  BY MoneyMarketAssumption
<1>3. /\ fresh \in CTokenStorage /\ fresh.totalSupply = 0 /\ validMarket(fresh, 0)
      /\ fresh.initialExchangeRateMantissa = rate
      /\ fresh.cash = 0 /\ fresh.totalBorrows = 0 /\ fresh.totalReserves = 0
  BY <1>2, InitializeValid DEF initialize, validMarket
<1> HIDE DEF fresh
<1>4. pool(fresh) >= 0 /\ exchangeRateStored(fresh) = rate /\ exchangeRateDefined(fresh)
  BY <1>3 DEF pool, cashPlusBorrowsMinusReserves, exchangeRateStored, exchangeRateDefined
<1>5. etherSeed \in Amounts \ {0} /\ Amounts \subseteq Nat
  BY MoneyMarketAssumption DEF DeployedWith
<1>6. firstSeed(m, etherSeed) = IF m \in EtherMarkets THEN etherSeed
                                ELSE IF rate \div expScale = 0 THEN 1 ELSE rate \div expScale
  BY <1>4 DEF firstSeed, seedAmount, fresh
<1>7. enoughFor(m, x)
  BY <1>5, <1>6 DEF enoughFor
<1>8. x \in Nat
  <2>1. rate \div expScale \in Nat
    BY <1>2, QuotientNat, ExpScaleAssumption
  <2>2. firstSeed(m, etherSeed) \in Nat
    BY <1>5, <1>6, <2>1
  <2> QED  BY <2>2, ReceivedNat
<1> HIDE DEF x
<1>9. ComptrollerAddress \in Holders
  BY MoneyMarketAssumption
<1>10. u \in CTokenStorage
  <2>1. 0 \in Nat /\ exchangeRateStored(fresh) # 0
    BY <1>2, <1>4
  <2>2. validMarket(u, 0)
    BY <1>3, <1>4, <1>8, <1>9, <2>1, MintValid
  <2> QED  BY <2>2 DEF validMarket
<1>11. tokensMinted(fresh, u, ComptrollerAddress, div_Exp(x, exchangeRateStored(fresh)), x)
  BY <1>3, <1>8, <1>9, MintEffect
<1> HIDE DEF u, rate
<1>12. /\ u.initialExchangeRateMantissa = initialExchangeRate[m]
       /\ pool(u) > 0 /\ u.accountTokens[ComptrollerAddress] > 0
  <2>1. fresh.initialExchangeRateMantissa = initialExchangeRate[m]
    BY <1>3 DEF rate
  <2> QED  BY <1>3, <1>4, <1>7, <1>8, <1>10, <1>11, <2>1, FirstMintOpens
<1>13. /\ ctoken[m].initialExchangeRateMantissa = u.initialExchangeRateMantissa
       /\ pool(ctoken[m]) = pool(u) /\ ctoken[m].accountTokens = u.accountTokens
  BY <1>1, <1>10 DEF CTokenStorage, pool, cashPlusBorrowsMinusReserves
<1>14. pool(u) \in Int
  BY <1>10, PoolInt
<1> QED  BY <1>12, <1>13, <1>14 DEF open

\* From any state of both invariants on, listed markets stay open.
LEMMA OpenFrom ==
  ASSUME SeedIsEnough
  PROVE  IndInv /\ OpenInv /\ [][Next]_vars => [](IndInv /\ OpenInv)
<1>1. IndInv /\ OpenInv /\ [Next]_vars => OpenInv'
  BY StepOpen
<1> QED  BY <1>1, InvarianceFrom, PTL

LEMMA OpenMarkets ==
  ASSUME IndInv, OpenInv
  PROVE  ListedMarketStaysOpen
<1> SUFFICES ASSUME NEW m \in Markets, isListed(m)
             PROVE  /\ ctoken[m].accountTokens[ComptrollerAddress] > 0
                    /\ ctoken[m].cash + ctoken[m].totalBorrows > ctoken[m].totalReserves
  BY DEF ListedMarketStaysOpen
<1>1. /\ pool(ctoken[m]) > 0 /\ ctoken[m].accountTokens[ComptrollerAddress] > 0
      /\ ctoken[m] \in CTokenStorage
  BY MarketsSound DEF OpenInv, open
<1> QED  BY <1>1, PoolInt

\* ... and their exchange rates fall by rounding only.
LEMMA RatesRoundFrom ==
  ASSUME SeedIsEnough
  PROVE  IndInv /\ OpenInv /\ [][Next]_vars => ExchangeRateFallsOnlyByRounding
<1> DEFINE all ==
             \A m \in Markets :
                LET s == ctoken[m]  pool_s == cashPlusBorrowsMinusReserves(s)
                    pool_t == cashPlusBorrowsMinusReserves(ctoken'[m])
                IN  s.totalSupply > 0 =>
                      \/ exchangeRateStored(ctoken'[m]) >= exchangeRateStored(s)
                      \/ /\ \E a \in Accounts, amount \in Amounts : RedeemUnderlying(m, a, amount)
                         /\ pool_t * s.totalSupply > pool_s * (ctoken'[m].totalSupply - 1)
<1>1. ASSUME IndInv, OpenInv, [Next]_vars PROVE all
  <2> SUFFICES ASSUME NEW m \in Markets, ctoken[m].totalSupply > 0
               PROVE  roseOrRounded(m, ctoken[m], ctoken'[m])
    BY DEF roseOrRounded, pool
  <2>1. Effect(m) /\ open(m, ctoken[m]) /\ ctoken'[m] \in CTokenStorage /\ IndInv'
    BY <1>1, StepEffects, StepKeeps, NextMarket DEF OpenInv
  <2>2. isListed(m)
    BY <1>1 DEF IndInv, UnlistedIsInert
  <2>3. ~Seeding(m)
    BY <2>2 DEF Seeding
  <2> QED  BY <1>1, <2>1, <2>2, <2>3, EffectOpen DEF staysOpen
<1>2. [][IndInv /\ OpenInv /\ [Next]_vars]_vars => [][all]_vars
  BY <1>1, PTL
<1>3. IndInv /\ OpenInv /\ [][Next]_vars => [][all]_vars
  BY <1>2, OpenFrom, PTL
<1> QED  BY <1>3 DEF ExchangeRateFallsOnlyByRounding

\* If every listing mints a token, a listed market cannot be bricked: the
\* Comptroller keeps cTokens, so the supply is never zero again, and the
\* reserves, seizures and accrual included, never reach cash + borrows, so that
\* neither the exchange rate nor the utilization rate reverts.
THEOREM MarketsStayOpen ==
  ASSUME SeedIsEnough
  PROVE  Spec => []ListedMarketStaysOpen
<1>1. Init => IndInv /\ OpenInv
  BY InitEstablishes, InitOpen
<1>2. IndInv /\ OpenInv => ListedMarketStaysOpen
  BY OpenMarkets
<1> QED  BY <1>1, <1>2, OpenFrom, PTL DEF Spec

\* If every listing mints a token, the only transaction that lowers an exchange
\* rate is a redeemUnderlying, by less than the value of one cToken: all other
\* roundings, of mints, redemptions, seizures and interest, favour the holders.
THEOREM RatesOnlyRoundDown ==
  ASSUME SeedIsEnough
  PROVE  Spec => ExchangeRateFallsOnlyByRounding
<1>1. Init => IndInv /\ OpenInv
  BY InitEstablishes, InitOpen
<1> QED  BY <1>1, RatesRoundFrom, PTL DEF Spec
-----------------------------------------------------------------------------
(* Nobody drives itself below water.                                       *)

\* What n tokens of market m count as collateral at a rate, and what a debt
\* of x counts
collateralWorth(m, rate, n) ==
  mul_ScalarTruncate(mul_Exp(mul_Exp(comptroller.collateralFactorMantissa[m], rate), price[m]), n)

debtWorth(m, x) == mul_ScalarTruncate(price[m], x)

\* Truncating the value of a sum gives at most one more than its parts.
LEMMA ValueOfSum ==
  ASSUME NEW a \in Nat, NEW p \in Nat, NEW q \in Nat
  PROVE  /\ mul_ScalarTruncate(a, p) \in Nat /\ mul_ScalarTruncate(a, q) \in Nat
         /\ mul_ScalarTruncate(a, p + q) \in Nat
         /\ mul_ScalarTruncate(a, p + q) <= mul_ScalarTruncate(a, p) + mul_ScalarTruncate(a, q) + 1
<1> DEFINE x == a * p
           y == a * q
<1>1. x \in Nat /\ y \in Nat /\ a * (p + q) = x + y /\ p + q \in Nat
  OBVIOUS
<1>2. expScale \in Nat /\ expScale # 0
  BY ExpScaleAssumption
<1>3. /\ mul_ScalarTruncate(a, p) = x \div expScale
      /\ mul_ScalarTruncate(a, q) = y \div expScale
      /\ mul_ScalarTruncate(a, p + q) = (x + y) \div expScale
  BY <1>1 DEF mul_ScalarTruncate, truncate
<1> HIDE DEF x, y
<1>4. (x + y) \div expScale <= x \div expScale + y \div expScale + 1
  BY <1>1, <1>2, TruncatedSum
<1> QED  BY <1>1, <1>3, <1>4, ScalarTruncateNat

\* A factor is a natural, and so is a price.
LEMMA FactorNat ==
  ASSUME IndInv, NEW m \in Markets
  PROVE  comptroller.collateralFactorMantissa[m] \in Nat /\ price[m] \in Nat
<1>1. collateralFactorMaxMantissa \in Nat
  BY MoneyMarketAssumption
<1> QED  BY <1>1 DEF IndInv, TypeOK, ComptrollerTypeOK, ComptrollerStorage

\* A product grows with a factor, truncated or not.
LEMMA MulExpMonotone ==
  ASSUME NEW a \in Nat, NEW b \in Nat, a <= b, NEW c \in Nat
  PROVE  /\ mul_Exp(a, c) <= mul_Exp(b, c) /\ mul_Exp(c, a) <= mul_Exp(c, b)
         /\ mul_ScalarTruncate(a, c) <= mul_ScalarTruncate(b, c)
<1> DEFINE x == a * c
           y == b * c
<1>1. x \in Nat /\ y \in Nat /\ x <= y /\ c * a = x /\ c * b = y
  BY ProductNat, ProductMonotone
<1>2. expScale \in Nat /\ expScale # 0
  BY ExpScaleAssumption
<1>3. /\ mul_Exp(a, c) = x \div expScale /\ mul_Exp(b, c) = y \div expScale
      /\ mul_Exp(c, a) = x \div expScale /\ mul_Exp(c, b) = y \div expScale
      /\ mul_ScalarTruncate(a, c) = x \div expScale /\ mul_ScalarTruncate(b, c) = y \div expScale
  BY <1>1 DEF mul_Exp, mul_ScalarTruncate, truncate
<1> HIDE DEF x, y
<1> QED  BY <1>1, <1>2, <1>3, QuotientMonotone

\* The worth of tokens, of a sum of tokens, and at a higher rate
LEMMA CollateralWorth ==
  ASSUME IndInv, NEW m \in Markets, NEW rate \in Nat, NEW p \in Nat, NEW q \in Nat
  PROVE  /\ collateralWorth(m, rate, p) \in Nat
         /\ collateralWorth(m, rate, p + q) \in Nat
         /\ collateralWorth(m, rate, p + q)
              <= collateralWorth(m, rate, p) + collateralWorth(m, rate, q) + 1
         /\ collateralWorth(m, rate, 0) = 0
         /\ \A higher \in Nat : rate <= higher =>
               collateralWorth(m, rate, p) <= collateralWorth(m, higher, p)
<1> DEFINE f    == comptroller.collateralFactorMantissa[m]
           denom(r) == mul_Exp(mul_Exp(f, r), price[m])
<1>1. f \in Nat /\ price[m] \in Nat
  BY FactorNat
<1> HIDE DEF f
<1>2. \A r \in Nat : mul_Exp(f, r) \in Nat /\ denom(r) \in Nat
  BY <1>1, MulExpNat
<1>3. \A r, n : collateralWorth(m, r, n) = mul_ScalarTruncate(denom(r), n)
  BY DEF collateralWorth, f
<1>4. ASSUME NEW higher \in Nat, rate <= higher
      PROVE  mul_ScalarTruncate(denom(rate), p) <= mul_ScalarTruncate(denom(higher), p)
  <2>1. mul_Exp(f, rate) <= mul_Exp(f, higher)
    BY <1>1, <1>4, MulExpMonotone
  <2>2. denom(rate) <= denom(higher)
    BY <1>1, <1>2, <1>4, <2>1, MulExpMonotone
  <2> HIDE DEF denom
  <2> QED  BY <1>2, <1>4, <2>2, MulExpMonotone
<1> HIDE DEF denom
<1>5. mul_ScalarTruncate(denom(rate), 0) = 0
  <2>1. denom(rate) * 0 = 0 /\ expScale \in Nat \ {0}
    BY <1>2, ExpScaleAssumption
  <2>2. 0 \div expScale = 0
    BY <2>1
  <2> QED  BY <2>1, <2>2 DEF mul_ScalarTruncate, truncate
<1>6. denom(rate) \in Nat
  BY <1>2
<1>7. /\ mul_ScalarTruncate(denom(rate), p) \in Nat /\ mul_ScalarTruncate(denom(rate), p + q) \in Nat
      /\ mul_ScalarTruncate(denom(rate), p + q)
           <= mul_ScalarTruncate(denom(rate), p) + mul_ScalarTruncate(denom(rate), q) + 1
  BY <1>6, ValueOfSum
<1> QED  BY <1>3, <1>4, <1>5, <1>7

\* The worth of a debt
LEMMA DebtWorth ==
  ASSUME IndInv, NEW m \in Markets, NEW p \in Nat, NEW q \in Nat
  PROVE  /\ debtWorth(m, p) \in Nat /\ debtWorth(m, p + q) \in Nat
         /\ debtWorth(m, p + q) <= debtWorth(m, p) + debtWorth(m, q) + 1
         /\ debtWorth(m, 0) = 0
<1>1. price[m] \in Nat
  BY FactorNat
<1>2. mul_ScalarTruncate(price[m], 0) = 0
  <2>1. price[m] * 0 = 0 /\ expScale \in Nat \ {0}
    BY <1>1, ExpScaleAssumption
  <2>2. 0 \div expScale = 0
    BY <2>1
  <2> QED  BY <2>1, <2>2 DEF mul_ScalarTruncate, truncate
<1> QED  BY <1>1, <1>2, ValueOfSum DEF debtWorth

\* A market as the liquidity computation can read it
readable(s) == s \in CTokenStorage /\ exchangeRateDefined(s) /\ validSnapshots(s)

\* What one asset adds to the two sums
LEMMA AssetTerms ==
  ASSUME IndInv, NEW ct, NEW k \in Markets, readable(ct[k]), NEW h \in Holders,
         NEW m, NEW n \in Nat, NEW x \in Nat
  PROVE  LET s == ct[k]  rate == exchangeRateStored(s)
         IN  /\ rate \in Nat /\ s.accountTokens[h] \in Nat /\ borrowBalanceStored(s, h) \in Nat
             /\ collateralIn(ct, k, h) = collateralWorth(k, rate, s.accountTokens[h])
             /\ borrowPlusEffectsIn(ct, k, h, m, n, x) =
                  debtWorth(k, borrowBalanceStored(s, h))
                  + IF k # m THEN 0 ELSE collateralWorth(k, rate, n) + debtWorth(k, x)
             /\ collateralIn(ct, k, h) \in Nat
             /\ borrowPlusEffectsIn(ct, k, h, m, n, x) \in Nat
<1> DEFINE s == ct[k]
           rate == exchangeRateStored(s)
           bal  == borrowBalanceStored(s, h)
           tok  == s.accountTokens[h]
<1>1. rate \in Nat /\ tok \in Nat /\ bal \in Nat
  BY ExchangeRateNat, BorrowBalanceBound DEF readable, CTokenStorage
<1>2. /\ collateralIn(ct, k, h) = collateralWorth(k, rate, tok)
      /\ borrowPlusEffectsIn(ct, k, h, m, n, x) =
           debtWorth(k, bal) + IF k # m THEN 0 ELSE collateralWorth(k, rate, n) + debtWorth(k, x)
  BY DEF collateralIn, borrowPlusEffectsIn, collateralWorth, debtWorth, tokensToDenom
<1> HIDE DEF rate, bal, tok
<1>3. /\ collateralWorth(k, rate, tok) \in Nat /\ collateralWorth(k, rate, n) \in Nat
      /\ debtWorth(k, bal) \in Nat /\ debtWorth(k, x) \in Nat
  BY <1>1, CollateralWorth, DebtWorth
<1>4. /\ collateralIn(ct, k, h) \in Nat /\ borrowPlusEffectsIn(ct, k, h, m, n, x) \in Nat
  BY <1>2, <1>3
<1> QED  BY <1>1, <1>2, <1>4 DEF rate, bal, tok

\* Two sums, the first no greater than the second, of which one pair of terms
\* changes
LEMMA OneTermChanges ==
  ASSUME NEW S, IsFiniteSet(S), NEW k \in S, NEW b, NEW c, NEW d, NEW e,
         \A i \in S : b[i] \in Int /\ c[i] \in Int /\ d[i] \in Int /\ e[i] \in Int,
         \A i \in S \ {k} : d[i] = b[i] /\ e[i] = c[i],
         NEW over \in Int, d[k] - e[k] <= b[k] - c[k] + over,
         SumFunctionOnSet(b, S) <= SumFunctionOnSet(c, S)
  PROVE  /\ SumFunctionOnSet(d, S) \in Int /\ SumFunctionOnSet(e, S) \in Int
         /\ SumFunctionOnSet(d, S) - SumFunctionOnSet(e, S) <= over
<1>1. SumFunctionOnSet(d, S) = SumFunctionOnSet(b, S) - b[k] + d[k]
  BY SumChange
<1>2. SumFunctionOnSet(e, S) = SumFunctionOnSet(c, S) - c[k] + e[k]
  BY SumChange
<1>3. /\ SumFunctionOnSet(b, S) \in Int /\ SumFunctionOnSet(c, S) \in Int
      /\ SumFunctionOnSet(d, S) \in Int /\ SumFunctionOnSet(e, S) \in Int
  BY SumType
<1> QED  BY <1>1, <1>2, <1>3

\* A list that the liquidity computation can read
readableList(ct, list) ==
  /\ list \in Seq(Markets)
  /\ \A i \in DOMAIN list : readable(ct[list[i]])

\* The two sums as sums over the positions of the list
borrowTerms(ct, list, h, m, n, x) ==
  [i \in DOMAIN list |-> borrowPlusEffectsIn(ct, list[i], h, m, n, x)]

collateralTerms(ct, list, h) == [i \in DOMAIN list |-> collateralIn(ct, list[i], h)]

borrowTotal(ct, list, h, m, n, x) == SumFunctionOnSet(borrowTerms(ct, list, h, m, n, x), DOMAIN list)
collateralTotal(ct, list, h) == SumFunctionOnSet(collateralTerms(ct, list, h), DOMAIN list)

LEMMA LiquiditySums ==
  ASSUME IndInv, NEW ct, NEW list, readableList(ct, list), NEW h \in Holders,
         NEW m, NEW n \in Nat, NEW x \in Nat
  PROVE  /\ IsFiniteSet(DOMAIN list)
         /\ \A i \in DOMAIN list :
               /\ list[i] \in Markets
               /\ borrowTerms(ct, list, h, m, n, x)[i] \in Nat
               /\ collateralTerms(ct, list, h)[i] \in Nat
         /\ borrowTotal(ct, list, h, m, n, x) \in Nat /\ collateralTotal(ct, list, h) \in Nat
         /\ hypotheticalShortfall(ct, list, h, m, n, x)
              = IF collateralTotal(ct, list, h) > borrowTotal(ct, list, h, m, n, x) THEN 0
                ELSE borrowTotal(ct, list, h, m, n, x) - collateralTotal(ct, list, h)
<1> DEFINE D == DOMAIN list
           b == borrowTerms(ct, list, h, m, n, x)
           c == collateralTerms(ct, list, h)
<1>1. list \in Seq(Markets) /\ \A i \in D : readable(ct[list[i]])
  BY DEF readableList
<1>2. D = 1 .. Len(list) /\ Len(list) \in Nat /\ \A i \in D : list[i] \in Markets
  BY <1>1, LenProperties, ElementOfSeq
<1>3. IsFiniteSet(D)
  BY <1>2, FS_Interval
<1>4. SumFunction(b) = SumFunctionOnSet(b, D) /\ SumFunction(c) = SumFunctionOnSet(c, D)
  BY DEF SumFunction, borrowTerms, collateralTerms
<1>5. hypotheticalShortfall(ct, list, h, m, n, x)
        = IF SumFunction(c) > SumFunction(b) THEN 0 ELSE SumFunction(b) - SumFunction(c)
  BY DEF hypotheticalShortfall, sumCollateral, sumBorrowPlusEffects, borrowTerms, collateralTerms
<1>6. \A i \in D : b[i] \in Nat /\ c[i] \in Nat
  BY <1>1, <1>2, AssetTerms DEF borrowTerms, collateralTerms
<1> HIDE DEF D
<1>7. SumFunctionOnSet(b, D) \in Nat /\ SumFunctionOnSet(c, D) \in Nat
  <2> HIDE DEF b, c
  <2> QED  BY <1>3, <1>6, SumNat
<1>8. hypotheticalShortfall(ct, list, h, m, n, x)
        = IF SumFunctionOnSet(c, D) > SumFunctionOnSet(b, D) THEN 0
          ELSE SumFunctionOnSet(b, D) - SumFunctionOnSet(c, D)
  <2> HIDE DEF b, c
  <2> QED  BY <1>4, <1>5
<1> QED  BY <1>2, <1>3, <1>6, <1>7, <1>8 DEF D, borrowTotal, collateralTotal

\* No shortfall is expected, the asset at position k then counts for over less
\* than was expected, and nothing else changes.
LEMMA LiquidityMoves ==
  ASSUME IndInv, NEW h \in Holders, NEW list, noRepetition(list), NEW k \in DOMAIN list,
         NEW ct, NEW ct_, readableList(ct, list), readableList(ct_, list),
         \A j \in Markets \ {list[k]} : ct_[j] = ct[j],
         NEW n \in Nat, NEW x \in Nat,
         hypotheticalShortfall(ct, list, h, list[k], n, x) = 0,
         NEW over \in Int,
         borrowPlusEffectsIn(ct_, list[k], h, NoAddress, 0, 0) - collateralIn(ct_, list[k], h)
           <= borrowPlusEffectsIn(ct, list[k], h, list[k], n, x) - collateralIn(ct, list[k], h) + over
  PROVE  \/ hypotheticalShortfall(ct_, list, h, NoAddress, 0, 0) = 0
         \/ hypotheticalShortfall(ct_, list, h, NoAddress, 0, 0) <= over
<1> DEFINE D == DOMAIN list
           a == list[k]
           b == borrowTerms(ct, list, h, a, n, x)
           c == collateralTerms(ct, list, h)
           d == borrowTerms(ct_, list, h, NoAddress, 0, 0)
           e == collateralTerms(ct_, list, h)
           before == hypotheticalShortfall(ct, list, h, a, n, x)
           after  == hypotheticalShortfall(ct_, list, h, NoAddress, 0, 0)
<1>0. before = 0
  OBVIOUS
<1> HIDE DEF a
<1>1. /\ IsFiniteSet(D)
      /\ \A i \in D : list[i] \in Markets /\ b[i] \in Nat /\ c[i] \in Nat
      /\ SumFunctionOnSet(b, D) \in Nat /\ SumFunctionOnSet(c, D) \in Nat
      /\ before = IF SumFunctionOnSet(c, D) > SumFunctionOnSet(b, D) THEN 0
                  ELSE SumFunctionOnSet(b, D) - SumFunctionOnSet(c, D)
  BY LiquiditySums DEF borrowTotal, collateralTotal
<1>2. /\ \A i \in D : d[i] \in Nat /\ e[i] \in Nat
      /\ SumFunctionOnSet(d, D) \in Nat /\ SumFunctionOnSet(e, D) \in Nat
      /\ after = IF SumFunctionOnSet(e, D) > SumFunctionOnSet(d, D) THEN 0
                 ELSE SumFunctionOnSet(d, D) - SumFunctionOnSet(e, D)
  <2>1. \A z \in Nat :
           /\ \A i \in D : borrowTerms(ct_, list, h, NoAddress, z, z)[i] \in Nat /\ e[i] \in Nat
           /\ borrowTotal(ct_, list, h, NoAddress, z, z) \in Nat
           /\ collateralTotal(ct_, list, h) \in Nat
           /\ hypotheticalShortfall(ct_, list, h, NoAddress, z, z)
                = IF collateralTotal(ct_, list, h) > borrowTotal(ct_, list, h, NoAddress, z, z) THEN 0
                  ELSE borrowTotal(ct_, list, h, NoAddress, z, z) - collateralTotal(ct_, list, h)
    BY LiquiditySums
  <2> QED  BY <2>1 DEF borrowTotal, collateralTotal
<1>3. ASSUME NEW i \in D \ {k}
      PROVE  d[i] = b[i] /\ e[i] = c[i]
  <2>1. list[i] \in Markets /\ list[i] # a /\ ct_[list[i]] = ct[list[i]]
    BY <1>1, <1>3 DEF noRepetition, a
  <2>2. readable(ct[list[i]]) /\ readable(ct_[list[i]])
    BY <1>3 DEF readableList
  <2>3. /\ borrowPlusEffectsIn(ct, list[i], h, a, n, x)
             = debtWorth(list[i], borrowBalanceStored(ct[list[i]], h)) + 0
        /\ collateralIn(ct, list[i], h)
             = collateralWorth(list[i], exchangeRateStored(ct[list[i]]), ct[list[i]].accountTokens[h])
    BY <2>1, <2>2, AssetTerms
  <2>4. NoAddress \notin Markets
    BY MoneyMarketAssumption
  <2>5. /\ borrowPlusEffectsIn(ct_, list[i], h, NoAddress, 0, 0)
             = debtWorth(list[i], borrowBalanceStored(ct_[list[i]], h)) + 0
        /\ collateralIn(ct_, list[i], h)
             = collateralWorth(list[i], exchangeRateStored(ct_[list[i]]), ct_[list[i]].accountTokens[h])
    BY <2>1, <2>2, <2>4, AssetTerms
  <2> QED  BY <1>3, <2>1, <2>3, <2>5 DEF borrowTerms, collateralTerms
<1>4. d[k] - e[k] <= b[k] - c[k] + over
  BY DEF a, borrowTerms, collateralTerms
<1> HIDE DEF D, b, c, d, e, before, after
<1>5. SumFunctionOnSet(b, D) <= SumFunctionOnSet(c, D)
  BY <1>0, <1>1
<1>6. SumFunctionOnSet(d, D) - SumFunctionOnSet(e, D) <= over
  <2>1. k \in D
    BY DEF D
  <2>2. \A i \in D : b[i] \in Int /\ c[i] \in Int /\ d[i] \in Int /\ e[i] \in Int
    BY <1>1, <1>2
  <2> QED  BY <1>1, <1>3, <1>4, <1>5, <2>1, <2>2, OneTermChanges
<1>7. \A u, v, z \in Int : z = (IF u > v THEN 0 ELSE v - u) /\ v - u <= over => z = 0 \/ z <= over
  OBVIOUS
<1>8. after \in Int
  BY <1>2
<1> QED  BY <1>2, <1>6, <1>7, <1>8 DEF after

\* The primed reading of the liquidity
LEMMA NextShortfall ==
  ASSUME UNCHANGED <<comptroller, price>>, NEW h, NEW ct, ctoken' = ct,
         NEW list, accountAssets'[h] = list
  PROVE  shortfall(ctoken, h)' = hypotheticalShortfall(ct, list, h, NoAddress, 0, 0)
<1>1. comptroller' = comptroller /\ price' = price
  OBVIOUS
<1> QED  BY <1>1 DEF shortfall, hypotheticalShortfall, sumCollateral, sumBorrowPlusEffects,
                     collateralIn, borrowPlusEffectsIn, tokensToDenom

\* Tokens leave an account that had enough of everything else.
LEMMA TokensTaken ==
  ASSUME IndInv, NEW h \in Holders, NEW list, noRepetition(list), NEW k \in DOMAIN list,
         NEW ct, NEW ct_, readableList(ct, list), readableList(ct_, list),
         \A j \in Markets \ {list[k]} : ct_[j] = ct[j],
         NEW n \in Nat, NEW kept \in Nat,
         ct[list[k]].accountTokens[h] = kept + n, ct_[list[k]].accountTokens[h] = kept,
         sameDebts(ct[list[k]], ct_[list[k]]),
         hypotheticalShortfall(ct, list, h, list[k], n, 0) = 0,
         NEW over \in Int,
         collateralWorth(list[k], exchangeRateStored(ct[list[k]]), kept)
           - collateralWorth(list[k], exchangeRateStored(ct_[list[k]]), kept) <= over
  PROVE  \/ hypotheticalShortfall(ct_, list, h, NoAddress, 0, 0) = 0
         \/ hypotheticalShortfall(ct_, list, h, NoAddress, 0, 0) <= 1 + over
<1> DEFINE m  == list[k]
           s  == ct[m]
           t  == ct_[m]
           r  == exchangeRateStored(s)
           r_ == exchangeRateStored(t)
           debt == debtWorth(m, borrowBalanceStored(s, h))
<1>1. m \in Markets /\ readable(s) /\ readable(t) /\ NoAddress # m
  BY ElementOfSeq, LenProperties, MoneyMarketAssumption DEF readableList
<1>2. /\ r \in Nat /\ borrowBalanceStored(s, h) \in Nat
      /\ collateralIn(ct, m, h) = collateralWorth(m, r, kept + n)
      /\ borrowPlusEffectsIn(ct, m, h, m, n, 0) = debt + (collateralWorth(m, r, n) + debtWorth(m, 0))
  BY <1>1, AssetTerms
<1>3. borrowBalanceStored(t, h) = borrowBalanceStored(s, h)
  BY DEF sameDebts, borrowBalanceStored
<1>4. /\ r_ \in Nat
      /\ collateralIn(ct_, m, h) = collateralWorth(m, r_, kept)
      /\ borrowPlusEffectsIn(ct_, m, h, NoAddress, 0, 0) = debt + 0
  <2>1. \A z \in Nat :
           /\ r_ \in Nat
           /\ collateralIn(ct_, m, h) = collateralWorth(m, r_, t.accountTokens[h])
           /\ borrowPlusEffectsIn(ct_, m, h, NoAddress, z, z)
                = debtWorth(m, borrowBalanceStored(t, h))
                  + IF m # NoAddress THEN 0 ELSE collateralWorth(m, r_, z) + debtWorth(m, z)
    BY <1>1, AssetTerms
  <2> QED  BY <1>1, <1>3, <2>1
<1>5. debt \in Nat /\ debtWorth(m, 0) = 0
  BY <1>1, <1>2, DebtWorth
<1>6. collateralWorth(m, r, kept) - collateralWorth(m, r_, kept) <= over
  OBVIOUS
<1> HIDE DEF m, s, t, r, r_, debt
<1>7. /\ collateralWorth(m, r, kept) \in Nat /\ collateralWorth(m, r, n) \in Nat
      /\ collateralWorth(m, r, kept + n) \in Nat /\ collateralWorth(m, r_, kept) \in Nat
      /\ collateralWorth(m, r, kept + n) <= collateralWorth(m, r, kept) + collateralWorth(m, r, n) + 1
  BY <1>1, <1>2, <1>4, CollateralWorth
<1>8. borrowPlusEffectsIn(ct_, m, h, NoAddress, 0, 0) - collateralIn(ct_, m, h)
        <= borrowPlusEffectsIn(ct, m, h, m, n, 0) - collateralIn(ct, m, h) + (1 + over)
  BY <1>2, <1>4, <1>5, <1>6, <1>7
<1>9. borrowPlusEffectsIn(ct_, list[k], h, NoAddress, 0, 0) - collateralIn(ct_, list[k], h)
        <= borrowPlusEffectsIn(ct, list[k], h, list[k], n, 0) - collateralIn(ct, list[k], h) + (1 + over)
  BY <1>8 DEF m
<1>10. 1 + over \in Int
  OBVIOUS
<1> QED  BY <1>9, <1>10, LiquidityMoves

\* A member has the market in its list, at one position.
LEMMA MemberList ==
  ASSUME IndInv, NEW h \in Holders
  PROVE  /\ accountAssets[h] \in Seq(Markets) /\ noRepetition(accountAssets[h])
         /\ \A m \in Markets : h \in accountMembership[m] =>
               \E k \in DOMAIN accountAssets[h] : accountAssets[h][k] = m
<1>1. matching(positions) /\ accountAssets \in [Holders -> Seq(Markets)]
  BY DEF IndInv, AssetsMatchMembership, TypeOK, ComptrollerTypeOK
<1>2. /\ noRepetition(accountAssets[h])
      /\ \A m \in Markets : h \in accountMembership[m] <=> contains(accountAssets[h], m)
  BY <1>1 DEF matching, positions
<1> QED  BY <1>1, <1>2 DEF contains

\* The pool and the supply determine the rate.
LEMMA SameRate ==
  ASSUME NEW s \in CTokenStorage, NEW t \in CTokenStorage, exchangeRateDefined(s),
         t.totalSupply = s.totalSupply, pool(t) = pool(s), sameStart(s, t)
  PROVE  exchangeRateDefined(t) /\ exchangeRateStored(t) = exchangeRateStored(s)
<1>1. exchangeRateStored(t) = exchangeRateStored(s)
  BY DEF exchangeRateStored, pool, sameStart
<1>2. s.totalSupply = 0 \/ s.cash + s.totalBorrows >= s.totalReserves
  BY DEF exchangeRateDefined
<1>3. t.totalSupply = 0 \/ t.cash + t.totalBorrows >= t.totalReserves
  BY <1>2, PoolInt
<1> QED  BY <1>1, <1>3 DEF exchangeRateDefined

\* Where the rate is defined, the pool of a market with tokens is not negative.
LEMMA DefinedPool ==
  ASSUME NEW s \in CTokenStorage
  PROVE  exchangeRateDefined(s) <=> (s.totalSupply = 0 \/ pool(s) \in Nat)
BY PoolInt DEF exchangeRateDefined

\* What is redeemed for its worth leaves the rate of the tokens that are kept.
LEMMA RedeemedRate ==
  ASSUME NEW s \in CTokenStorage, tokensAddUp(s), exchangeRateDefined(s), NEW t \in CTokenStorage,
         NEW h \in Holders, NEW n \in Nat, NEW x \in Nat, tokensRedeemed(s, t, h, n, x)
  PROVE  /\ x * expScale <= exchangeRateStored(s) * n =>
              /\ exchangeRateDefined(t)
              /\ t.accountTokens[h] = 0 \/ exchangeRateStored(t) >= exchangeRateStored(s)
         /\ exchangeRateStored(s) # 0 /\ x * expScale < (n + 1) * exchangeRateStored(s) =>
              exchangeRateDefined(t)
<1> DEFINE r == exchangeRateStored(s)
           S == s.totalSupply
           P == pool(s)
           E == expScale
<1>1. /\ pool(t) = P - x /\ t.totalSupply = S - n
      /\ t.accountTokens[h] = s.accountTokens[h] - n
      /\ n <= s.accountTokens[h] /\ s.accountTokens[h] \in Nat
  BY DEF tokensRedeemed, CTokenStorage
<1>2. S \in Nat /\ P \in Int /\ E \in Nat /\ E # 0
  BY PoolInt, ExpScaleAssumption
<1>3. s.accountTokens[h] <= S
  <2>1. S = SumFunctionOnSet(s.accountTokens, Holders)
    BY DEF tokensAddUp
  <2>2. \A g \in Holders : s.accountTokens[g] \in Nat
    BY DEF CTokenStorage
  <2>3. IsFiniteSet(Holders \ {h}) /\ IsFiniteSet(Holders)
    BY HoldersFinite, FS_RemoveElement
  <2>4. SumFunctionOnSet(s.accountTokens, Holders)
          = s.accountTokens[h] + SumFunctionOnSet(s.accountTokens, Holders \ {h})
    BY <2>2, <2>3, SumSplit
  <2>5. SumFunctionOnSet(s.accountTokens, Holders \ {h}) \in Nat
    BY <2>2, <2>3, SumNat
  <2> QED  BY <2>1, <2>2, <2>4, <2>5
<1>4. CASE n = S
  <2>1. t.totalSupply = 0 /\ t.accountTokens[h] = 0
    BY <1>1, <1>2, <1>3, <1>4
  <2> QED  BY <2>1 DEF exchangeRateDefined
<1>5. CASE n # S
  <2>1. n < S /\ S # 0 /\ P \in Nat
    BY <1>1, <1>2, <1>3, <1>5, DefinedPool
  <2>2. r \in Nat /\ r * S <= P * E
    BY <2>1, RateBounds
  <2>3. CASE P # 0
    <3>1. ASSUME x * E <= r * n
          PROVE  exchangeRateDefined(t) /\ exchangeRateStored(t) >= r
      <4>1. pool(t) > 0 /\ exchangeRateStored(t) >= exchangeRateStored(s)
        BY <1>1, <2>1, <2>3, <3>1, RateOfTokens
      <4>2. pool(t) \in Nat
        BY <4>1, PoolInt
      <4> QED  BY <4>1, <4>2, DefinedPool
    <3>2. ASSUME x * E < (n + 1) * r
          PROVE  exchangeRateDefined(t)
      <4>1. pool(t) > 0
        BY <1>1, <2>1, <2>3, <3>2, RateOfAmount
      <4>2. pool(t) \in Nat
        BY <4>1, PoolInt
      <4> QED  BY <4>1, <4>2, DefinedPool
    <3> QED  BY <3>1, <3>2
  <2>4. CASE P = 0
    <3> HIDE DEF r, S, P, E
    <3>1. r = 0
      <4>1. r * S <= 0 * S
        BY <1>2, <2>2, <2>4
      <4>2. r <= 0
        BY <1>2, <2>1, <2>2, <4>1, ProductMonotone
      <4> QED  BY <2>2, <4>2
    <3>2. ASSUME x * E <= r * n
          PROVE  exchangeRateDefined(t) /\ exchangeRateStored(t) >= r
      <4>1. x * E <= 0 * E
        BY <1>2, <3>1, <3>2
      <4>2. x = 0
        BY <1>2, <4>1, ProductMonotone
      <4>3. pool(t) = 0 /\ pool(t) \in Nat
        BY <1>1, <2>4, <4>2
      <4>4. exchangeRateDefined(t)
        BY <4>3, DefinedPool
      <4>5. exchangeRateStored(t) \in Nat
        BY <4>4, ExchangeRateNat
      <4> QED  BY <3>1, <4>4, <4>5
    <3> QED  BY <3>1, <3>2 DEF r, E
  <2> QED  BY <2>3, <2>4
<1> QED  BY <1>4, <1>5

\* The hook and what it sees: every market of the list can be read.
LEMMA ReadableMarkets ==
  ASSUME IndInv, NEW m \in Markets, NEW s, Start(m, s), NEW list \in Seq(Markets),
         liquidityDefined([ctoken EXCEPT ![m] = s], list)
  PROVE  readableList([ctoken EXCEPT ![m] = s], list)
<1> DEFINE ct == [ctoken EXCEPT ![m] = s]
<1>1. ctoken \in [Markets -> CTokenStorage]
  BY DEF IndInv, TypeOK
<1>2. \A j \in Markets : ct[j] = IF j = m THEN s ELSE ctoken[j]
  BY <1>1
<1>3. s \in CTokenStorage /\ validSnapshots(s)
  BY StartAges DEF validMarket
<1>4. \A j \in Markets : ctoken[j] \in CTokenStorage /\ validSnapshots(ctoken[j])
  BY MarketsSound DEF validMarket
<1>5. \A j \in Markets : ct[j] \in CTokenStorage /\ validSnapshots(ct[j])
  BY <1>2, <1>3, <1>4
<1>6. \A i \in DOMAIN list : list[i] \in Markets
  BY LenProperties, ElementOfSeq
<1>7. \A i \in DOMAIN list : exchangeRateDefined(ct[list[i]])
  BY DEF liquidityDefined
<1> HIDE DEF ct
<1>8. readableList(ct, list)
  BY <1>5, <1>6, <1>7 DEF readableList, readable
<1> QED  BY <1>8 DEF ct

\* n of h's tokens of m leave it, and the hook has allowed that.
tokensLeft(m, h, s, t, n) ==
  /\ h \in accountMembership[m] /\ Start(m, s)
  /\ redeemAllowedInternal([ctoken EXCEPT ![m] = s], m, h, n)
  /\ readable(t) /\ sameDebts(s, t)
  /\ t.accountTokens[h] = s.accountTokens[h] - n /\ n <= s.accountTokens[h]
  /\ ctoken' = [ctoken EXCEPT ![m] = t] /\ UNCHANGED comptrollerVars

LEMMA TokensLeftCovered ==
  ASSUME IndInv, NEW m \in Markets, NEW h \in Holders, NEW s, NEW t, NEW n \in Nat,
         tokensLeft(m, h, s, t, n), NEW over \in Int,
         collateralWorth(m, exchangeRateStored(s), t.accountTokens[h])
           - collateralWorth(m, exchangeRateStored(t), t.accountTokens[h]) <= over
  PROVE  shortfall(ctoken, h)' = 0 \/ shortfall(ctoken, h)' <= 1 + over
<1> DEFINE list == accountAssets[h]
           ct   == [ctoken EXCEPT ![m] = s]
           ct_  == [ctoken EXCEPT ![m] = t]
           kept == t.accountTokens[h]
<1>1. /\ h \in accountMembership[m] /\ Start(m, s) /\ redeemAllowedInternal(ct, m, h, n)
      /\ readable(t) /\ sameDebts(s, t)
      /\ t.accountTokens[h] = s.accountTokens[h] - n /\ n <= s.accountTokens[h]
      /\ ctoken' = ct_ /\ UNCHANGED comptrollerVars
  BY DEF tokensLeft
<1>2. /\ list \in Seq(Markets) /\ noRepetition(list)
      /\ \E i \in DOMAIN list : list[i] = m
  BY <1>1, MemberList
<1>3. PICK k \in DOMAIN list : list[k] = m
  BY <1>2
<1>4. liquidityDefined(ct, list) /\ hypotheticalShortfall(ct, list, h, m, n, 0) = 0
  BY <1>1 DEF redeemAllowedInternal
<1>5. readableList(ct, list)
  BY <1>1, <1>2, <1>4, ReadableMarkets
<1>6. ctoken \in [Markets -> CTokenStorage]
  BY DEF IndInv, TypeOK
<1>7. /\ \A j \in Markets : ct[j] = IF j = m THEN s ELSE ctoken[j]
      /\ \A j \in Markets : ct_[j] = IF j = m THEN t ELSE ctoken[j]
  BY <1>6
<1>8. s \in CTokenStorage
  BY <1>1, StartAges
<1>9. kept \in Nat /\ s.accountTokens[h] \in Nat /\ s.accountTokens[h] = kept + n
  BY <1>1, <1>8 DEF readable, CTokenStorage
<1> HIDE DEF ct, ct_
<1>10. readableList(ct_, list)
  <2>1. \A i \in DOMAIN list : list[i] \in Markets
    BY <1>2, LenProperties, ElementOfSeq
  <2> QED  BY <1>1, <1>2, <1>5, <1>7, <2>1 DEF readableList
<1> HIDE DEF list, kept
<1>11. \A j \in Markets \ {m} : ct_[j] = ct[j]
  BY <1>7
<1>12. /\ ct[m].accountTokens[h] = kept + n /\ ct_[m].accountTokens[h] = kept
       /\ sameDebts(ct[m], ct_[m])
  BY <1>1, <1>7, <1>9 DEF kept
<1>13. collateralWorth(m, exchangeRateStored(ct[m]), kept)
         - collateralWorth(m, exchangeRateStored(ct_[m]), kept) <= over
  BY <1>7 DEF kept
<1>14. \/ hypotheticalShortfall(ct_, list, h, NoAddress, 0, 0) = 0
       \/ hypotheticalShortfall(ct_, list, h, NoAddress, 0, 0) <= 1 + over
  BY <1>2, <1>3, <1>4, <1>5, <1>9, <1>10, <1>11, <1>12, <1>13, TokensTaken
<1>15. shortfall(ctoken, h)' = hypotheticalShortfall(ct_, list, h, NoAddress, 0, 0)
  <2>1. UNCHANGED <<comptroller, price>> /\ accountAssets' = accountAssets /\ ctoken' = ct_
    BY <1>1 DEF comptrollerVars
  <2>2. accountAssets'[h] = list
    BY <2>1 DEF list
  <2> QED  BY <2>1, <2>2, NextShortfall
<1> QED  BY <1>14, <1>15

\* What a redemption of n tokens for x does
LEMMA RedemptionLeaves ==
  ASSUME IndInv, NEW m \in Markets, NEW h \in Holders, h \in accountMembership[m],
         canAccrue(ctoken[m], block), NEW n \in Nat, NEW x \in Nat,
         RedeemFresh(m, h, n, x), exchangeRateDefined(accrued(m)),
         \/ x * expScale <= exchangeRateStored(accrued(m)) * n
         \/ /\ exchangeRateStored(accrued(m)) # 0
            /\ x * expScale < (n + 1) * exchangeRateStored(accrued(m))
  PROVE  LET t == redeemFresh(accrued(m), h, n, x)
         IN  /\ tokensLeft(m, h, accrued(m), t, n) /\ ctoken'[m] = t
             /\ x * expScale <= exchangeRateStored(accrued(m)) * n =>
                  t.accountTokens[h] = 0 \/ exchangeRateStored(t) >= exchangeRateStored(accrued(m))
<1> DEFINE s == accrued(m)
           t == redeemFresh(s, h, n, x)
<1>1. /\ s.accountTokens[h] >= n /\ s.totalSupply >= n /\ s.cash >= x
      /\ redeemAllowedInternal([ctoken EXCEPT ![m] = s], m, h, n)
      /\ ctoken' = [ctoken EXCEPT ![m] = t] /\ UNCHANGED comptrollerVars
  BY DEF RedeemFresh, withAccrued
<1>2. Start(m, s) /\ s \in CTokenStorage /\ validMarket(s, block) /\ block \in Nat
  BY StartAccrued DEF IndInv, TypeOK
<1>3. s.accountTokens[h] \in Nat /\ n <= s.accountTokens[h]
  BY <1>1, <1>2 DEF CTokenStorage
<1>4. tokensRedeemed(s, t, h, n, x)
  BY <1>2, <1>3, RedeemEffect
<1>5. validMarket(t, block)
  BY <1>1, <1>2, RedeemValid
<1> HIDE DEF s, t
<1>6. t \in CTokenStorage /\ validSnapshots(t) /\ tokensAddUp(s)
  BY <1>2, <1>5 DEF validMarket
<1>7. /\ exchangeRateDefined(t)
      /\ x * expScale <= exchangeRateStored(s) * n =>
           t.accountTokens[h] = 0 \/ exchangeRateStored(t) >= exchangeRateStored(s)
  <2>1. exchangeRateDefined(s)
    BY DEF s
  <2>2. \/ x * expScale <= exchangeRateStored(s) * n
        \/ exchangeRateStored(s) # 0 /\ x * expScale < (n + 1) * exchangeRateStored(s)
    BY DEF s
  <2> QED  BY <1>2, <1>4, <1>6, <2>1, <2>2, RedeemedRate
<1>8. readable(t)
  BY <1>6, <1>7 DEF readable
<1>9. sameDebts(s, t) /\ t.accountTokens[h] = s.accountTokens[h] - n
  BY <1>2, <1>4 DEF tokensRedeemed, CTokenStorage
<1>10. tokensLeft(m, h, s, t, n)
  BY <1>1, <1>2, <1>3, <1>8, <1>9 DEF tokensLeft
<1>11. ctoken'[m] = t
  BY <1>1 DEF IndInv, TypeOK
<1> QED  BY <1>7, <1>10, <1>11 DEF s, t

\* redeem, of a market the redeemer is in
LEMMA RedeemCovered ==
  ASSUME IndInv, NEW m \in Markets, NEW h \in Accounts, h \in accountMembership[m],
         NEW tokens \in TokenAmounts, Redeem(m, h, tokens)
  PROVE  shortfall(ctoken, h)' <= 1
<1> DEFINE s == accrued(m)
           r == exchangeRateStored(s)
           x == mul_ScalarTruncate(r, tokens)
           t == redeemFresh(s, h, tokens, x)
           kept == t.accountTokens[h]
<1>0. tokens \in Nat /\ h \in Holders /\ expScale \in Nat /\ expScale # 0
  BY MoneyMarketAssumption, AccountsAreHolders, ExpScaleAssumption
<1>1. /\ canAccrue(ctoken[m], block) /\ exchangeRateDefined(s)
      /\ RedeemFresh(m, h, tokens, x)
  BY DEF Redeem
<1>2. s \in CTokenStorage
  BY <1>1, StartAccrued
<1>3. r \in Nat
  BY <1>1, <1>2, ExchangeRateNat
<1>4. x \in Nat /\ x * expScale <= r * tokens
  <2> HIDE DEF r
  <2>1. r * tokens \in Nat
    BY <1>0, <1>3, ProductNat
  <2>2. x = (r * tokens) \div expScale
    BY DEF mul_ScalarTruncate, truncate
  <2> QED  BY <1>0, <2>1, <2>2, QuotientBounds
<1> HIDE DEF x
<1>5. tokensLeft(m, h, s, t, tokens) /\ (kept = 0 \/ exchangeRateStored(t) >= r)
  BY <1>0, <1>1, <1>4, RedemptionLeaves
<1> HIDE DEF s, t
<1>6. t \in CTokenStorage /\ exchangeRateDefined(t) /\ kept \in Nat
  BY <1>0, <1>5 DEF tokensLeft, readable, CTokenStorage
<1>7. exchangeRateStored(t) \in Nat
  BY <1>6, ExchangeRateNat
<1> DEFINE r_ == exchangeRateStored(t)
<1> HIDE DEF r, r_, kept
<1>8. collateralWorth(m, r, kept) - collateralWorth(m, r_, kept) <= 0
  <2>1. r \in Nat /\ r_ \in Nat /\ kept \in Nat /\ (kept = 0 \/ r <= r_)
    BY <1>3, <1>5, <1>6, <1>7 DEF r_
  <2>2. /\ collateralWorth(m, r, kept) \in Nat /\ collateralWorth(m, r_, kept) \in Nat
        /\ collateralWorth(m, r, 0) = 0 /\ collateralWorth(m, r_, 0) = 0
        /\ r <= r_ => collateralWorth(m, r, kept) <= collateralWorth(m, r_, kept)
    BY <2>1, CollateralWorth
  <2>3. collateralWorth(m, r, kept) <= collateralWorth(m, r_, kept)
    BY <2>1, <2>2
  <2> QED  BY <2>2, <2>3
<1>9. shortfall(ctoken, h)' = 0 \/ shortfall(ctoken, h)' <= 1 + 0
  BY <1>0, <1>5, <1>8, TokensLeftCovered DEF r, r_, kept
<1> QED  BY <1>9

\* redeemUnderlying, of a market the redeemer is in
LEMMA RedeemUnderlyingCovered ==
  ASSUME IndInv, NEW m \in Markets, NEW h \in Accounts, h \in accountMembership[m],
         NEW amount \in Amounts, RedeemUnderlying(m, h, amount)
  PROVE  shortfall(ctoken, h)' <= 1 \/ shortfall(ctoken, h)' <= 1 + lostToRounding(m, h)
<1> DEFINE s == accrued(m)
           r == exchangeRateStored(s)
           n == div_Exp(amount, r)
           t == redeemFresh(s, h, n, amount)
           kept == t.accountTokens[h]
<1>0. amount \in Nat /\ h \in Holders /\ expScale \in Nat /\ expScale # 0
  BY MoneyMarketAssumption, AccountsAreHolders, ExpScaleAssumption
<1>1. /\ canAccrue(ctoken[m], block) /\ exchangeRateDefined(s) /\ r # 0
      /\ RedeemFresh(m, h, n, amount)
  BY DEF RedeemUnderlying
<1>2. s \in CTokenStorage
  BY <1>1, StartAccrued
<1>3. r \in Nat
  BY <1>1, <1>2, ExchangeRateNat
<1>4. n \in Nat /\ amount * expScale < (n + 1) * r
  <2> HIDE DEF r
  <2>1. amount * expScale \in Nat
    BY <1>0, ProductNat
  <2>2. n = (amount * expScale) \div r
    BY DEF div_Exp
  <2> QED  BY <1>1, <1>3, <2>1, <2>2, QuotientBounds
<1> HIDE DEF n
<1>5. tokensLeft(m, h, s, t, n) /\ ctoken'[m] = t
  BY <1>0, <1>1, <1>4, RedemptionLeaves
<1> HIDE DEF t
<1>6. t \in CTokenStorage /\ exchangeRateDefined(t) /\ kept \in Nat
  BY <1>0, <1>5 DEF tokensLeft, readable, CTokenStorage
<1>7. exchangeRateStored(t) \in Nat
  BY <1>6, ExchangeRateNat
<1> DEFINE r_ == exchangeRateStored(t)
           lost == collateralWorth(m, r, kept) - collateralWorth(m, r_, kept)
<1>8. lostToRounding(m, h) = lost
  <2>1. withAccrued(m)[m] = s
    BY DEF withAccrued, IndInv, TypeOK
  <2> QED  BY <1>5, <2>1 DEF lostToRounding, collateralWorth, tokensToDenom
<1> HIDE DEF r, r_, kept
<1>9. lost \in Int
  BY <1>3, <1>6, <1>7, CollateralWorth DEF r_
<1>10. shortfall(ctoken, h)' = 0 \/ shortfall(ctoken, h)' <= 1 + lost
  BY <1>0, <1>4, <1>5, <1>9, TokensLeftCovered DEF r, r_, kept
<1> QED  BY <1>8, <1>10

\* transfer and transferFrom, of tokens of a market their owner is in
LEMMA TransferCovered ==
  ASSUME IndInv, NEW m \in Markets, NEW h \in Accounts, h \in accountMembership[m],
         NEW tokens \in TransferAmounts, NEW spender \in Accounts, NEW dst \in Accounts,
         Transfer(m, spender, h, dst, tokens)
  PROVE  shortfall(ctoken, h)' <= 1
<1> DEFINE s == ctoken[m]
           t == transferTokens(s, spender, h, dst, tokens)
<1>0. /\ tokens \in Nat /\ h \in Holders /\ dst \in Holders /\ spender \in Holders /\ block \in Nat
      /\ s \in CTokenStorage /\ validMarket(s, block)
  BY MoneyMarketAssumption, AccountsAreHolders, MarketsSound DEF IndInv, TypeOK
<1>1. /\ redeemAllowedInternal(ctoken, m, h, tokens) /\ h # dst
      /\ startingAllowance(s, spender, h) >= tokens /\ s.accountTokens[h] >= tokens
      /\ ctoken' = [ctoken EXCEPT ![m] = t] /\ UNCHANGED comptrollerVars
  BY DEF Transfer, transferAllowed
<1>2. s.accountTokens[h] \in Nat /\ tokens <= s.accountTokens[h]
  BY <1>0, <1>1 DEF CTokenStorage
<1>3. tokensMoved(s, t, h, dst, tokens)
  BY <1>0, <1>1, <1>2, TransferEffect
<1>4. validMarket(t, block)
  BY <1>0, <1>1, TransferValid
<1> HIDE DEF t
<1>5. [ctoken EXCEPT ![m] = s] = ctoken
  BY DEF IndInv, TypeOK
<1>6. exchangeRateDefined(s)
  <2>1. PICK k \in DOMAIN accountAssets[h] : accountAssets[h][k] = m
    BY <1>0, MemberList
  <2>2. liquidityDefined(ctoken, accountAssets[h])
    BY <1>1 DEF redeemAllowedInternal
  <2> QED  BY <2>1, <2>2 DEF liquidityDefined
<1>7. Start(m, s)
  BY DEF Start
<1> HIDE DEF s
<1>8. t \in CTokenStorage /\ validSnapshots(t)
  BY <1>4 DEF validMarket
<1>9. exchangeRateDefined(t) /\ exchangeRateStored(t) = exchangeRateStored(s)
  BY <1>0, <1>3, <1>6, <1>8, SameRate DEF tokensMoved
<1>10. sameDebts(s, t) /\ t.accountTokens[h] = s.accountTokens[h] - tokens
  BY <1>0, <1>3 DEF tokensMoved, CTokenStorage
<1>11. tokensLeft(m, h, s, t, tokens)
  BY <1>1, <1>2, <1>5, <1>7, <1>8, <1>9, <1>10 DEF tokensLeft, readable
<1>12. collateralWorth(m, exchangeRateStored(s), t.accountTokens[h])
         - collateralWorth(m, exchangeRateStored(t), t.accountTokens[h]) <= 0
  <2>1. exchangeRateStored(s) \in Nat /\ t.accountTokens[h] \in Nat
    BY <1>0, <1>6, <1>8, ExchangeRateNat DEF CTokenStorage
  <2>2. collateralWorth(m, exchangeRateStored(s), t.accountTokens[h]) \in Nat
    BY <2>1, CollateralWorth
  <2> QED  BY <1>9, <2>2
<1>13. shortfall(ctoken, h)' = 0 \/ shortfall(ctoken, h)' <= 1 + 0
  BY <1>0, <1>11, <1>12, TokensLeftCovered
<1> QED  BY <1>13

\* borrow, also of a market that the borrower joins by it
LEMMA BorrowCovered ==
  ASSUME IndInv, NEW m \in Markets, NEW h \in Accounts, NEW x \in Amounts, Borrow(m, h, x)
  PROVE  shortfall(ctoken, h)' <= 1
<1> DEFINE s    == accrued(m)
           t    == borrowFresh(s, h, x)
           q    == addToMarketInternal(positions, m, h)
           list == q.assets[h]
           ct   == [ctoken EXCEPT ![m] = s]
           ct_  == [ctoken EXCEPT ![m] = t]
           owed == borrowBalanceStored(s, h)
<1>0. x \in Nat /\ h \in Holders /\ block \in Nat
  BY MoneyMarketAssumption, AccountsAreHolders DEF IndInv, TypeOK
<1>1. /\ canAccrue(ctoken[m], block) /\ s.cash >= x /\ isListed(m)
      /\ liquidityDefined(ct, list) /\ hypotheticalShortfall(ct, list, h, m, 0, x) = 0
      /\ ctoken' = ct_ /\ accountAssets' = q.assets /\ UNCHANGED <<comptroller, price>>
  BY DEF Borrow, borrowAllowed, withAccrued, SetPositions
<1>2. positions \in Positions /\ matching(positions)
  BY DEF IndInv, TypeOK, ComptrollerTypeOK, positions, Positions, AssetsMatchMembership
<1>3. q \in Positions /\ matching(q) /\ h \in q.membership[m]
  BY <1>0, <1>1, <1>2, AddToMarketMatches
<1>4. list \in Seq(Markets) /\ noRepetition(list) /\ contains(list, m)
  BY <1>0, <1>3 DEF Positions, matching
<1>5. PICK k \in DOMAIN list : list[k] = m
  BY <1>4 DEF contains
<1>6. Start(m, s) /\ s \in CTokenStorage /\ validMarket(s, block)
  BY <1>1, StartAccrued
<1>7. readableList(ct, list)
  BY <1>1, <1>4, <1>6, ReadableMarkets
<1>8. /\ \A j \in Markets : ct[j] = IF j = m THEN s ELSE ctoken[j]
      /\ \A j \in Markets : ct_[j] = IF j = m THEN t ELSE ctoken[j]
  BY DEF IndInv, TypeOK
<1>9. readable(s)
  BY <1>5, <1>7, <1>8 DEF readableList
<1>10. owed \in Nat /\ owed + x \in Nat
  BY <1>0, <1>9, BorrowBalanceBound DEF readable
<1>11. debtSettled(s, t, h, owed + x) /\ validMarket(t, block)
  BY <1>0, <1>1, <1>6, <1>9, BorrowEffect, BorrowValid DEF readable
<1> HIDE DEF s, t, q, list, ct, ct_, owed
<1>12. t \in CTokenStorage /\ validSnapshots(t)
  BY <1>11 DEF validMarket
<1>13. /\ exchangeRateDefined(t) /\ exchangeRateStored(t) = exchangeRateStored(s)
       /\ t.accountTokens = s.accountTokens
  BY <1>6, <1>9, <1>11, <1>12, SameRate DEF debtSettled, sameTokens, readable
<1>14. borrowBalanceStored(t, h) = owed + x
  BY <1>0, <1>6, <1>10, <1>11, <1>12, SettledBalance
<1>15. readable(t)
  BY <1>12, <1>13 DEF readable
<1>16. readableList(ct_, list)
  <2>1. \A i \in DOMAIN list : list[i] \in Markets
    BY <1>4, LenProperties, ElementOfSeq
  <2> QED  BY <1>4, <1>7, <1>8, <1>15, <2>1 DEF readableList
<1>17. ct[m] = s /\ ct_[m] = t /\ m # NoAddress
  BY <1>8, MoneyMarketAssumption
<1> DEFINE r == exchangeRateStored(s)
           n == s.accountTokens[h]
<1>18. \A z \in Nat :
          /\ r \in Nat /\ n \in Nat
          /\ collateralIn(ct, m, h) = collateralWorth(m, r, n)
          /\ borrowPlusEffectsIn(ct, m, h, m, z, x)
               = debtWorth(m, owed) + (collateralWorth(m, r, z) + debtWorth(m, x))
          /\ collateralIn(ct, m, h) \in Nat
  BY <1>0, <1>9, <1>17, AssetTerms DEF owed
<1>19. \A z \in Nat :
          /\ collateralIn(ct_, m, h) = collateralWorth(m, r, n)
          /\ borrowPlusEffectsIn(ct_, m, h, NoAddress, z, z) = debtWorth(m, owed + x) + 0
  BY <1>0, <1>13, <1>14, <1>15, <1>17, AssetTerms
<1>20. /\ debtWorth(m, owed) \in Nat /\ debtWorth(m, x) \in Nat /\ debtWorth(m, owed + x) \in Nat
       /\ debtWorth(m, owed + x) <= debtWorth(m, owed) + debtWorth(m, x) + 1
  BY <1>0, <1>10, DebtWorth
<1>21. collateralWorth(m, r, 0) = 0
  BY <1>18, CollateralWorth
<1> HIDE DEF r, n
<1>22. borrowPlusEffectsIn(ct_, m, h, NoAddress, 0, 0) - collateralIn(ct_, m, h)
         <= borrowPlusEffectsIn(ct, m, h, m, 0, x) - collateralIn(ct, m, h) + 1
  <2>1. /\ borrowPlusEffectsIn(ct_, m, h, NoAddress, 0, 0) = debtWorth(m, owed + x) + 0
        /\ borrowPlusEffectsIn(ct, m, h, m, 0, x)
             = debtWorth(m, owed) + (collateralWorth(m, r, 0) + debtWorth(m, x))
        /\ collateralIn(ct_, m, h) = collateralIn(ct, m, h) /\ collateralIn(ct, m, h) \in Nat
    BY <1>18, <1>19
  <2> QED  BY <1>20, <1>21, <2>1
<1>23. \A j \in Markets \ {m} : ct_[j] = ct[j]
  BY <1>8
<1>24. \/ hypotheticalShortfall(ct_, list, h, NoAddress, 0, 0) = 0
       \/ hypotheticalShortfall(ct_, list, h, NoAddress, 0, 0) <= 1
  <2>1. 0 \in Nat /\ 1 \in Int
    OBVIOUS
  <2> QED  BY <1>0, <1>1, <1>4, <1>5, <1>7, <1>16, <1>22, <1>23, <2>1, LiquidityMoves
<1>25. shortfall(ctoken, h)' = hypotheticalShortfall(ct_, list, h, NoAddress, 0, 0)
  <2>1. accountAssets'[h] = list
    BY <1>1 DEF list
  <2> QED  BY <1>1, <2>1, NextShortfall
<1> QED  BY <1>24, <1>25

\* The terms f of a sum, and g after the last of them has taken the place of
\* the one at k
withoutTerm(f, g, L, k) ==
  /\ \A i \in 1 .. L : f[i] \in Nat
  /\ \A i \in 1 .. L - 1 : g[i] = IF i = k THEN f[L] ELSE f[i]

LEMMA RemovedTerm ==
  ASSUME NEW L \in Nat, NEW k \in 1 .. L, NEW f, NEW g, withoutTerm(f, g, L, k)
  PROVE  /\ SumFunctionOnSet(g, 1 .. L - 1) = SumFunctionOnSet(f, 1 .. L) - f[k]
         /\ SumFunctionOnSet(f, 1 .. L) \in Nat /\ f[k] \in Nat
<1> DEFINE S == 1 .. L
           R == 1 .. L - 1
<1>1. L \in S /\ R = S \ {L} /\ R \subseteq S /\ k \in S
  OBVIOUS
<1>2. IsFiniteSet(S) /\ IsFiniteSet(R)
  BY FS_Interval
<1>3. /\ \A i \in S : f[i] \in Nat
      /\ \A i \in R : g[i] = IF i = k THEN f[L] ELSE f[i]
      /\ \A i \in S : f[i] \in Int
  BY DEF withoutTerm
<1> HIDE DEF S, R
<1>4. SumFunctionOnSet(f, S) = f[L] + SumFunctionOnSet(f, R)
  BY <1>1, <1>2, <1>3, SumSplit
<1>5. SumFunctionOnSet(f, R) \in Nat /\ SumFunctionOnSet(f, S) \in Nat /\ f[k] \in Nat /\ f[L] \in Nat
  BY <1>1, <1>2, <1>3, SumNat
<1>6. SumFunctionOnSet(g, R) = SumFunctionOnSet(f, S) - f[k]
  <2>1. CASE k = L
    <3>1. \A i \in R : g[i] = f[i]
      BY <1>1, <1>3, <2>1
    <3>2. SumFunctionOnSet(g, R) = SumFunctionOnSet(f, R)
      BY <1>2, <3>1, SumSame
    <3> QED  BY <1>4, <1>5, <2>1, <3>2
  <2>2. CASE k # L
    <3>1. k \in R /\ g[k] = f[L] /\ \A i \in R \ {k} : g[i] = f[i]
      BY <1>1, <1>3, <2>2
    <3>2. \A i \in R : f[i] \in Int
      BY <1>1, <1>3
    <3>3. \A i \in R : g[i] \in Int
      BY <1>1, <1>3, <1>5
    <3>4. k \in R /\ IsFiniteSet(R) /\ \A i \in R \ {k} : g[i] = f[i]
      BY <1>2, <3>1
    <3>5. IsFiniteSet(R \ {k})
      BY <1>2, FS_RemoveElement
    <3>6. SumFunctionOnSet(f, R) = f[k] + SumFunctionOnSet(f, R \ {k})
      BY <3>2, <3>4, SumSplit
    <3>7. SumFunctionOnSet(g, R) = g[k] + SumFunctionOnSet(g, R \ {k})
      BY <3>3, <3>4, SumSplit
    <3>8. SumFunctionOnSet(g, R \ {k}) = SumFunctionOnSet(f, R \ {k})
      BY <3>4, <3>5, SumSame
    <3>9. SumFunctionOnSet(f, R \ {k}) \in Int
      BY <3>2, <3>5, SumType
    <3> QED  BY <1>4, <1>5, <3>1, <3>6, <3>7, <3>8, <3>9
  <2> QED  BY <2>1, <2>2
<1> QED  BY <1>5, <1>6 DEF S, R

\* exitMarket
LEMMA ExitCovered ==
  ASSUME IndInv, NEW m \in Markets, NEW h \in Accounts,
         ExitMarket(ctoken, h, m), UNCHANGED marketVars
  PROVE  shortfall(ctoken, h)' <= 1
<1> DEFINE list == accountAssets[h]
           n    == ctoken[m].accountTokens[h]
<1>0. h \in Holders /\ accountAssets \in [Holders -> Seq(Markets)] /\ list \in Seq(Markets)
  BY AccountsAreHolders DEF IndInv, TypeOK, ComptrollerTypeOK
<1>1. /\ h \in accountMembership[m] /\ borrowBalanceStored(ctoken[m], h) = 0
      /\ liquidityDefined(ctoken, list) /\ hypotheticalShortfall(ctoken, list, h, m, n, 0) = 0
      /\ UNCHANGED <<comptroller, price>> /\ ctoken' = ctoken
  BY DEF ExitMarket, redeemAllowedInternal, marketVars
<1>2. PICK k \in DOMAIN list :
         /\ list[k] = m
         /\ accountAssets' = [accountAssets EXCEPT ![h] = swapAndPop(list, k)]
  BY DEF ExitMarket
<1> DEFINE L       == Len(list)
           shorter == swapAndPop(list, k)
<1>3. /\ shorter \in Seq(Markets) /\ L \in Nat /\ DOMAIN list = 1 .. L
      /\ DOMAIN shorter = 1 .. L - 1
      /\ \A i \in 1 .. L - 1 : shorter[i] = IF i = k THEN list[L] ELSE list[i]
  BY <1>0, <1>2, SwapAndPopElements
<1>4. readableList(ctoken, list)
  <2>1. [ctoken EXCEPT ![m] = ctoken[m]] = ctoken
    BY DEF IndInv, TypeOK
  <2>2. Start(m, ctoken[m])
    BY DEF Start
  <2>3. liquidityDefined([ctoken EXCEPT ![m] = ctoken[m]], list)
    BY <1>1, <2>1
  <2>4. readableList([ctoken EXCEPT ![m] = ctoken[m]], list)
    BY <1>0, <2>2, <2>3, ReadableMarkets
  <2> QED  BY <2>1, <2>4
<1>5. accountAssets'[h] = shorter
  BY <1>0, <1>2
<1> HIDE DEF list, shorter, L
<1>6. readableList(ctoken, shorter)
  <2>1. \A i \in 1 .. L - 1 : i \in DOMAIN list /\ (i = k => L \in DOMAIN list)
    BY <1>3
  <2>2. \A i \in 1 .. L - 1 : \E j \in DOMAIN list : shorter[i] = list[j]
    BY <1>3, <2>1
  <2> QED  BY <1>3, <1>4, <2>2 DEF readableList
<1>7. readable(ctoken[m]) /\ m # NoAddress
  BY <1>2, <1>4, MoneyMarketAssumption DEF readableList
<1>8. n \in Nat
  BY <1>0, <1>7 DEF readable, CTokenStorage
<1> DEFINE b == borrowTerms(ctoken, list, h, m, n, 0)
           c == collateralTerms(ctoken, list, h)
           d == borrowTerms(ctoken, shorter, h, NoAddress, 0, 0)
           e == collateralTerms(ctoken, shorter, h)
           after == hypotheticalShortfall(ctoken, shorter, h, NoAddress, 0, 0)
<1>9. /\ \A i \in DOMAIN list :
            /\ list[i] \in Markets
            /\ \A z \in Nat : borrowTerms(ctoken, list, h, m, n, z)[i] \in Nat
            /\ c[i] \in Nat
      /\ \A z \in Nat : hypotheticalShortfall(ctoken, list, h, m, n, z)
           = IF collateralTotal(ctoken, list, h) > borrowTotal(ctoken, list, h, m, n, z) THEN 0
             ELSE borrowTotal(ctoken, list, h, m, n, z) - collateralTotal(ctoken, list, h)
  BY <1>0, <1>4, <1>8, LiquiditySums
<1>10. \A z \in Nat : hypotheticalShortfall(ctoken, shorter, h, NoAddress, z, z)
          = IF collateralTotal(ctoken, shorter, h) > borrowTotal(ctoken, shorter, h, NoAddress, z, z)
            THEN 0
            ELSE borrowTotal(ctoken, shorter, h, NoAddress, z, z) - collateralTotal(ctoken, shorter, h)
  BY <1>0, <1>6, LiquiditySums
<1>11. b[k] = c[k]
  <2> DEFINE bal == borrowBalanceStored(ctoken[m], h)
             w   == collateralWorth(m, exchangeRateStored(ctoken[m]), n)
  <2>1. /\ borrowPlusEffectsIn(ctoken, m, h, m, n, 0) = debtWorth(m, bal) + (w + debtWorth(m, 0))
        /\ collateralIn(ctoken, m, h) = w
    BY DEF borrowPlusEffectsIn, collateralIn, collateralWorth, debtWorth, tokensToDenom
  <2>2. debtWorth(m, 0) = 0 /\ bal = 0
    BY <1>1, DebtWorth
  <2>3. exchangeRateStored(ctoken[m]) \in Nat
    BY <1>7, ExchangeRateNat DEF readable
  <2>4. w \in Nat
    BY <1>8, <2>3, CollateralWorth
  <2> HIDE DEF bal, w
  <2>5. borrowPlusEffectsIn(ctoken, m, h, m, n, 0) = collateralIn(ctoken, m, h)
    BY <2>1, <2>2, <2>4
  <2> QED  BY <1>2, <2>5 DEF borrowTerms, collateralTerms
<1>12. \A i \in 1 .. L : i # k => b[i] = borrowPlusEffectsIn(ctoken, list[i], h, NoAddress, 0, 0)
  <2> SUFFICES ASSUME NEW i \in 1 .. L, i # k
               PROVE  b[i] = borrowPlusEffectsIn(ctoken, list[i], h, NoAddress, 0, 0)
    OBVIOUS
  <2>1. noRepetition(list)
    BY <1>0, MemberList DEF list
  <2>2. i \in DOMAIN list /\ list[i] # m /\ list[i] \in Markets /\ readable(ctoken[list[i]])
    BY <1>2, <1>3, <1>4, <1>9, <2>1 DEF noRepetition, readableList
  <2>3. list[i] # NoAddress
    BY <2>2, MoneyMarketAssumption
  <2>4. \A z \in Nat :
           /\ borrowPlusEffectsIn(ctoken, list[i], h, m, n, z)
                = debtWorth(list[i], borrowBalanceStored(ctoken[list[i]], h)) + 0
           /\ borrowPlusEffectsIn(ctoken, list[i], h, NoAddress, z, z)
                = debtWorth(list[i], borrowBalanceStored(ctoken[list[i]], h)) + 0
    BY <1>0, <1>8, <2>2, <2>3, AssetTerms
  <2> QED  BY <2>2, <2>4 DEF borrowTerms
<1>13. \A i \in 1 .. L - 1 : /\ e[i] = IF i = k THEN c[L] ELSE c[i]
                             /\ d[i] = IF i = k THEN b[L] ELSE b[i]
  <2> SUFFICES ASSUME NEW i \in 1 .. L - 1
               PROVE  /\ e[i] = IF i = k THEN c[L] ELSE c[i]
                      /\ d[i] = IF i = k THEN b[L] ELSE b[i]
    OBVIOUS
  <2>1. i \in DOMAIN shorter /\ i \in 1 .. L /\ L \in 1 .. L /\ L # i
    BY <1>3
  <2>2. /\ e[i] = collateralIn(ctoken, shorter[i], h)
        /\ d[i] = borrowPlusEffectsIn(ctoken, shorter[i], h, NoAddress, 0, 0)
    BY <2>1 DEF borrowTerms, collateralTerms
  <2>3. CASE i = k
    <3>1. shorter[i] = list[L]
      BY <1>3, <2>3
    <3>2. c[L] = collateralIn(ctoken, list[L], h)
      BY <1>3, <2>1 DEF collateralTerms
    <3>3. b[L] = borrowPlusEffectsIn(ctoken, list[L], h, NoAddress, 0, 0)
      BY <1>12, <2>1, <2>3
    <3> QED  BY <2>2, <2>3, <3>1, <3>2, <3>3
  <2>4. CASE i # k
    <3>1. shorter[i] = list[i]
      BY <1>3, <2>4
    <3>2. c[i] = collateralIn(ctoken, list[i], h)
      BY <1>3, <2>1 DEF collateralTerms
    <3>3. b[i] = borrowPlusEffectsIn(ctoken, list[i], h, NoAddress, 0, 0)
      BY <1>12, <2>1, <2>4
    <3> QED  BY <2>2, <2>4, <3>1, <3>2, <3>3
  <2> QED  BY <2>3, <2>4
<1>14. \A i \in 1 .. L : b[i] \in Nat /\ c[i] \in Nat
  BY <1>3, <1>9
<1> HIDE DEF b, c, d, e
<1>15. k \in 1 .. L /\ L \in Nat
  BY <1>2, <1>3
<1>21. withoutTerm(b, d, L, k) /\ withoutTerm(c, e, L, k)
  BY <1>13, <1>14 DEF withoutTerm
<1>16. /\ SumFunctionOnSet(d, 1 .. L - 1) = SumFunctionOnSet(b, 1 .. L) - b[k]
       /\ SumFunctionOnSet(b, 1 .. L) \in Nat /\ b[k] \in Nat
  BY <1>15, <1>21, RemovedTerm
<1>17. /\ SumFunctionOnSet(e, 1 .. L - 1) = SumFunctionOnSet(c, 1 .. L) - c[k]
       /\ SumFunctionOnSet(c, 1 .. L) \in Nat /\ c[k] \in Nat
  BY <1>15, <1>21, RemovedTerm
<1>18. /\ 0 = IF SumFunctionOnSet(c, 1 .. L) > SumFunctionOnSet(b, 1 .. L) THEN 0
              ELSE SumFunctionOnSet(b, 1 .. L) - SumFunctionOnSet(c, 1 .. L)
       /\ after = IF SumFunctionOnSet(e, 1 .. L - 1) > SumFunctionOnSet(d, 1 .. L - 1) THEN 0
                  ELSE SumFunctionOnSet(d, 1 .. L - 1) - SumFunctionOnSet(e, 1 .. L - 1)
  BY <1>1, <1>3, <1>9, <1>10 DEF borrowTotal, collateralTotal, b, c, d, e
<1> HIDE DEF after
<1>19. after <= 1
  BY <1>11, <1>16, <1>17, <1>18
<1>20. shortfall(ctoken, h)' = after
  <2>1. accountAssets'[h] = shorter /\ ctoken' = ctoken /\ UNCHANGED <<comptroller, price>>
    BY <1>1, <1>5
  <2> QED  BY <2>1, NextShortfall DEF after
<1> QED  BY <1>19, <1>20

\* What NoSelfInflictedShortfall says of a step and an account
afloat(h) ==
  \/ \A m \in Markets : ctoken'[m].accountBorrows[h].principal = 0
  \/ shortfall(ctoken, h)' <= 1
  \/ /\ ~WeakeningStep(h)
     /\ \A m \in Markets, amount \in Amounts :
           h \in accountMembership[m] /\ RedeemUnderlying(m, h, amount) =>
               shortfall(ctoken, h)' <= 1 + lostToRounding(m, h)

LEMMA NobodySinks ==
  ASSUME IndInv, NEW h \in Accounts
  PROVE  afloat(h)
<1>1. ASSUME WeakeningStep(h) PROVE shortfall(ctoken, h)' <= 1
  <2>1. CASE \E m \in Markets, amount \in Amounts : Borrow(m, h, amount)
    BY <2>1, BorrowCovered
  <2>2. CASE \E m \in Markets :
               /\ h \in accountMembership[m]
               /\ \E tokens \in TokenAmounts : Redeem(m, h, tokens)
    BY <2>2, RedeemCovered
  <2>3. CASE \E m \in Markets :
               /\ h \in accountMembership[m]
               /\ \E tokens \in TransferAmounts, spender \in Accounts, dst \in Accounts :
                     Transfer(m, spender, h, dst, tokens)
    BY <2>3, TransferCovered
  <2>4. CASE \E m \in Markets : ExitMarket(ctoken, h, m) /\ UNCHANGED marketVars
    BY <2>4, ExitCovered
  <2> QED  BY <1>1, <2>1, <2>2, <2>3, <2>4 DEF WeakeningStep
<1>2. ASSUME NEW m \in Markets, NEW amount \in Amounts,
             h \in accountMembership[m], RedeemUnderlying(m, h, amount)
      PROVE  shortfall(ctoken, h)' <= 1 \/ shortfall(ctoken, h)' <= 1 + lostToRounding(m, h)
  BY <1>2, RedeemUnderlyingCovered
<1> QED  BY <1>1, <1>2 DEF afloat

\* From any state of the invariant on, nobody drives itself below water.
LEMMA NobodySinksFrom == IndInv /\ [][Next]_vars => NoSelfInflictedShortfall
<1> DEFINE all == \A h \in Accounts : afloat(h)
<1>1. IndInv /\ [Next]_vars => all
  BY NobodySinks
<1>2. [][IndInv /\ [Next]_vars]_vars => [][all]_vars
  BY <1>1, PTL
<1>3. IndInv /\ [][Next]_vars => [][all]_vars
  BY <1>2, InvarianceFrom, PTL
<1> QED  BY <1>3 DEF NoSelfInflictedShortfall, afloat

\* After its own borrow, redeem, transfer or exit an account that owes has a
\* shortfall of at most the unit that a truncated sum costs, whatever scale,
\* prices, factors and rates: the hook has seen what the step does.
THEOREM NobodySinksThemselves == Spec => NoSelfInflictedShortfall
<1>1. Init => IndInv
  BY InitEstablishes
<1>2. QED
  BY <1>1, NobodySinksFrom, PTL DEF Spec
-----------------------------------------------------------------------------
(* The same of the protocol as deploy/ leaves it.                          *)

\* Whatever factors and seeds deploy/ is given, every market it leaves behind
\* keeps the invariant, and no step from there on forgives a debt, passes by
\* a pause, takes tokens of an account without debts or lets an account
\* withdraw what covers its own debts.
THEOREM DeployedMarketsAreSound ==
  ASSUME NEW cf, NEW rf, NEW etherSeed, DeployedWith(cf, rf, etherSeed)
  PROVE  DeployedInit(cf, rf, etherSeed) /\ [][Next]_vars =>
            /\ []IndInv
            /\ DebtFallsOnlyByPayment /\ PausesBind
            /\ DebtFreeKeepsTokens /\ NoSelfInflictedShortfall
<1>1. DeployedInit(cf, rf, etherSeed) => IndInv
  BY DeployedEstablishes
<1> QED  BY <1>1, InvarianceFrom, DebtsPaidFrom, PausesBindFrom, TokensSafeFrom, NobodySinksFrom, PTL

\* ... and if its seeds buy a token, its markets stay open and their rates fall
\* by the rounding of redeemUnderlying only.
THEOREM DeployedMarketsStayOpen ==
  ASSUME SeedIsEnough, NEW cf, NEW rf, NEW etherSeed, DeployedWith(cf, rf, etherSeed)
  PROVE  DeployedInit(cf, rf, etherSeed) /\ [][Next]_vars =>
            []ListedMarketStaysOpen /\ ExchangeRateFallsOnlyByRounding
<1>1. DeployedInit(cf, rf, etherSeed) => IndInv /\ OpenInv
  BY DeployedEstablishes, DeployedOpen
<1>2. IndInv /\ OpenInv => ListedMarketStaysOpen
  BY OpenMarkets
<1> QED  BY <1>1, <1>2, OpenFrom, RatesRoundFrom, PTL
-----------------------------------------------------------------------------
(* The books of LendingLedger: a market's record is charged the interest of *)
(* the blocks since its last operation by one factor, whenever it is read.  *)

\* A market charged with interest by a factor
chargedBy(s, f) ==
  LET interest == (f * s.totalBorrows) \div expScale
  IN  [s EXCEPT !.totalBorrows = interest + @,
                !.totalReserves = (s.reserveFactorMantissa * interest) \div expScale + @,
                !.borrowIndex = (f * @) \div expScale + @]

\* The factor of the blocks until now
factorUntil(s, now) == borrowRatePerBlock(s) * (now - s.accrualBlockNumber)

\* Its parts are numbers.
LEMMA ChargedParts ==
  ASSUME NEW s \in CTokenStorage, NEW f \in Nat
  PROVE  LET interest == (f * s.totalBorrows) \div expScale
             share    == (s.reserveFactorMantissa * interest) \div expScale
             rise     == (f * s.borrowIndex) \div expScale
             t        == chargedBy(s, f)
         IN  /\ interest \in Nat /\ share \in Nat /\ rise \in Nat /\ share <= interest
             /\ s.totalBorrows = 0 => interest = 0
             /\ t.totalBorrows = interest + s.totalBorrows
             /\ t.totalReserves = share + s.totalReserves
             /\ t.borrowIndex = rise + s.borrowIndex
             /\ t.cash = s.cash /\ t.totalSupply = s.totalSupply
             /\ t.initialExchangeRateMantissa = s.initialExchangeRateMantissa
             /\ t.accountTokens = s.accountTokens /\ t.accountBorrows = s.accountBorrows
             /\ t \in CTokenStorage
<1> DEFINE interest == (f * s.totalBorrows) \div expScale
           share    == (s.reserveFactorMantissa * interest) \div expScale
           rise     == (f * s.borrowIndex) \div expScale
           t        == chargedBy(s, f)
<1>0. /\ s.totalBorrows \in Nat /\ s.totalReserves \in Nat /\ s.borrowIndex \in Nat \ {0}
      /\ s.reserveFactorMantissa \in Nat /\ s.reserveFactorMantissa <= expScale
      /\ expScale \in Nat /\ expScale # 0
  BY ExpScaleAssumption DEF CTokenStorage, reserveFactorMaxMantissa
<1>1. interest \in Nat
  BY <1>0, ScalarTruncateNat DEF mul_ScalarTruncate, truncate
<1>2. s.totalBorrows = 0 => interest = 0
  <2>1. f * 0 = 0 /\ 0 \div expScale = 0
    BY <1>0
  <2> QED  BY <2>1
<1> HIDE DEF interest
<1>3. share \in Nat /\ share <= interest
  <2>1. share \in Nat
    BY <1>0, <1>1, ScalarTruncateNat DEF mul_ScalarTruncate, truncate
  <2>2. (interest * s.reserveFactorMantissa) \div expScale <= interest
    BY <1>0, <1>1, FractionBound
  <2>3. s.reserveFactorMantissa * interest = interest * s.reserveFactorMantissa
    BY <1>0, <1>1
  <2> QED  BY <2>1, <2>2, <2>3
<1>4. rise \in Nat
  BY <1>0, ScalarTruncateNat DEF mul_ScalarTruncate, truncate
<1>5. t = [s EXCEPT !.totalBorrows = interest + @, !.totalReserves = share + @, !.borrowIndex = rise + @]
  BY DEF chargedBy, interest
<1> HIDE DEF share, rise, t
<1>6. /\ t.totalBorrows = interest + s.totalBorrows
      /\ t.totalReserves = share + s.totalReserves
      /\ t.borrowIndex = rise + s.borrowIndex
      /\ t.cash = s.cash /\ t.totalSupply = s.totalSupply
      /\ t.initialExchangeRateMantissa = s.initialExchangeRateMantissa
      /\ t.accountTokens = s.accountTokens /\ t.accountBorrows = s.accountBorrows
  BY <1>5 DEF CTokenStorage
<1>7. t \in CTokenStorage
  <2>1. interest + s.totalBorrows \in Nat /\ share + s.totalReserves \in Nat /\ rise + s.borrowIndex \in Nat \ {0}
    BY <1>0, <1>1, <1>3, <1>4
  <2> QED  BY <1>5, <2>1 DEF CTokenStorage
<1> QED  BY <1>1, <1>2, <1>3, <1>4, <1>6, <1>7 DEF interest, share, rise, t

\* A book depends on these fields only.
LEMMA SameBook ==
  ASSUME NEW s, NEW t, t.cash = s.cash, t.totalBorrows = s.totalBorrows,
         t.totalReserves = s.totalReserves, t.totalSupply = s.totalSupply,
         t.initialExchangeRateMantissa = s.initialExchangeRateMantissa,
         t.accountTokens = s.accountTokens, t.accountBorrows = s.accountBorrows,
         t.borrowIndex = s.borrowIndex
  PROVE  bookOf(t) = bookOf(s)
BY DEF bookOf, borrowBalanceStored

\* What accrueInterest makes of a market is a charge.
LEMMA AccruedBook ==
  ASSUME NEW s \in CTokenStorage, NEW now \in Nat, s.accrualBlockNumber <= now,
         utilizationDefined(s.cash, s.totalBorrows, s.totalReserves)
  PROVE  /\ factorUntil(s, now) \in Nat
         /\ bookOf(accrueInterest(s, now)) = bookOf(chargedBy(s, factorUntil(s, now)))
<1> DEFINE f == factorUntil(s, now)
           t == accrueInterest(s, now)
           u == chargedBy(s, f)
<1>0. /\ s.totalBorrows \in Nat /\ s.totalReserves \in Nat /\ s.borrowIndex \in Nat
      /\ s.reserveFactorMantissa \in Nat /\ s.accrualBlockNumber \in Nat
      /\ expScale \in Nat /\ expScale # 0
  BY ExpScaleAssumption DEF CTokenStorage, reserveFactorMaxMantissa
<1>1. borrowRatePerBlock(s) \in Nat
  BY BorrowRateNat
<1>2. f \in Nat
  <2>1. now - s.accrualBlockNumber \in Nat
    BY <1>0
  <2> QED  BY <1>1, <2>1, ProductNat DEF factorUntil
<1>3. CASE s.accrualBlockNumber = now
  <2>1. t = s
    BY <1>3 DEF accrueInterest
  <2>2. f = 0
    BY <1>0, <1>1, <1>3 DEF factorUntil
  <2>3. \A a \in Nat : 0 * a = 0 /\ a * 0 = 0 /\ 0 \div expScale = 0 /\ 0 + a = a
    BY <1>0
  <2>4. /\ (0 * s.totalBorrows) \div expScale = 0
        /\ (s.reserveFactorMantissa * 0) \div expScale = 0
        /\ (0 * s.borrowIndex) \div expScale = 0
    BY <1>0, <2>3
  <2>5. /\ u.totalBorrows = s.totalBorrows /\ u.totalReserves = s.totalReserves
        /\ u.borrowIndex = s.borrowIndex
    <3>1. 0 \in Nat
      OBVIOUS
    <3> DEFINE v == chargedBy(s, 0)
    <3>2. /\ v.totalBorrows = (0 * s.totalBorrows) \div expScale + s.totalBorrows
          /\ v.totalReserves = (s.reserveFactorMantissa * ((0 * s.totalBorrows) \div expScale)) \div expScale
                               + s.totalReserves
          /\ v.borrowIndex = (0 * s.borrowIndex) \div expScale + s.borrowIndex
      BY DEF CTokenStorage, chargedBy
    <3> QED  BY <1>0, <2>2, <2>3, <2>4, <3>2
  <2> HIDE DEF u, f
  <2>6. /\ u.cash = s.cash /\ u.totalSupply = s.totalSupply
        /\ u.initialExchangeRateMantissa = s.initialExchangeRateMantissa
        /\ u.accountTokens = s.accountTokens /\ u.accountBorrows = s.accountBorrows
    BY <1>2, ChargedParts DEF u
  <2>7. bookOf(u) = bookOf(s)
    BY <2>5, <2>6, SameBook
  <2> QED  BY <1>2, <2>1, <2>7 DEF u, f
<1>4. CASE s.accrualBlockNumber # now
  <2>1. t = [u EXCEPT !.accrualBlockNumber = now]
    BY <1>4 DEF accrueInterest, chargedBy, factorUntil, mul_ScalarTruncateAddUInt, mul_ScalarTruncate,
                truncate, CTokenStorage
  <2>2. u \in CTokenStorage
    BY <1>2, ChargedParts
  <2> HIDE DEF u, t
  <2>3. /\ t.totalBorrows = u.totalBorrows /\ t.totalReserves = u.totalReserves
        /\ t.borrowIndex = u.borrowIndex /\ t.cash = u.cash /\ t.totalSupply = u.totalSupply
        /\ t.initialExchangeRateMantissa = u.initialExchangeRateMantissa
        /\ t.accountTokens = u.accountTokens /\ t.accountBorrows = u.accountBorrows
    BY <2>1, <2>2 DEF CTokenStorage
  <2>4. bookOf(t) = bookOf(u)
    BY <2>3, SameBook
  <2> QED  BY <1>2, <2>4 DEF t, u, f
<1> QED  BY <1>3, <1>4

\* A truncated product grows with its factor.
LEMMA FractionMonotone ==
  ASSUME NEW a \in Nat, NEW b \in Nat, a <= b, NEW c \in Nat, NEW d \in Nat, d # 0
  PROVE  (a * c) \div d <= (b * c) \div d
<1>1. a * c \in Nat /\ b * c \in Nat /\ a * c <= b * c
  BY ProductNat, ProductMonotone
<1> QED  BY <1>1, QuotientMonotone

\* A part r / d of a sum, truncated, grows by no more than the sum.
LEMMA ShareOfGrowth ==
  ASSUME NEW r \in Nat, NEW d \in Nat, d # 0, r <= d, NEW a \in Nat, NEW b \in Nat, a <= b
  PROVE  /\ (r * a) \div d <= (r * b) \div d
         /\ (r * b) \div d <= (r * a) \div d + (b - a)
<1> DEFINE q == (r * a) \div d
           e == b - a
<1>1. e \in Nat /\ b = a + e
  OBVIOUS
<1>2. r * a \in Nat /\ r * b \in Nat /\ r * e \in Nat /\ d * e \in Nat
  BY <1>1, ProductNat
<1>3. (r * a) \div d <= (r * b) \div d
  <2>1. a * r <= b * r /\ a * r = r * a /\ b * r = r * b
    BY ProductMonotone
  <2> QED  BY <1>2, <2>1, QuotientMonotone
<1>4. q \in Nat /\ r * a < (q + 1) * d
  BY <1>2, QuotientBounds
<1> DEFINE z == (r * b) \div d
<1>5. z \in Nat /\ z * d <= r * b
  BY <1>2, QuotientBounds
<1>6. r * b = r * a + r * e /\ r * e <= d * e
  <2>1. r * (a + e) = r * a + r * e
    BY <1>1
  <2>2. r * e <= d * e
    BY <1>1, ProductMonotone
  <2> QED  BY <1>1, <2>1, <2>2
<1> HIDE DEF q, z, e
<1>7. z * d < (q + 1 + e) * d
  <2>1. (q + 1 + e) * d = (q + 1) * d + d * e
    BY <1>1, <1>4
  <2>2. (q + 1) * d \in Nat /\ z * d \in Nat
    BY <1>4, <1>5
  <2> QED  BY <1>2, <1>4, <1>5, <1>6, <2>1, <2>2
<1>8. z < q + 1 + e
  <2>1. q + 1 + e \in Nat
    BY <1>1, <1>4
  <2> QED  BY <1>5, <1>7, <2>1, ProductMonotone
<1>9. z <= q + e
  BY <1>1, <1>4, <1>5, <1>8
<1> QED  BY <1>3, <1>9 DEF q, z, e

\* A debt grows with its market's index, and is nothing only when it was.
LEMMA DebtsGrow ==
  ASSUME NEW s \in CTokenStorage, NEW t \in CTokenStorage, NEW u \in CTokenStorage, validSnapshots(s),
         t.accountBorrows = s.accountBorrows, u.accountBorrows = s.accountBorrows,
         s.borrowIndex <= t.borrowIndex, t.borrowIndex <= u.borrowIndex, NEW h \in Holders
  PROVE  /\ borrowBalanceStored(t, h) \in Nat /\ borrowBalanceStored(u, h) \in Nat
         /\ borrowBalanceStored(t, h) <= borrowBalanceStored(u, h)
         /\ borrowBalanceStored(t, h) = 0 => borrowBalanceStored(u, h) = 0
<1> DEFINE p == s.accountBorrows[h].principal
           i == s.accountBorrows[h].interestIndex
<1>1. /\ p \in Nat /\ i \in Nat /\ s.borrowIndex \in Nat /\ t.borrowIndex \in Nat /\ u.borrowIndex \in Nat
  BY DEF CTokenStorage, BorrowSnapshot
<1>2. p > 0 => i # 0 /\ i <= s.borrowIndex
  BY <1>1 DEF validSnapshots
<1>3. /\ borrowBalanceStored(t, h) = IF p = 0 THEN 0 ELSE (p * t.borrowIndex) \div i
      /\ borrowBalanceStored(u, h) = IF p = 0 THEN 0 ELSE (p * u.borrowIndex) \div i
  BY DEF borrowBalanceStored
<1>4. CASE p = 0
  BY <1>3, <1>4
<1>5. CASE p # 0
  <2>1. i # 0 /\ i <= t.borrowIndex
    BY <1>1, <1>2, <1>5
  <2> HIDE DEF p, i
  <2>2. /\ t.borrowIndex * p <= u.borrowIndex * p
        /\ t.borrowIndex * p = p * t.borrowIndex /\ u.borrowIndex * p = p * u.borrowIndex
        /\ p * t.borrowIndex \in Nat /\ p * u.borrowIndex \in Nat
    BY <1>1, ProductMonotone, ProductNat
  <2>3. (p * t.borrowIndex) \div i <= (p * u.borrowIndex) \div i
    BY <1>1, <2>1, <2>2, QuotientMonotone
  <2>4. (p * t.borrowIndex) \div i \in Nat /\ (p * u.borrowIndex) \div i \in Nat
    BY <1>1, <2>1, <2>2, QuotientBounds
  <2>5. (p * t.borrowIndex) \div i >= p
    BY <1>1, <2>1, <1>5, RatioBound
  <2> QED  BY <1>1, <1>3, <1>5, <2>3, <2>4, <2>5
<1> QED  BY <1>4, <1>5

\* The book of a market is one of LendingLedger, and has these parts.
LEMMA BookTyped ==
  ASSUME NEW s \in CTokenStorage, validSnapshots(s)
  PROVE  bookOf(s) \in Ledger!Book
<1> DEFINE owed == [h \in Holders |-> borrowBalanceStored(s, h)]
<1>1. owed \in [Holders -> Nat]
  BY BorrowBalanceBound
<1>2. bookOf(s) = [cash |-> s.cash, lent |-> s.totalBorrows, reserves |-> s.totalReserves,
                   supply |-> s.totalSupply, firstPrice |-> s.initialExchangeRateMantissa,
                   tokens |-> s.accountTokens, owed |-> owed]
  BY DEF bookOf
<1> HIDE DEF owed
<1> QED  BY <1>1, <1>2 DEF Ledger!Book, CTokenStorage

LEMMA BookParts ==
  ASSUME NEW s
  PROVE  LET b == bookOf(s)
         IN  /\ b.cash = s.cash /\ b.lent = s.totalBorrows /\ b.reserves = s.totalReserves
             /\ b.supply = s.totalSupply /\ b.firstPrice = s.initialExchangeRateMantissa
             /\ b.tokens = s.accountTokens
             /\ b.owed = [h \in Holders |-> borrowBalanceStored(s, h)]
             /\ \A h \in Holders : b.owed[h] = borrowBalanceStored(s, h)
BY DEF bookOf

\* Who owes what depends on the snapshots and the index.
LEMMA SameOwed ==
  ASSUME NEW s, NEW t, t.accountBorrows = s.accountBorrows, t.borrowIndex = s.borrowIndex
  PROVE  bookOf(t).owed = bookOf(s).owed
BY DEF bookOf, borrowBalanceStored

\* Snapshots stay valid while the index only rises.
LEMMA SnapshotsLast ==
  ASSUME NEW s \in CTokenStorage, validSnapshots(s), NEW t \in CTokenStorage,
         t.accountBorrows = s.accountBorrows, s.borrowIndex <= t.borrowIndex
  PROVE  validSnapshots(t)
BY DEF validSnapshots, CTokenStorage

\* A greater factor charges more, and keeps no more of it in the reserves.
LEMMA ChargedMore ==
  ASSUME NEW s \in CTokenStorage, validSnapshots(s), NEW f \in Nat, NEW g \in Nat, f <= g
  PROVE  Ledger!charged(bookOf(chargedBy(s, f)), bookOf(chargedBy(s, g)))
<1> DEFINE i == (f * s.totalBorrows) \div expScale
           j == (g * s.totalBorrows) \div expScale
           x == (s.reserveFactorMantissa * i) \div expScale
           y == (s.reserveFactorMantissa * j) \div expScale
           t == chargedBy(s, f)
           u == chargedBy(s, g)
<1>0. /\ s.totalBorrows \in Nat /\ s.totalReserves \in Nat /\ s.borrowIndex \in Nat
      /\ s.reserveFactorMantissa \in Nat /\ s.reserveFactorMantissa <= expScale
      /\ expScale \in Nat /\ expScale # 0
  BY ExpScaleAssumption DEF CTokenStorage, reserveFactorMaxMantissa
<1>1. i \in Nat /\ j \in Nat /\ i <= j /\ (s.totalBorrows = 0 => i = 0 /\ j = 0)
  BY <1>0, ChargedParts, FractionMonotone
<1>2. x \in Nat /\ y \in Nat
  BY ChargedParts
<1>3. t \in CTokenStorage /\ u \in CTokenStorage
  BY ChargedParts
<1>4. /\ t.totalBorrows = i + s.totalBorrows /\ t.totalReserves = x + s.totalReserves
      /\ u.totalBorrows = j + s.totalBorrows /\ u.totalReserves = y + s.totalReserves
      /\ t.cash = s.cash /\ t.totalSupply = s.totalSupply
      /\ t.initialExchangeRateMantissa = s.initialExchangeRateMantissa
      /\ t.accountTokens = s.accountTokens /\ t.accountBorrows = s.accountBorrows
      /\ u.cash = s.cash /\ u.totalSupply = s.totalSupply
      /\ u.initialExchangeRateMantissa = s.initialExchangeRateMantissa
      /\ u.accountTokens = s.accountTokens /\ u.accountBorrows = s.accountBorrows
  BY ChargedParts
<1>5. s.borrowIndex <= t.borrowIndex /\ t.borrowIndex <= u.borrowIndex
  <2>1. /\ t.borrowIndex = (f * s.borrowIndex) \div expScale + s.borrowIndex
        /\ u.borrowIndex = (g * s.borrowIndex) \div expScale + s.borrowIndex
        /\ (f * s.borrowIndex) \div expScale \in Nat /\ (g * s.borrowIndex) \div expScale \in Nat
    BY ChargedParts
  <2>2. (f * s.borrowIndex) \div expScale <= (g * s.borrowIndex) \div expScale
    BY <1>0, FractionMonotone
  <2> QED  BY <1>0, <2>1, <2>2
<1> HIDE DEF i, j, t, u
<1>6. x <= y /\ y <= x + (j - i)
  BY <1>0, <1>1, ShareOfGrowth
<1> HIDE DEF x, y
<1> DEFINE b == bookOf(t)
           c == bookOf(u)
<1>7. /\ b.lent = t.totalBorrows /\ c.lent = u.totalBorrows
      /\ b.reserves = t.totalReserves /\ c.reserves = u.totalReserves
      /\ b.owed = [h \in Holders |-> borrowBalanceStored(t, h)]
      /\ c.owed = [h \in Holders |-> borrowBalanceStored(u, h)]
  BY DEF bookOf
<1>8. c = [b EXCEPT !.lent = c.lent, !.reserves = c.reserves, !.owed = c.owed]
  <2>1. validSnapshots(t) /\ validSnapshots(u)
    <3>1. s.borrowIndex <= u.borrowIndex
      BY <1>0, <1>3, <1>5 DEF CTokenStorage
    <3> QED  BY <1>3, <1>4, <1>5, <3>1, SnapshotsLast
  <2>2. b \in Ledger!Book /\ c \in Ledger!Book
    BY <1>3, <2>1, BookTyped
  <2>3. c.cash = b.cash /\ c.supply = b.supply /\ c.firstPrice = b.firstPrice /\ c.tokens = b.tokens
    BY <1>4, BookParts
  <2> HIDE DEF b, c
  <2> QED  BY <2>2, <2>3 DEF Ledger!Book
<1>9. \A h \in Holders : b.owed[h] <= c.owed[h] /\ (b.owed[h] = 0 => c.owed[h] = 0)
  BY <1>3, <1>4, <1>5, <1>7, DebtsGrow
<1>10. DOMAIN c.owed = Holders
  BY <1>7
<1> HIDE DEF b, c
<1>11. /\ b.lent <= c.lent /\ (b.lent = 0 => c.lent = 0)
       /\ b.reserves <= c.reserves /\ c.reserves - b.reserves <= c.lent - b.lent
  BY <1>0, <1>1, <1>2, <1>4, <1>6, <1>7
<1> QED  BY <1>8, <1>9, <1>10, <1>11 DEF Ledger!charged, b, c, t, u

\* The utilization falls, and the borrow rate with it, when cash comes in.
LEMMA RateFallsWithCash ==
  ASSUME NEW s \in CTokenStorage, utilizationDefined(s.cash, s.totalBorrows, s.totalReserves),
         NEW x \in Nat, NEW t, t = [s EXCEPT !.cash = @ + x]
  PROVE  /\ t \in CTokenStorage
         /\ utilizationDefined(t.cash, t.totalBorrows, t.totalReserves)
         /\ borrowRatePerBlock(t) <= borrowRatePerBlock(s)
<1> DEFINE B == s.totalBorrows
           p == s.cash + B - s.totalReserves
           v == utilizationRate(s.cash, B, s.totalReserves)
           w == utilizationRate(s.cash + x, B, s.totalReserves)
           irm == s.interestRateModel
<1>0. /\ s.cash \in Nat /\ B \in Nat /\ s.totalReserves \in Nat /\ expScale \in Nat /\ expScale # 0
      /\ irm \in InterestRateModel
  BY ExpScaleAssumption DEF CTokenStorage
<1>1. /\ t \in CTokenStorage /\ t.cash = s.cash + x /\ t.totalBorrows = B
      /\ t.totalReserves = s.totalReserves /\ t.interestRateModel = irm
  BY <1>0 DEF CTokenStorage
<1>2. utilizationDefined(t.cash, t.totalBorrows, t.totalReserves)
  BY <1>0, <1>1 DEF utilizationDefined
<1>3. v \in Nat /\ w \in Nat /\ w <= v
  <2>1. CASE B = 0
    BY <2>1 DEF utilizationRate
  <2>2. CASE B # 0
    <3>1. p \in Nat /\ p # 0 /\ s.cash + x + B - s.totalReserves = p + x
      BY <1>0, <2>2 DEF utilizationDefined
    <3>2. v = (B * expScale) \div p /\ w = (B * expScale) \div (p + x)
      BY <2>2, <3>1 DEF utilizationRate
    <3> HIDE DEF p, v, w
    <3> DEFINE a == B * expScale
    <3>3. a \in Nat /\ p + x \in Nat /\ p + x # 0
      BY <1>0, <3>1, ProductNat
    <3> HIDE DEF a
    <3> DEFINE q == a \div (p + x)
    <3>4. q \in Nat /\ q * (p + x) <= a
      BY <3>3, QuotientBounds
    <3> HIDE DEF q
    <3>5. q * p <= a
      <4>1. q * (p + x) = q * p + q * x /\ q * p \in Nat /\ q * x \in Nat
        BY <3>1, <3>4
      <4> QED  BY <3>3, <3>4, <4>1
    <3>6. q <= a \div p /\ a \div p \in Nat
      BY <3>1, <3>3, <3>4, <3>5, QuotientGreatest, QuotientBounds
    <3> QED  BY <3>2, <3>4, <3>6 DEF a, q
  <2> QED  BY <2>1, <2>2
<1>4. /\ irm.baseRatePerBlock \in Nat /\ irm.multiplierPerBlock \in Nat
      /\ irm.jumpMultiplierPerBlock \in Nat /\ irm.kink \in Nat
  BY <1>0 DEF InterestRateModel
<1> DEFINE m == irm.multiplierPerBlock
           k == irm.kink
           o == irm.jumpMultiplierPerBlock
           e == irm.baseRatePerBlock
<1>5. /\ borrowRatePerBlock(s) = IF v <= k THEN mul_Exp(v, m) + e ELSE mul_Exp(v - k, o) + (mul_Exp(k, m) + e)
      /\ borrowRatePerBlock(t) = IF w <= k THEN mul_Exp(w, m) + e ELSE mul_Exp(w - k, o) + (mul_Exp(k, m) + e)
  BY <1>1 DEF borrowRatePerBlock, getBorrowRate
<1> HIDE DEF v, w
<1>6. m \in Nat /\ k \in Nat /\ o \in Nat /\ e \in Nat
  BY <1>4
<1> HIDE DEF m, k, o, e
<1>7. borrowRatePerBlock(t) <= borrowRatePerBlock(s)
  <2>1. CASE v <= k
    <3>1. w <= k
      BY <1>3, <1>6, <2>1
    <3>2. mul_Exp(w, m) <= mul_Exp(v, m) /\ mul_Exp(w, m) \in Nat /\ mul_Exp(v, m) \in Nat
      BY <1>0, <1>3, <1>6, FractionMonotone, MulExpNat DEF mul_Exp
    <3> QED  BY <1>5, <1>6, <2>1, <3>1, <3>2
  <2>2. CASE ~(v <= k) /\ w <= k
    <3>1. mul_Exp(w, m) <= mul_Exp(k, m) /\ mul_Exp(w, m) \in Nat /\ mul_Exp(k, m) \in Nat
      BY <1>0, <1>3, <1>6, <2>2, FractionMonotone, MulExpNat DEF mul_Exp
    <3>2. v - k \in Nat
      BY <1>3, <1>6, <2>2
    <3>3. mul_Exp(v - k, o) \in Nat
      BY <1>6, <3>2, MulExpNat
    <3> QED  BY <1>5, <1>6, <2>2, <3>1, <3>3
  <2>3. CASE ~(v <= k) /\ ~(w <= k)
    <3>1. v - k \in Nat /\ w - k \in Nat /\ w - k <= v - k
      BY <1>3, <1>6, <2>3
    <3>2. mul_Exp(w - k, o) <= mul_Exp(v - k, o) /\ mul_Exp(w - k, o) \in Nat /\ mul_Exp(v - k, o) \in Nat
      BY <1>0, <1>6, <3>1, FractionMonotone, MulExpNat DEF mul_Exp
    <3>3. mul_Exp(k, m) \in Nat
      BY <1>6, MulExpNat
    <3> QED  BY <1>5, <1>6, <2>3, <3>2, <3>3
  <2> QED  BY <2>1, <2>2, <2>3
<1> QED  BY <1>1, <1>2, <1>7

-----------------------------------------------------------------------------
(* An operation on a market, as an entry in its book                        *)

\* The price of tokens is the exchange rate.
LEMMA PriceOfBook ==
  ASSUME NEW s
  PROVE  /\ Ledger!price(bookOf(s)) = exchangeRateStored(s)
         /\ \A x : Ledger!bought(bookOf(s), x) = div_Exp(x, exchangeRateStored(s))
         /\ \A n : Ledger!worth(bookOf(s), n) = mul_ScalarTruncate(exchangeRateStored(s), n)
<1>1. Ledger!price(bookOf(s)) = exchangeRateStored(s)
  BY BookParts DEF Ledger!price, exchangeRateStored, cashPlusBorrowsMinusReserves
<1> QED  BY <1>1 DEF Ledger!bought, Ledger!worth, div_Exp, mul_ScalarTruncate, truncate

LEMMA MintBook ==
  ASSUME NEW s \in CTokenStorage, validSnapshots(s), NEW minter \in Holders, NEW x \in Nat,
         NEW t \in CTokenStorage, validSnapshots(t), t = mintFresh(s, minter, x)
  PROVE  LET b == bookOf(s)
         IN  /\ bookOf(t) = Ledger!deposited(b, minter, x)
             /\ t.accrualBlockNumber = s.accrualBlockNumber
<1> DEFINE b == bookOf(s)
           c == bookOf(t)
           n == Ledger!bought(b, x)
<1>1. t = [s EXCEPT !.cash = @ + x, !.totalSupply = @ + n, !.accountTokens[minter] = @ + n]
  <2>1. n = div_Exp(x, exchangeRateStored(s))
    BY PriceOfBook
  <2> QED  BY <2>1 DEF mintFresh
<1> HIDE DEF n
<1>2. /\ t.cash = s.cash + x /\ t.totalSupply = s.totalSupply + n
      /\ t.accountTokens = [s.accountTokens EXCEPT ![minter] = @ + n]
      /\ t.totalBorrows = s.totalBorrows /\ t.totalReserves = s.totalReserves
      /\ t.initialExchangeRateMantissa = s.initialExchangeRateMantissa
      /\ t.accountBorrows = s.accountBorrows /\ t.borrowIndex = s.borrowIndex
      /\ t.accrualBlockNumber = s.accrualBlockNumber
  BY <1>1 DEF CTokenStorage
<1>3. b \in Ledger!Book /\ c \in Ledger!Book
  BY BookTyped
<1>4. /\ c.cash = b.cash + x /\ c.supply = b.supply + n /\ c.tokens = [b.tokens EXCEPT ![minter] = @ + n]
      /\ c.lent = b.lent /\ c.reserves = b.reserves /\ c.firstPrice = b.firstPrice /\ c.owed = b.owed
  BY <1>2, BookParts, SameOwed
<1> HIDE DEF b, c
<1>5. c = [b EXCEPT !.cash = @ + x, !.supply = @ + n, !.tokens[minter] = @ + n]
  BY <1>3, <1>4 DEF Ledger!Book
<1> QED  BY <1>2, <1>5 DEF b, c, n, Ledger!deposited

LEMMA RedeemBook ==
  ASSUME NEW s \in CTokenStorage, validSnapshots(s), NEW h \in Holders, NEW n \in Nat, NEW x \in Nat,
         NEW t \in CTokenStorage, validSnapshots(t), t = redeemFresh(s, h, n, x)
  PROVE  LET b == bookOf(s)
         IN  /\ bookOf(t) = Ledger!withdrawn(b, h, n, x)
             /\ t.accrualBlockNumber = s.accrualBlockNumber
<1> DEFINE b == bookOf(s)
           c == bookOf(t)
<1>2. /\ t.cash = s.cash - x /\ t.totalSupply = s.totalSupply - n
      /\ t.accountTokens = [s.accountTokens EXCEPT ![h] = @ - n]
      /\ t.totalBorrows = s.totalBorrows /\ t.totalReserves = s.totalReserves
      /\ t.initialExchangeRateMantissa = s.initialExchangeRateMantissa
      /\ t.accountBorrows = s.accountBorrows /\ t.borrowIndex = s.borrowIndex
      /\ t.accrualBlockNumber = s.accrualBlockNumber
  BY DEF CTokenStorage, redeemFresh
<1>3. b \in Ledger!Book /\ c \in Ledger!Book
  BY BookTyped
<1>4. /\ c.cash = b.cash - x /\ c.supply = b.supply - n /\ c.tokens = [b.tokens EXCEPT ![h] = @ - n]
      /\ c.lent = b.lent /\ c.reserves = b.reserves /\ c.firstPrice = b.firstPrice /\ c.owed = b.owed
  BY <1>2, BookParts, SameOwed
<1> HIDE DEF b, c
<1>5. c = Ledger!withdrawn(b, h, n, x)
  BY <1>3, <1>4 DEF Ledger!Book, Ledger!withdrawn
<1> QED  BY <1>2, <1>5 DEF b, c

\* The debts after the borrower's has changed
owesNow(s, t, h, owes) ==
  /\ t.borrowIndex = s.borrowIndex
  /\ t.accountBorrows = [s.accountBorrows EXCEPT ![h] = [principal |-> owes, interestIndex |-> s.borrowIndex]]

LEMMA OneOwes ==
  ASSUME NEW s \in CTokenStorage, validSnapshots(s), NEW h \in Holders, NEW owes \in Nat,
         NEW t \in CTokenStorage, owesNow(s, t, h, owes)
  PROVE  bookOf(t).owed = [bookOf(s).owed EXCEPT ![h] = owes]
<1> DEFINE p == s.accountBorrows
           q == t.accountBorrows
           i == s.borrowIndex
<1>1. p \in [Holders -> BorrowSnapshot] /\ i \in Nat /\ i # 0 /\ t.borrowIndex = i
  BY DEF CTokenStorage, owesNow
<1>2. q[h] = [principal |-> owes, interestIndex |-> i] /\ \A k \in Holders \ {h} : q[k] = p[k]
  BY <1>1 DEF owesNow
<1>3. borrowBalanceStored(t, h) = owes
  <2>1. q[h].principal = owes /\ q[h].interestIndex = i
    BY <1>2
  <2>2. (owes * i) \div i = owes
    <3>1. owes * i \in Nat
      BY <1>1, ProductNat
    <3> DEFINE z == (owes * i) \div i
    <3>2. z \in Nat /\ z * i <= owes * i
      BY <1>1, <3>1, QuotientBounds
    <3>3. owes <= z
      BY <1>1, <3>1, QuotientGreatest
    <3> HIDE DEF z, i
    <3>4. z <= owes
      BY <1>1, <3>2, ProductMonotone
    <3> QED  BY <3>2, <3>3, <3>4 DEF z
  <2> QED  BY <1>1, <2>1, <2>2 DEF borrowBalanceStored
<1>4. \A k \in Holders \ {h} : borrowBalanceStored(t, k) = borrowBalanceStored(s, k)
  BY <1>1, <1>2 DEF borrowBalanceStored
<1> DEFINE d(k) == borrowBalanceStored(s, k)
           e(k) == borrowBalanceStored(t, k)
<1>5. bookOf(s).owed = [k \in Holders |-> d(k)] /\ bookOf(t).owed = [k \in Holders |-> e(k)]
  BY BookParts
<1>6. \A k \in Holders : e(k) = IF k = h THEN owes ELSE d(k)
  BY <1>3, <1>4
<1> HIDE DEF d, e
<1> QED  BY <1>5, <1>6

LEMMA LendBook ==
  ASSUME NEW s \in CTokenStorage, validSnapshots(s), NEW h \in Holders, NEW x \in Nat,
         NEW t \in CTokenStorage, validSnapshots(t), t = borrowFresh(s, h, x)
  PROVE  LET b == bookOf(s)
         IN  /\ bookOf(t) = Ledger!lentTo(b, h, x)
             /\ t.accrualBlockNumber = s.accrualBlockNumber
<1> DEFINE b == bookOf(s)
           c == bookOf(t)
           owes == borrowBalanceStored(s, h) + x
<1>2. /\ t.cash = s.cash - x /\ t.totalSupply = s.totalSupply
      /\ t.accountTokens = s.accountTokens
      /\ t.totalBorrows = s.totalBorrows + x /\ t.totalReserves = s.totalReserves
      /\ t.initialExchangeRateMantissa = s.initialExchangeRateMantissa
      /\ t.accountBorrows = [s.accountBorrows EXCEPT ![h] = [principal |-> owes, interestIndex |-> s.borrowIndex]]
      /\ t.borrowIndex = s.borrowIndex /\ t.accrualBlockNumber = s.accrualBlockNumber
  BY DEF CTokenStorage, borrowFresh
<1>3. b \in Ledger!Book /\ c \in Ledger!Book
  BY BookTyped
<1>4. owes \in Nat /\ owes = b.owed[h] + x
  <2>1. borrowBalanceStored(s, h) \in Nat
    BY BorrowBalanceBound
  <2>2. b.owed[h] = borrowBalanceStored(s, h)
    BY BookParts
  <2> HIDE DEF b
  <2> QED  BY <2>1, <2>2
<1> HIDE DEF owes
<1>5. /\ c.cash = b.cash - x /\ c.supply = b.supply /\ c.tokens = b.tokens
      /\ c.lent = b.lent + x /\ c.reserves = b.reserves /\ c.firstPrice = b.firstPrice
  BY <1>2, BookParts
<1>6. c.owed = [b.owed EXCEPT ![h] = @ + x]
  <2>1. c.owed = [b.owed EXCEPT ![h] = owes]
    <3>1. owes \in Nat /\ owesNow(s, t, h, owes)
      BY <1>2, <1>4 DEF owesNow
    <3> QED  BY <3>1, OneOwes
  <2> HIDE DEF b, c
  <2> QED  BY <1>4, <2>1
<1> HIDE DEF b, c
<1>7. c = Ledger!lentTo(b, h, x)
  BY <1>3, <1>5, <1>6 DEF Ledger!Book, Ledger!lentTo
<1> QED  BY <1>2, <1>7 DEF b, c

LEMMA SettleBook ==
  ASSUME NEW s \in CTokenStorage, validSnapshots(s), NEW h \in Holders, NEW x \in Nat, canRepay(s, h, x),
         NEW t \in CTokenStorage, validSnapshots(t), t = repayBorrowFresh(s, h, x)
  PROVE  LET b == bookOf(s)
         IN  /\ bookOf(t) = Ledger!settled(b, h, x) /\ Ledger!canSettle(b, h, x)
             /\ t.accrualBlockNumber = s.accrualBlockNumber
<1> DEFINE b == bookOf(s)
           c == bookOf(t)
           owes == borrowBalanceStored(s, h) - x
<1>2. /\ t.cash = s.cash + x /\ t.totalSupply = s.totalSupply
      /\ t.accountTokens = s.accountTokens
      /\ t.totalBorrows = s.totalBorrows - x /\ t.totalReserves = s.totalReserves
      /\ t.initialExchangeRateMantissa = s.initialExchangeRateMantissa
      /\ t.accountBorrows = [s.accountBorrows EXCEPT ![h] = [principal |-> owes, interestIndex |-> s.borrowIndex]]
      /\ t.borrowIndex = s.borrowIndex /\ t.accrualBlockNumber = s.accrualBlockNumber
  BY DEF CTokenStorage, repayBorrowFresh
<1>3. b \in Ledger!Book /\ c \in Ledger!Book
  BY BookTyped
<1>4. owes \in Nat /\ owes = b.owed[h] - x /\ x <= b.owed[h] /\ x <= b.lent
  <2>1. borrowBalanceStored(s, h) \in Nat /\ s.totalBorrows \in Nat
    BY BorrowBalanceBound DEF CTokenStorage
  <2>2. b.owed[h] = borrowBalanceStored(s, h) /\ b.lent = s.totalBorrows
    BY BookParts
  <2>3. x <= borrowBalanceStored(s, h) /\ x <= s.totalBorrows
    BY DEF canRepay
  <2> HIDE DEF b
  <2> QED  BY <2>1, <2>2, <2>3
<1> HIDE DEF owes
<1>5. /\ c.cash = b.cash + x /\ c.supply = b.supply /\ c.tokens = b.tokens
      /\ c.lent = b.lent - x /\ c.reserves = b.reserves /\ c.firstPrice = b.firstPrice
  BY <1>2, BookParts
<1>6. c.owed = [b.owed EXCEPT ![h] = @ - x]
  <2>1. c.owed = [b.owed EXCEPT ![h] = owes]
    <3>1. owes \in Nat /\ owesNow(s, t, h, owes)
      BY <1>2, <1>4 DEF owesNow
    <3> QED  BY <3>1, OneOwes
  <2> HIDE DEF b, c
  <2> QED  BY <1>4, <2>1
<1> HIDE DEF b, c
<1>7. c = Ledger!settled(b, h, x)
  BY <1>3, <1>5, <1>6 DEF Ledger!Book, Ledger!settled
<1> QED  BY <1>2, <1>4, <1>7 DEF b, c, Ledger!canSettle

LEMMA ReservesBook ==
  ASSUME NEW s \in CTokenStorage, validSnapshots(s), NEW x \in Nat, NEW t \in CTokenStorage, validSnapshots(t)
  PROVE  LET b == bookOf(s)
         IN  /\ t = addReservesFresh(s, x) =>
                   /\ bookOf(t) = [b EXCEPT !.cash = @ + x, !.reserves = @ + x]
                   /\ t.accrualBlockNumber = s.accrualBlockNumber
             /\ t = reduceReservesFresh(s, x) =>
                   /\ bookOf(t) = [b EXCEPT !.cash = @ - x, !.reserves = @ - x]
                   /\ t.accrualBlockNumber = s.accrualBlockNumber
<1> DEFINE b == bookOf(s)
           c == bookOf(t)
<1>1. b \in Ledger!Book /\ c \in Ledger!Book
  BY BookTyped
<1>2. ASSUME t = addReservesFresh(s, x)
      PROVE  /\ c = [b EXCEPT !.cash = @ + x, !.reserves = @ + x]
             /\ t.accrualBlockNumber = s.accrualBlockNumber
  <2>1. /\ t.cash = s.cash + x /\ t.totalReserves = s.totalReserves + x
        /\ t.totalSupply = s.totalSupply /\ t.accountTokens = s.accountTokens
        /\ t.totalBorrows = s.totalBorrows
        /\ t.initialExchangeRateMantissa = s.initialExchangeRateMantissa
        /\ t.accountBorrows = s.accountBorrows /\ t.borrowIndex = s.borrowIndex
        /\ t.accrualBlockNumber = s.accrualBlockNumber
    BY <1>2 DEF CTokenStorage, addReservesFresh
  <2>2. /\ c.cash = b.cash + x /\ c.supply = b.supply /\ c.tokens = b.tokens /\ c.owed = b.owed
        /\ c.lent = b.lent /\ c.reserves = b.reserves + x /\ c.firstPrice = b.firstPrice
    BY <2>1, BookParts, SameOwed
  <2> HIDE DEF b, c
  <2> QED  BY <1>1, <2>1, <2>2 DEF Ledger!Book
<1>3. ASSUME t = reduceReservesFresh(s, x)
      PROVE  /\ c = [b EXCEPT !.cash = @ - x, !.reserves = @ - x]
             /\ t.accrualBlockNumber = s.accrualBlockNumber
  <2>1. /\ t.cash = s.cash - x /\ t.totalReserves = s.totalReserves - x
        /\ t.totalSupply = s.totalSupply /\ t.accountTokens = s.accountTokens
        /\ t.totalBorrows = s.totalBorrows
        /\ t.initialExchangeRateMantissa = s.initialExchangeRateMantissa
        /\ t.accountBorrows = s.accountBorrows /\ t.borrowIndex = s.borrowIndex
        /\ t.accrualBlockNumber = s.accrualBlockNumber
    BY <1>3 DEF CTokenStorage, reduceReservesFresh
  <2>2. /\ c.cash = b.cash - x /\ c.supply = b.supply /\ c.tokens = b.tokens /\ c.owed = b.owed
        /\ c.lent = b.lent /\ c.reserves = b.reserves - x /\ c.firstPrice = b.firstPrice
    BY <2>1, BookParts, SameOwed
  <2> HIDE DEF b, c
  <2> QED  BY <1>1, <2>1, <2>2 DEF Ledger!Book
<1> QED  BY <1>2, <1>3

LEMMA SeizeBook ==
  ASSUME NEW s \in CTokenStorage, validSnapshots(s), NEW h \in Holders, NEW g \in Holders, g # h,
         NEW n \in Nat, NEW rate \in Nat,
         NEW t \in CTokenStorage, validSnapshots(t), t = seizeInternal(s, g, h, n, rate)
  PROVE  LET b == bookOf(s)
             p == mul_Exp(n, protocolSeizeShareMantissa)
         IN  /\ bookOf(t) = Ledger!seized(b, h, g, n, p, mul_ScalarTruncate(rate, p))
             /\ t.accrualBlockNumber = s.accrualBlockNumber
<1> DEFINE b == bookOf(s)
           c == bookOf(t)
           p == mul_Exp(n, protocolSeizeShareMantissa)
           r == mul_ScalarTruncate(rate, p)
<1>1. t = [s EXCEPT !.totalReserves = @ + r, !.totalSupply = @ - p,
                    !.accountTokens = [s.accountTokens EXCEPT ![h] = @ - n, ![g] = @ + (n - p)]]
  BY DEF seizeInternal
<1> HIDE DEF p, r
<1>2. /\ t.cash = s.cash /\ t.totalSupply = s.totalSupply - p
      /\ t.accountTokens = [s.accountTokens EXCEPT ![h] = @ - n, ![g] = @ + (n - p)]
      /\ t.totalBorrows = s.totalBorrows /\ t.totalReserves = s.totalReserves + r
      /\ t.initialExchangeRateMantissa = s.initialExchangeRateMantissa
      /\ t.accountBorrows = s.accountBorrows /\ t.borrowIndex = s.borrowIndex
      /\ t.accrualBlockNumber = s.accrualBlockNumber
  BY <1>1 DEF CTokenStorage
<1>3. b \in Ledger!Book /\ c \in Ledger!Book
  BY BookTyped
<1>4. /\ c.cash = b.cash /\ c.supply = b.supply - p
      /\ c.tokens = [b.tokens EXCEPT ![h] = @ - n, ![g] = @ + (n - p)]
      /\ c.lent = b.lent /\ c.reserves = b.reserves + r /\ c.firstPrice = b.firstPrice /\ c.owed = b.owed
  BY <1>2, BookParts, SameOwed
<1> HIDE DEF b, c
<1>5. c = Ledger!seized(b, h, g, n, p, r)
  BY <1>3, <1>4 DEF Ledger!Book, Ledger!seized
<1> QED  BY <1>2, <1>5 DEF b, c, p, r

\* Everything but the holders' tokens and allowances is the same.
sameButTokens(s, t) ==
  /\ t.cash = s.cash /\ t.totalBorrows = s.totalBorrows /\ t.totalReserves = s.totalReserves
  /\ t.totalSupply = s.totalSupply /\ t.initialExchangeRateMantissa = s.initialExchangeRateMantissa
  /\ t.accountBorrows = s.accountBorrows /\ t.borrowIndex = s.borrowIndex
  /\ t.accrualBlockNumber = s.accrualBlockNumber /\ t.interestRateModel = s.interestRateModel
  /\ t.reserveFactorMantissa = s.reserveFactorMantissa

\* Then interest is the same, whenever it is charged.
LEMMA SameInterest ==
  ASSUME NEW s \in CTokenStorage, validSnapshots(s), NEW t \in CTokenStorage, sameButTokens(s, t),
         NEW now \in Nat, s.accrualBlockNumber <= now,
         utilizationDefined(s.cash, s.totalBorrows, s.totalReserves)
  PROVE  bookOf(accrueInterest(t, now))
           = [bookOf(accrueInterest(s, now)) EXCEPT !.tokens = t.accountTokens]
<1> DEFINE f == factorUntil(s, now)
           u == chargedBy(s, f)
           v == chargedBy(t, f)
<1>1. f \in Nat /\ bookOf(accrueInterest(s, now)) = bookOf(u)
  BY AccruedBook
<1>2. bookOf(accrueInterest(t, now)) = bookOf(v)
  <2>1. factorUntil(t, now) = f
    BY DEF sameButTokens, factorUntil, borrowRatePerBlock
  <2>2. t.accrualBlockNumber <= now /\ utilizationDefined(t.cash, t.totalBorrows, t.totalReserves)
    BY DEF sameButTokens
  <2> QED  BY <2>1, <2>2, AccruedBook
<1> HIDE DEF f, u, v
<1>3. /\ v.totalBorrows = u.totalBorrows /\ v.totalReserves = u.totalReserves
      /\ v.borrowIndex = u.borrowIndex /\ v.cash = u.cash /\ v.totalSupply = u.totalSupply
      /\ v.initialExchangeRateMantissa = u.initialExchangeRateMantissa
      /\ v.accountTokens = t.accountTokens /\ v.accountBorrows = u.accountBorrows
      /\ u \in CTokenStorage /\ v \in CTokenStorage
      /\ u.accountBorrows = s.accountBorrows /\ s.borrowIndex <= u.borrowIndex
  <2>1. /\ u.totalBorrows = (f * s.totalBorrows) \div expScale + s.totalBorrows
        /\ u.totalReserves = (s.reserveFactorMantissa * ((f * s.totalBorrows) \div expScale)) \div expScale
                             + s.totalReserves
        /\ u.borrowIndex = (f * s.borrowIndex) \div expScale + s.borrowIndex
        /\ (f * s.borrowIndex) \div expScale \in Nat
        /\ u.cash = s.cash /\ u.totalSupply = s.totalSupply
        /\ u.initialExchangeRateMantissa = s.initialExchangeRateMantissa
        /\ u.accountTokens = s.accountTokens /\ u.accountBorrows = s.accountBorrows /\ u \in CTokenStorage
    BY <1>1, ChargedParts DEF u
  <2>2. /\ v.totalBorrows = (f * t.totalBorrows) \div expScale + t.totalBorrows
        /\ v.totalReserves = (t.reserveFactorMantissa * ((f * t.totalBorrows) \div expScale)) \div expScale
                             + t.totalReserves
        /\ v.borrowIndex = (f * t.borrowIndex) \div expScale + t.borrowIndex
        /\ v.cash = t.cash /\ v.totalSupply = t.totalSupply
        /\ v.initialExchangeRateMantissa = t.initialExchangeRateMantissa
        /\ v.accountTokens = t.accountTokens /\ v.accountBorrows = t.accountBorrows /\ v \in CTokenStorage
    BY <1>1, ChargedParts DEF v
  <2>3. s.borrowIndex <= u.borrowIndex
    <3>1. s.borrowIndex \in Nat
      BY DEF CTokenStorage
    <3> QED  BY <2>1, <3>1
  <2> QED  BY <2>1, <2>2, <2>3 DEF sameButTokens
<1>4. validSnapshots(u) /\ validSnapshots(v)
  <2>1. t.borrowIndex = s.borrowIndex /\ s.borrowIndex <= v.borrowIndex /\ v.accountBorrows = s.accountBorrows
    BY <1>3 DEF sameButTokens
  <2> QED  BY <1>3, <2>1, SnapshotsLast
<1> DEFINE b == bookOf(u)
           c == bookOf(v)
<1>5. b \in Ledger!Book /\ c \in Ledger!Book
  BY <1>3, <1>4, BookTyped
<1>6. /\ c.cash = b.cash /\ c.supply = b.supply /\ c.tokens = t.accountTokens /\ c.owed = b.owed
      /\ c.lent = b.lent /\ c.reserves = b.reserves /\ c.firstPrice = b.firstPrice
  BY <1>3, BookParts, SameOwed
<1> HIDE DEF b, c
<1>7. c = [b EXCEPT !.tokens = t.accountTokens]
  BY <1>5, <1>6 DEF Ledger!Book
<1> QED  BY <1>1, <1>2, <1>7 DEF b, c

\* A gift is charged with no more interest than the market was.
LEMMA GiftBook ==
  ASSUME NEW s \in CTokenStorage, validSnapshots(s), NEW x \in Nat,
         NEW t, t = [s EXCEPT !.cash = @ + x], NEW now \in Nat, s.accrualBlockNumber <= now,
         utilizationDefined(s.cash, s.totalBorrows, s.totalReserves)
  PROVE  LET b == [bookOf(accrueInterest(s, now)) EXCEPT !.cash = @ + x]
             c == bookOf(accrueInterest(t, now))
         IN  /\ c = [b EXCEPT !.lent = c.lent, !.reserves = c.reserves, !.owed = c.owed]
             /\ Ledger!charged(c, b)
<1> DEFINE f == factorUntil(s, now)
           g == factorUntil(t, now)
           u == chargedBy(s, f)
           v == chargedBy(t, f)
           w == chargedBy(t, g)
<1>1. /\ t \in CTokenStorage /\ utilizationDefined(t.cash, t.totalBorrows, t.totalReserves)
      /\ borrowRatePerBlock(t) <= borrowRatePerBlock(s)
  BY RateFallsWithCash
<1>2. /\ t.cash = s.cash + x /\ t.totalSupply = s.totalSupply
      /\ t.accountTokens = s.accountTokens
      /\ t.totalBorrows = s.totalBorrows /\ t.totalReserves = s.totalReserves
      /\ t.initialExchangeRateMantissa = s.initialExchangeRateMantissa
      /\ t.accountBorrows = s.accountBorrows /\ t.borrowIndex = s.borrowIndex
      /\ t.accrualBlockNumber = s.accrualBlockNumber
      /\ t.reserveFactorMantissa = s.reserveFactorMantissa
  BY DEF CTokenStorage
<1>3. f \in Nat /\ bookOf(accrueInterest(s, now)) = bookOf(u)
  BY AccruedBook
<1>4. g \in Nat /\ bookOf(accrueInterest(t, now)) = bookOf(w)
  BY <1>1, <1>2, AccruedBook
<1>5. g <= f
  <2>1. now - s.accrualBlockNumber \in Nat
    BY DEF CTokenStorage
  <2>2. borrowRatePerBlock(s) \in Nat /\ borrowRatePerBlock(t) \in Nat
    BY <1>1, BorrowRateNat
  <2> QED  BY <1>1, <1>2, <2>1, <2>2, ProductMonotone DEF factorUntil
<1> HIDE DEF f, g
<1>6. validSnapshots(t)
  BY <1>2 DEF validSnapshots
<1>7. Ledger!charged(bookOf(w), bookOf(v))
  BY <1>1, <1>3, <1>4, <1>5, <1>6, ChargedMore
<1>8. /\ u.totalBorrows = (f * s.totalBorrows) \div expScale + s.totalBorrows
      /\ u.totalReserves = (s.reserveFactorMantissa * ((f * s.totalBorrows) \div expScale)) \div expScale
                           + s.totalReserves
      /\ u.borrowIndex = (f * s.borrowIndex) \div expScale + s.borrowIndex
      /\ (f * s.borrowIndex) \div expScale \in Nat
      /\ u.cash = s.cash /\ u.totalSupply = s.totalSupply
      /\ u.initialExchangeRateMantissa = s.initialExchangeRateMantissa
      /\ u.accountTokens = s.accountTokens /\ u.accountBorrows = s.accountBorrows /\ u \in CTokenStorage
  BY <1>3, ChargedParts
<1>9. /\ v.totalBorrows = (f * t.totalBorrows) \div expScale + t.totalBorrows
      /\ v.totalReserves = (t.reserveFactorMantissa * ((f * t.totalBorrows) \div expScale)) \div expScale
                           + t.totalReserves
      /\ v.borrowIndex = (f * t.borrowIndex) \div expScale + t.borrowIndex
      /\ v.cash = t.cash /\ v.totalSupply = t.totalSupply
      /\ v.initialExchangeRateMantissa = t.initialExchangeRateMantissa
      /\ v.accountTokens = t.accountTokens /\ v.accountBorrows = t.accountBorrows /\ v \in CTokenStorage
  BY <1>1, <1>3, ChargedParts
<1>10. /\ w.borrowIndex = (g * t.borrowIndex) \div expScale + t.borrowIndex
       /\ (g * t.borrowIndex) \div expScale \in Nat
       /\ w.cash = t.cash /\ w.totalSupply = t.totalSupply
       /\ w.initialExchangeRateMantissa = t.initialExchangeRateMantissa
       /\ w.accountTokens = t.accountTokens /\ w.accountBorrows = t.accountBorrows /\ w \in CTokenStorage
  BY <1>1, <1>4, ChargedParts
<1> HIDE DEF u, v, w
<1>11. validSnapshots(u) /\ validSnapshots(v) /\ validSnapshots(w)
  <2>1. s.borrowIndex \in Nat
    BY DEF CTokenStorage
  <2>2. /\ s.borrowIndex <= u.borrowIndex /\ u.accountBorrows = s.accountBorrows
        /\ s.borrowIndex <= v.borrowIndex /\ v.accountBorrows = s.accountBorrows
        /\ s.borrowIndex <= w.borrowIndex /\ w.accountBorrows = s.accountBorrows
    BY <1>2, <1>8, <1>9, <1>10, <2>1
  <2> QED  BY <1>8, <1>9, <1>10, <2>2, SnapshotsLast
<1> DEFINE a == bookOf(u)
           b == bookOf(v)
           c == bookOf(w)
<1>12. a \in Ledger!Book /\ b \in Ledger!Book /\ c \in Ledger!Book
  BY <1>8, <1>9, <1>10, <1>11, BookTyped
<1>13. /\ b.cash = a.cash + x /\ b.supply = a.supply /\ b.tokens = a.tokens /\ b.owed = a.owed
       /\ b.lent = a.lent /\ b.reserves = a.reserves /\ b.firstPrice = a.firstPrice
  <2>1. /\ v.cash = u.cash + x /\ v.totalSupply = u.totalSupply /\ v.accountTokens = u.accountTokens
        /\ v.totalBorrows = u.totalBorrows /\ v.totalReserves = u.totalReserves
        /\ v.initialExchangeRateMantissa = u.initialExchangeRateMantissa
        /\ v.accountBorrows = u.accountBorrows /\ v.borrowIndex = u.borrowIndex
    BY <1>2, <1>8, <1>9
  <2>2. b.owed = a.owed
    BY <2>1, SameOwed
  <2> QED  BY <2>1, <2>2, BookParts
<1>14. c.cash = b.cash /\ c.supply = b.supply /\ c.tokens = b.tokens /\ c.firstPrice = b.firstPrice
  BY <1>9, <1>10, BookParts
<1> HIDE DEF a, b, c
<1>15. b = [a EXCEPT !.cash = @ + x]
  BY <1>12, <1>13 DEF Ledger!Book
<1>16. c = [b EXCEPT !.lent = c.lent, !.reserves = c.reserves, !.owed = c.owed]
  BY <1>12, <1>14 DEF Ledger!Book
<1> QED  BY <1>3, <1>4, <1>7, <1>15, <1>16 DEF a, b, c

-----------------------------------------------------------------------------
(* Every transaction is an entry in the books.                             *)

\* The markets, before a transaction and when it has accrued the interest
LEMMA MarketsBefore ==
  ASSUME IndInv, OpenInv, NEW m \in Markets
  PROVE  /\ ctoken[m] \in CTokenStorage /\ validSnapshots(ctoken[m])
         /\ ctoken[m].accrualBlockNumber <= block /\ block \in Nat
         /\ utilizationDefined(ctoken[m].cash, ctoken[m].totalBorrows, ctoken[m].totalReserves)
         /\ books[m] = bookOf(accrued(m)) /\ DOMAIN books = Markets
<1>1. ctoken[m] \in CTokenStorage /\ validMarket(ctoken[m], block) /\ block \in Nat
  BY MarketsSound DEF IndInv, TypeOK
<1>2. open(m, ctoken[m])
  BY DEF OpenInv
<1>3. utilizationDefined(ctoken[m].cash, ctoken[m].totalBorrows, ctoken[m].totalReserves)
  <2>1. CASE isListed(m)
    <3>1. pool(ctoken[m]) > 0
      BY <1>2, <2>1 DEF open
    <3> QED  BY <1>1, <3>1, PoolInt DEF utilizationDefined
  <2>2. CASE ~isListed(m)
    <3>1. ctoken[m].totalBorrows = 0
      BY <2>2 DEF IndInv, UnlistedIsInert
    <3> QED  BY <3>1 DEF utilizationDefined
  <2> QED  BY <2>1, <2>2
<1> QED  BY <1>1, <1>3 DEF validMarket, books

LEMMA AccruedNow ==
  ASSUME NEW s \in CTokenStorage, NEW now
  PROVE  /\ accrueInterest(s, now).accrualBlockNumber = now
         /\ s.accrualBlockNumber = now => accrueInterest(s, now) = s
BY DEF accrueInterest, CTokenStorage

LEMMA MarketAccrued ==
  ASSUME IndInv, OpenInv, NEW m \in Markets, canAccrue(ctoken[m], block)
  PROVE  /\ accrued(m) \in CTokenStorage /\ validMarket(accrued(m), block) /\ validSnapshots(accrued(m))
         /\ accrued(m).accrualBlockNumber = block /\ books[m] = bookOf(accrued(m))
         /\ bookOf(accrued(m)) \in Ledger!Book
<1>1. /\ accrued(m) \in CTokenStorage /\ validMarket(accrued(m), block)
      /\ ctoken[m] \in CTokenStorage /\ books[m] = bookOf(accrued(m))
  BY AccruedSound, MarketsBefore
<1>2. accrued(m).accrualBlockNumber = block
  BY <1>1, AccruedNow DEF accrued
<1> QED  BY <1>1, <1>2, BookTyped DEF validMarket

\* A transaction of one market writes its book, with the interest accrued.
LEMMA OneBookBecomes ==
  ASSUME IndInv, NEW m \in Markets, NEW t, ctoken' = [ctoken EXCEPT ![m] = t], block' = block
  PROVE  Ledger!write(m, bookOf(accrueInterest(t, block)))
<1>1. DOMAIN ctoken = Markets
  BY DEF IndInv, TypeOK
<1>2. ctoken'[m] = t /\ \A k \in Markets \ {m} : ctoken'[k] = ctoken[k]
  BY <1>1
<1> DEFINE old(k) == bookOf(accrueInterest(ctoken[k], block))
           new(k) == bookOf(accrueInterest(ctoken'[k], block))
           c == bookOf(accrueInterest(t, block))
<1>3. books = [k \in Markets |-> old(k)] /\ books' = [k \in Markets |-> new(k)]
  BY DEF books, accrued
<1>4. \A k \in Markets : new(k) = IF k = m THEN c ELSE old(k)
  BY <1>2
<1> HIDE DEF old, new, c
<1>5. books' = [books EXCEPT ![m] = c]
  BY <1>3, <1>4
<1> QED  BY <1>5 DEF Ledger!write, c

LEMMA OneBookWritten ==
  ASSUME IndInv, NEW m \in Markets, NEW t, t \in CTokenStorage, t.accrualBlockNumber = block,
         ctoken' = [ctoken EXCEPT ![m] = t], block' = block
  PROVE  Ledger!write(m, bookOf(t))
<1>1. accrueInterest(t, block) = t
  BY AccruedNow
<1> QED  BY <1>1, OneBookBecomes

\* The books follow the markets and the block only.
LEMMA SameBooks ==
  ASSUME UNCHANGED <<ctoken, block>>
  PROVE  books' = books
BY DEF books, accrued

\* What arrives of a transfer is a part of it.
LEMMA ReceivedPart ==
  ASSUME NEW m \in Markets, NEW amount \in Nat
  PROVE  received(m, amount) \in Nat /\ received(m, amount) \in 0 .. amount
<1>1. transferFee[m] \in Nat
  BY MoneyMarketAssumption, ExpScaleAssumption
<1>2. mul_Exp(amount, transferFee[m]) \in Nat
  BY <1>1, MulExpNat
<1>3. received(m, amount) \in Nat
  BY ReceivedNat
<1> QED  BY <1>2, <1>3 DEF received

\* A payment to a market, and one of a market
LEMMA Payments ==
  ASSUME IndInv, NEW m \in Markets, NEW h \in Holders, NEW amount \in Nat
  PROVE  /\ canPay(m, h, amount) /\ underlying' = paid(m, h, amount) =>
              amount \in 0 .. underlying[m][h] /\ Ledger!pay(m, h, amount)
         /\ underlying' = sent(m, h, amount) => Ledger!payOut(m, h, amount)
<1>1. underlying[m][h] \in Nat
  BY DEF IndInv, TypeOK
<1>2. ASSUME canPay(m, h, amount), underlying' = paid(m, h, amount)
      PROVE  amount \in 0 .. underlying[m][h] /\ Ledger!pay(m, h, amount)
  <2>1. amount \in 0 .. underlying[m][h]
    BY <1>1, <1>2 DEF canPay
  <2>2. Ledger!pay(m, h, amount)
    BY <1>2 DEF paid, Ledger!pay
  <2> QED  BY <2>1, <2>2
<1>3. ASSUME underlying' = sent(m, h, amount)
      PROVE  Ledger!payOut(m, h, amount)
  BY <1>3, ReceivedPart DEF sent, Ledger!payOut
<1> QED  BY <1>2, <1>3

LEMMA DepositEntry ==
  ASSUME IndInv, OpenInv, NEW m \in Markets, NEW payer \in Holders, NEW h \in Holders, NEW amount \in Nat,
         canAccrue(ctoken[m], block), exchangeRateDefined(accrued(m)), exchangeRateStored(accrued(m)) # 0,
         canPay(m, payer, amount), underlying' = paid(m, payer, amount),
         ctoken' = [ctoken EXCEPT ![m] = mintFresh(accrued(m), h, received(m, amount))], block' = block
  PROVE  Ledger!Deposit(m, payer, h)
<1> DEFINE s == accrued(m)
           x == received(m, amount)
           t == mintFresh(s, h, x)
           b == bookOf(s)
           c == Ledger!deposited(b, h, x)
<1>1. /\ s \in CTokenStorage /\ validMarket(s, block) /\ validSnapshots(s)
      /\ s.accrualBlockNumber = block /\ books[m] = b
  BY MarketAccrued
<1>2. x \in Nat /\ x \in 0 .. amount
  BY ReceivedPart
<1>3. block \in Nat
  BY DEF IndInv, TypeOK
<1> HIDE DEF s, x
<1>4. t \in CTokenStorage /\ validSnapshots(t)
  BY <1>1, <1>2, <1>3, MintValid DEF s, validMarket
<1>5. bookOf(t) = c /\ t.accrualBlockNumber = block
  BY <1>1, <1>2, <1>4, MintBook
<1>6. ctoken' = [ctoken EXCEPT ![m] = t]
  BY DEF s, x
<1> HIDE DEF t
<1>7. Ledger!write(m, c)
  BY <1>4, <1>5, <1>6, OneBookWritten
<1>8. Ledger!price(b) # 0
  BY PriceOfBook DEF s
<1>9. amount \in 0 .. underlying[m][payer] /\ Ledger!pay(m, payer, amount)
  BY Payments
<1> QED  BY <1>1, <1>2, <1>7, <1>8, <1>9 DEF Ledger!Deposit

LEMMA WithdrawEntry ==
  ASSUME IndInv, OpenInv, NEW m \in Markets, NEW h \in Accounts, NEW n \in Nat, NEW x \in Nat,
         canAccrue(ctoken[m], block), RedeemFresh(m, h, n, x),
         LET rate == exchangeRateStored(accrued(m))
         IN  x = mul_ScalarTruncate(rate, n) \/ (rate # 0 /\ n = div_Exp(x, rate))
  PROVE  Ledger!Withdraw(m, h)
<1> DEFINE s == accrued(m)
           t == redeemFresh(s, h, n, x)
           b == bookOf(s)
           c == Ledger!withdrawn(b, h, n, x)
<1>1. /\ s \in CTokenStorage /\ validMarket(s, block) /\ validSnapshots(s)
      /\ s.accrualBlockNumber = block /\ books[m] = b
  BY MarketAccrued
<1>2. /\ s.accountTokens[h] >= n /\ s.totalSupply >= n /\ s.cash >= x
      /\ n # 0 \/ x = 0
      /\ ctoken' = [ctoken EXCEPT ![m] = t] /\ underlying' = sent(m, h, x) /\ block' = block
  BY DEF RedeemFresh
<1>3. block \in Nat /\ h \in Holders
  BY AccountsAreHolders DEF IndInv, TypeOK
<1>4. x = Ledger!worth(b, n) \/ (Ledger!price(b) # 0 /\ n = Ledger!bought(b, x))
  BY PriceOfBook
<1> HIDE DEF s
<1>5. t \in CTokenStorage /\ validSnapshots(t)
  BY <1>1, <1>2, <1>3, RedeemValid DEF validMarket
<1>6. bookOf(t) = c /\ t.accrualBlockNumber = block
  BY <1>1, <1>3, <1>5, RedeemBook
<1>7. n \in 0 .. b.tokens[h] /\ x \in 0 .. b.cash
  <2>1. b.tokens[h] = s.accountTokens[h] /\ b.cash = s.cash
    BY BookParts
  <2>2. s.accountTokens[h] \in Nat /\ s.cash \in Nat
    BY <1>1, <1>3 DEF CTokenStorage
  <2> HIDE DEF b
  <2> QED  BY <1>2, <2>1, <2>2
<1> HIDE DEF t, b
<1>8. Ledger!write(m, c)
  BY <1>2, <1>5, <1>6, OneBookWritten
<1>9. Ledger!payOut(m, h, x)
  BY <1>2, <1>3, Payments
<1> QED  BY <1>1, <1>2, <1>4, <1>7, <1>8, <1>9 DEF Ledger!Withdraw

LEMMA LendEntry ==
  ASSUME IndInv, OpenInv, NEW m \in Markets, NEW h \in Accounts, NEW x \in Nat, Borrow(m, h, x)
  PROVE  Ledger!Lend(m, h)
<1> DEFINE s == accrued(m)
           t == borrowFresh(s, h, x)
           b == bookOf(s)
           c == Ledger!lentTo(b, h, x)
<1>0. canAccrue(ctoken[m], block)
  BY DEF Borrow
<1>1. /\ s \in CTokenStorage /\ validMarket(s, block) /\ validSnapshots(s)
      /\ s.accrualBlockNumber = block /\ books[m] = b
  BY <1>0, MarketAccrued
<1>2. /\ s.cash >= x
      /\ ctoken' = [ctoken EXCEPT ![m] = t] /\ underlying' = sent(m, h, x) /\ block' = block
  BY DEF Borrow
<1>3. block \in Nat /\ h \in Holders
  BY AccountsAreHolders DEF IndInv, TypeOK
<1> HIDE DEF s
<1>5. t \in CTokenStorage /\ validSnapshots(t)
  BY <1>1, <1>2, <1>3, BorrowValid DEF validMarket
<1>6. bookOf(t) = c /\ t.accrualBlockNumber = block
  BY <1>1, <1>3, <1>5, LendBook
<1>7. x \in 0 .. b.cash
  <2>1. b.cash = s.cash
    BY BookParts
  <2>2. s.cash \in Nat
    BY <1>1 DEF CTokenStorage
  <2> HIDE DEF b
  <2> QED  BY <1>2, <2>1, <2>2
<1> HIDE DEF t, b
<1>8. Ledger!write(m, c)
  BY <1>2, <1>5, <1>6, OneBookWritten
<1>9. Ledger!payOut(m, h, x)
  BY <1>2, <1>3, Payments
<1> QED  BY <1>1, <1>7, <1>8, <1>9 DEF Ledger!Lend

LEMMA SettleEntry ==
  ASSUME IndInv, OpenInv, NEW m \in Markets, NEW payer \in Accounts, NEW h \in Accounts, NEW amount \in Nat,
         RepayBorrow(m, payer, h, amount)
  PROVE  Ledger!Settle(m, payer, h)
<1> DEFINE s == accrued(m)
           final == IF amount = UintMax /\ m \notin EtherMarkets
                    THEN borrowBalanceStored(s, h) ELSE amount
           x == received(m, final)
           t == repayBorrowFresh(s, h, x)
           b == bookOf(s)
<1>0. canAccrue(ctoken[m], block)
  BY DEF RepayBorrow
<1>1. /\ s \in CTokenStorage /\ validMarket(s, block) /\ validSnapshots(s)
      /\ s.accrualBlockNumber = block /\ books[m] = b
  BY <1>0, MarketAccrued
<1>2. /\ canPay(m, payer, final) /\ canRepay(s, h, x) /\ underlying' = paid(m, payer, final)
      /\ ctoken' = [ctoken EXCEPT ![m] = t] /\ block' = block
  BY DEF RepayBorrow
<1>3. block \in Nat /\ h \in Holders /\ payer \in Holders
  BY AccountsAreHolders DEF IndInv, TypeOK
<1> HIDE DEF s
<1>4. final \in Nat
  BY <1>1, <1>3, BorrowBalanceBound
<1> HIDE DEF final
<1>5. x \in Nat /\ x \in 0 .. final
  BY <1>4, ReceivedPart
<1> HIDE DEF x
<1>6. t \in CTokenStorage /\ validSnapshots(t)
  BY <1>1, <1>2, <1>3, <1>5, RepayValid DEF validMarket
<1>7. bookOf(t) = Ledger!settled(b, h, x) /\ Ledger!canSettle(b, h, x) /\ t.accrualBlockNumber = block
  BY <1>1, <1>2, <1>3, <1>5, <1>6, SettleBook
<1> HIDE DEF t, b
<1>8. Ledger!write(m, Ledger!settled(b, h, x))
  BY <1>2, <1>6, <1>7, OneBookWritten
<1>9. final \in 0 .. underlying[m][payer] /\ Ledger!pay(m, payer, final)
  BY <1>2, <1>3, <1>4, Payments
<1> QED  BY <1>1, <1>5, <1>7, <1>8, <1>9 DEF Ledger!Settle

LEMMA ToReservesEntry ==
  ASSUME IndInv, OpenInv, NEW m \in Markets, NEW payer \in Accounts, NEW amount \in Nat,
         AddReserves(m, payer, amount)
  PROVE  Ledger!ToReserves(m, payer)
<1> DEFINE s == accrued(m)
           x == received(m, amount)
           t == addReservesFresh(s, x)
           b == bookOf(s)
           c == [b EXCEPT !.cash = @ + x, !.reserves = @ + x]
<1>0. canAccrue(ctoken[m], block)
  BY DEF AddReserves
<1>1. /\ s \in CTokenStorage /\ validMarket(s, block) /\ validSnapshots(s)
      /\ s.accrualBlockNumber = block /\ books[m] = b
  BY <1>0, MarketAccrued
<1>2. /\ canPay(m, payer, amount) /\ underlying' = paid(m, payer, amount)
      /\ ctoken' = [ctoken EXCEPT ![m] = t] /\ block' = block
  BY DEF AddReserves
<1>3. block \in Nat /\ payer \in Holders
  BY AccountsAreHolders DEF IndInv, TypeOK
<1>4. x \in Nat /\ x \in 0 .. amount
  BY ReceivedPart
<1> HIDE DEF s, x
<1>5. t \in CTokenStorage /\ validSnapshots(t)
  BY <1>1, <1>3, <1>4, ReservesValid DEF validMarket
<1>6. bookOf(t) = c /\ t.accrualBlockNumber = block
  BY <1>1, <1>4, <1>5, ReservesBook
<1> HIDE DEF t, b, c
<1>7. Ledger!write(m, c)
  BY <1>2, <1>5, <1>6, OneBookWritten
<1>8. amount \in 0 .. underlying[m][payer] /\ Ledger!pay(m, payer, amount)
  BY <1>2, <1>3, Payments
<1>9. c = [books[m] EXCEPT !.cash = @ + x, !.reserves = @ + x]
  BY <1>1 DEF c
<1> QED  BY <1>4, <1>7, <1>8, <1>9 DEF Ledger!ToReserves

LEMMA FromReservesEntry ==
  ASSUME IndInv, OpenInv, NEW m \in Markets, NEW x \in Nat, ReduceReserves(m, x)
  PROVE  Ledger!FromReserves(m, Admin)
<1> DEFINE s == accrued(m)
           t == reduceReservesFresh(s, x)
           b == bookOf(s)
           c == [b EXCEPT !.cash = @ - x, !.reserves = @ - x]
<1>0. canAccrue(ctoken[m], block)
  BY DEF ReduceReserves
<1>1. /\ s \in CTokenStorage /\ validMarket(s, block) /\ validSnapshots(s)
      /\ s.accrualBlockNumber = block /\ books[m] = b
  BY <1>0, MarketAccrued
<1>2. /\ s.cash >= x /\ x <= s.totalReserves /\ underlying' = sent(m, Admin, x)
      /\ ctoken' = [ctoken EXCEPT ![m] = t] /\ block' = block
  BY DEF ReduceReserves
<1>3. block \in Nat /\ Admin \in Holders
  BY AccountsAreHolders DEF IndInv, TypeOK
<1> HIDE DEF s
<1>5. t \in CTokenStorage /\ validSnapshots(t)
  BY <1>1, <1>2, <1>3, ReservesValid DEF validMarket
<1>6. bookOf(t) = c /\ t.accrualBlockNumber = block
  BY <1>1, <1>5, ReservesBook
<1>7. x \in 0 .. b.cash /\ x <= b.reserves
  <2>1. b.cash = s.cash /\ b.reserves = s.totalReserves
    BY BookParts
  <2>2. s.cash \in Nat
    BY <1>1 DEF CTokenStorage
  <2> HIDE DEF b
  <2> QED  BY <1>2, <2>1, <2>2
<1> HIDE DEF t, b, c
<1>8. Ledger!write(m, c)
  BY <1>2, <1>5, <1>6, OneBookWritten
<1>9. Ledger!payOut(m, Admin, x)
  BY <1>2, <1>3, Payments
<1>10. c = [books[m] EXCEPT !.cash = @ - x, !.reserves = @ - x]
  BY <1>1 DEF c
<1> QED  BY <1>1, <1>7, <1>8, <1>9, <1>10 DEF Ledger!FromReserves

LEMMA MoveEntry ==
  ASSUME IndInv, OpenInv, NEW m \in Markets, NEW spender \in Accounts, NEW src \in Accounts,
         NEW dst \in Accounts, NEW n \in Nat, Transfer(m, spender, src, dst, n)
  PROVE  Ledger!Move(m, src, dst)
<1> DEFINE s == ctoken[m]
           t == transferTokens(s, spender, src, dst, n)
           b == bookOf(accrueInterest(s, block))
           c == bookOf(accrueInterest(t, block))
           moved == [s.accountTokens EXCEPT ![src] = @ - n, ![dst] = @ + n]
<1>1. /\ s \in CTokenStorage /\ validSnapshots(s) /\ s.accrualBlockNumber <= block /\ block \in Nat
      /\ utilizationDefined(s.cash, s.totalBorrows, s.totalReserves) /\ books[m] = b
      /\ validMarket(s, block)
  BY MarketsBefore, MarketsSound DEF accrued
<1>2. /\ src # dst /\ startingAllowance(s, spender, src) >= n /\ s.accountTokens[src] >= n
      /\ ctoken' = [ctoken EXCEPT ![m] = t] /\ UNCHANGED <<underlying, block>>
  BY DEF Transfer
<1>3. spender \in Holders /\ src \in Holders /\ dst \in Holders
  BY AccountsAreHolders
<1> HIDE DEF s
<1>4. t \in CTokenStorage
  BY <1>1, <1>2, <1>3, TransferValid DEF validMarket
<1>5. sameButTokens(s, t) /\ t.accountTokens = moved
  BY <1>1 DEF sameButTokens, transferTokens, CTokenStorage
<1> HIDE DEF t
<1>6. c = [b EXCEPT !.tokens = t.accountTokens]
  BY <1>1, <1>4, <1>5, SameInterest
<1>7. Ledger!write(m, c)
  BY <1>2, OneBookBecomes
<1>8. b.tokens = s.accountTokens
  <2>1. accrueInterest(s, block).accountTokens = s.accountTokens
    BY <1>1 DEF accrueInterest, CTokenStorage
  <2> QED  BY <2>1, BookParts
<1>9. n \in 0 .. b.tokens[src]
  <2>1. s.accountTokens[src] \in Nat
    BY <1>1, <1>3 DEF CTokenStorage
  <2> HIDE DEF b
  <2> QED  BY <1>2, <1>8, <2>1
<1> HIDE DEF b, c
<1>10. c = [b EXCEPT !.tokens = [b.tokens EXCEPT ![src] = @ - n, ![dst] = @ + n]]
  BY <1>5, <1>6, <1>8
<1> QED  BY <1>1, <1>2, <1>7, <1>9, <1>10 DEF Ledger!Move

LEMMA GiftEntry ==
  ASSUME IndInv, OpenInv, NEW m \in Markets, NEW giver \in Accounts, NEW amount \in Nat,
         Donate(m, giver, amount)
  PROVE  Ledger!Gift(m, giver)
<1> DEFINE s == ctoken[m]
           x == received(m, amount)
           t == [s EXCEPT !.cash = @ + x]
           a == bookOf(accrueInterest(s, block))
           b == [a EXCEPT !.cash = @ + x]
           c == bookOf(accrueInterest(t, block))
<1>1. /\ s \in CTokenStorage /\ validSnapshots(s) /\ s.accrualBlockNumber <= block /\ block \in Nat
      /\ utilizationDefined(s.cash, s.totalBorrows, s.totalReserves)
      /\ books[m] = a /\ DOMAIN books = Markets
  BY MarketsBefore DEF accrued
<1>2. /\ canPay(m, giver, amount) /\ underlying' = paid(m, giver, amount)
      /\ ctoken' = [ctoken EXCEPT ![m] = t] /\ block' = block
  BY DEF Donate
<1>3. x \in Nat /\ x \in 0 .. amount /\ giver \in Holders
  BY ReceivedPart, AccountsAreHolders
<1> HIDE DEF s, x
<1>4. c = [b EXCEPT !.lent = c.lent, !.reserves = c.reserves, !.owed = c.owed] /\ Ledger!charged(c, b)
  BY <1>1, <1>3, GiftBook
<1> HIDE DEF t
<1>5. Ledger!write(m, c)
  BY <1>2, OneBookBecomes
<1> HIDE DEF a, b, c
<1>6. books'[m] = c
  BY <1>1, <1>5 DEF Ledger!write
<1>7. amount \in 0 .. underlying[m][giver] /\ Ledger!pay(m, giver, amount)
  BY <1>2, <1>3, Payments
<1>8. b = [books[m] EXCEPT !.cash = @ + x]
  BY <1>1 DEF b
<1> DEFINE lower == [b EXCEPT !.lent = books'[m].lent, !.reserves = books'[m].reserves, !.owed = books'[m].owed]
<1>9. lower = c
  BY <1>4, <1>6
<1> HIDE DEF lower
<1>10. Ledger!write(m, lower) /\ Ledger!charged(lower, b)
  BY <1>4, <1>5, <1>9
<1> DEFINE given(z) ==
             LET d == [books[m] EXCEPT !.cash = @ + z]
                 l == [d EXCEPT !.lent = books'[m].lent, !.reserves = books'[m].reserves,
                                !.owed = books'[m].owed]
             IN  Ledger!write(m, l) /\ Ledger!charged(l, d)
<1>11. given(x)
  BY <1>8, <1>10 DEF lower
<1>12. Ledger!Gift(m, giver) <=>
          \E z \in 0 .. underlying[m][giver] :
             Ledger!pay(m, giver, z) /\ \E y \in 0 .. z : given(y)
  BY DEF Ledger!Gift
<1> HIDE DEF given
<1> QED  BY <1>3, <1>7, <1>11, <1>12

\* The factor grows with every block.
LEMMA FactorGrows ==
  ASSUME NEW s \in CTokenStorage, utilizationDefined(s.cash, s.totalBorrows, s.totalReserves),
         NEW now \in Nat, NEW later \in Nat, s.accrualBlockNumber <= now, now <= later
  PROVE  factorUntil(s, now) <= factorUntil(s, later)
<1>1. borrowRatePerBlock(s) \in Nat
  BY BorrowRateNat
<1>2. /\ now - s.accrualBlockNumber \in Nat /\ later - s.accrualBlockNumber \in Nat
      /\ now - s.accrualBlockNumber <= later - s.accrualBlockNumber
  BY DEF CTokenStorage
<1>3. \A r \in Nat, d \in Nat, e \in Nat : d <= e => r * d <= r * e
  <2> TAKE r \in Nat, d \in Nat, e \in Nat
  <2>1. d <= e => d * r <= e * r
    BY ProductMonotone
  <2>2. d * r = r * d /\ e * r = r * e
    OBVIOUS
  <2> QED  BY <2>1, <2>2
<1> QED  BY <1>1, <1>2, <1>3 DEF factorUntil

LEMMA InterestEntry ==
  ASSUME IndInv, OpenInv, NextBlock
  PROVE  Ledger!Interest
<1>1. UNCHANGED <<ctoken, underlying>> /\ block' = block + 1 /\ block \in Nat
  BY DEF NextBlock, IndInv, TypeOK
<1>2. DOMAIN books' = Markets
  BY DEF books
<1>3. ASSUME NEW m \in Markets
      PROVE  Ledger!charged(books[m], books'[m])
  <2> DEFINE s == ctoken[m]
             f == factorUntil(s, block)
             g == factorUntil(s, block + 1)
             now == block + 1
  <2>1. /\ s \in CTokenStorage /\ validSnapshots(s) /\ s.accrualBlockNumber <= block
        /\ utilizationDefined(s.cash, s.totalBorrows, s.totalReserves)
        /\ books[m] = bookOf(accrueInterest(s, block))
    BY <1>3, MarketsBefore DEF accrued
  <2>2. books'[m] = bookOf(accrueInterest(s, now))
    BY <1>1, <1>3 DEF books, accrued
  <2>3. now \in Nat /\ s.accrualBlockNumber \in Nat /\ s.accrualBlockNumber <= now
    BY <1>1, <2>1 DEF CTokenStorage
  <2> HIDE DEF now, s
  <2>4. f \in Nat /\ bookOf(accrueInterest(s, block)) = bookOf(chargedBy(s, f))
    BY <1>1, <2>1, AccruedBook
  <2>5. factorUntil(s, now) \in Nat /\ bookOf(accrueInterest(s, now)) = bookOf(chargedBy(s, factorUntil(s, now)))
    BY <2>1, <2>3, AccruedBook
  <2>6. g = factorUntil(s, now)
    BY DEF now
  <2>7. f <= g
    <3>1. block <= now
      BY <1>1 DEF now
    <3>2. f <= factorUntil(s, now)
      BY <1>1, <2>1, <2>3, <3>1, FactorGrows
    <3> QED  BY <2>6, <3>2
  <2> HIDE DEF f, g
  <2>8. Ledger!charged(bookOf(chargedBy(s, f)), bookOf(chargedBy(s, g)))
    BY <2>1, <2>4, <2>5, <2>6, <2>7, ChargedMore
  <2> QED  BY <2>1, <2>2, <2>4, <2>5, <2>6, <2>8
<1> QED  BY <1>1, <1>2, <1>3 DEF Ledger!Interest

\* Accruing early, or changing what no book says, is no entry.
LEMMA NoEntry ==
  ASSUME IndInv, OpenInv, NEW m \in Markets,
         \/ AccrueInterest(m)
         \/ \E factor \in Nat : SetReserveFactor(m, factor)
         \/ \E irm \in InterestRateModel : SetInterestRateModel(m, irm)
         \/ \E src \in Holders, spender \in Holders, amount \in Nat : Approve(m, src, spender, amount)
  PROVE  UNCHANGED <<books, underlying>>
<1> DEFINE s == accrued(m)
<1>0. DOMAIN books = Markets
  BY MarketsBefore
<1>1. ASSUME NEW t, t \in CTokenStorage, t.accrualBlockNumber = block, bookOf(t) = bookOf(s),
             canAccrue(ctoken[m], block), ctoken' = [ctoken EXCEPT ![m] = t], block' = block
      PROVE  books' = books
  <2>1. Ledger!write(m, bookOf(t)) /\ books[m] = bookOf(s)
    BY <1>1, OneBookWritten, MarketAccrued
  <2>2. books = [k \in Markets |-> books[k]]
    BY DEF books
  <2> QED  BY <1>0, <1>1, <2>1, <2>2 DEF Ledger!write
<1>2. CASE AccrueInterest(m)
  <2>1. /\ canAccrue(ctoken[m], block) /\ ctoken' = [ctoken EXCEPT ![m] = s]
        /\ UNCHANGED <<underlying, block>>
    BY <1>2 DEF AccrueInterest, withAccrued
  <2>2. s \in CTokenStorage /\ s.accrualBlockNumber = block
    BY <2>1, MarketAccrued
  <2> QED  BY <1>1, <2>1, <2>2
<1>3. ASSUME NEW factor \in Nat, SetReserveFactor(m, factor)
      PROVE  UNCHANGED <<books, underlying>>
  <2> DEFINE t == [s EXCEPT !.reserveFactorMantissa = factor]
  <2>1. /\ canAccrue(ctoken[m], block) /\ ctoken' = [ctoken EXCEPT ![m] = t]
        /\ UNCHANGED <<underlying, block>> /\ factor \in 0 .. reserveFactorMaxMantissa
    BY <1>3 DEF SetReserveFactor
  <2>2. s \in CTokenStorage /\ s.accrualBlockNumber = block
    BY <2>1, MarketAccrued
  <2> HIDE DEF s
  <2>3. /\ t \in CTokenStorage /\ t.accrualBlockNumber = block
        /\ t.cash = s.cash /\ t.totalBorrows = s.totalBorrows /\ t.totalReserves = s.totalReserves
        /\ t.totalSupply = s.totalSupply /\ t.initialExchangeRateMantissa = s.initialExchangeRateMantissa
        /\ t.accountTokens = s.accountTokens /\ t.accountBorrows = s.accountBorrows
        /\ t.borrowIndex = s.borrowIndex
    BY <2>1, <2>2 DEF CTokenStorage
  <2> HIDE DEF t
  <2>4. bookOf(t) = bookOf(s)
    BY <2>3, SameBook
  <2> QED  BY <1>1, <2>1, <2>3, <2>4
<1>4. ASSUME NEW irm \in InterestRateModel, SetInterestRateModel(m, irm)
      PROVE  UNCHANGED <<books, underlying>>
  <2> DEFINE t == [s EXCEPT !.interestRateModel = irm]
  <2>1. /\ canAccrue(ctoken[m], block) /\ ctoken' = [ctoken EXCEPT ![m] = t]
        /\ UNCHANGED <<underlying, block>>
    BY <1>4 DEF SetInterestRateModel
  <2>2. s \in CTokenStorage /\ s.accrualBlockNumber = block
    BY <2>1, MarketAccrued
  <2> HIDE DEF s
  <2>3. /\ t \in CTokenStorage /\ t.accrualBlockNumber = block
        /\ t.cash = s.cash /\ t.totalBorrows = s.totalBorrows /\ t.totalReserves = s.totalReserves
        /\ t.totalSupply = s.totalSupply /\ t.initialExchangeRateMantissa = s.initialExchangeRateMantissa
        /\ t.accountTokens = s.accountTokens /\ t.accountBorrows = s.accountBorrows
        /\ t.borrowIndex = s.borrowIndex
    BY <2>1, <2>2 DEF CTokenStorage
  <2> HIDE DEF t
  <2>4. bookOf(t) = bookOf(s)
    BY <2>3, SameBook
  <2> QED  BY <1>1, <2>1, <2>3, <2>4
<1>5. ASSUME NEW src \in Holders, NEW spender \in Holders, NEW amount \in Nat,
             Approve(m, src, spender, amount)
      PROVE  UNCHANGED <<books, underlying>>
  <2> DEFINE o == ctoken[m]
             t == [o EXCEPT !.transferAllowances[src][spender] = amount]
             b == bookOf(accrueInterest(o, block))
  <2>1. /\ o \in CTokenStorage /\ validSnapshots(o) /\ o.accrualBlockNumber <= block /\ block \in Nat
        /\ utilizationDefined(o.cash, o.totalBorrows, o.totalReserves) /\ books[m] = b
    BY MarketsBefore DEF accrued
  <2>2. ctoken' = [ctoken EXCEPT ![m] = t] /\ UNCHANGED <<underlying, block>>
    BY <1>5 DEF Approve
  <2> HIDE DEF o
  <2>3. t \in CTokenStorage /\ sameButTokens(o, t) /\ t.accountTokens = o.accountTokens
    BY <1>5, <2>1 DEF CTokenStorage, sameButTokens
  <2> HIDE DEF t
  <2>4. bookOf(accrueInterest(t, block)) = [b EXCEPT !.tokens = t.accountTokens]
    BY <2>1, <2>3, SameInterest
  <2>5. b.tokens = t.accountTokens
    <3>1. accrueInterest(o, block).accountTokens = o.accountTokens
      BY <2>1 DEF accrueInterest, CTokenStorage
    <3> QED  BY <2>3, <3>1, BookParts
  <2>6. bookOf(accrueInterest(t, block)) = b
    <3>1. b \in Ledger!Book
      <4>1. bookOf(accrueInterest(o, block)) = bookOf(chargedBy(o, factorUntil(o, block)))
            /\ factorUntil(o, block) \in Nat
        BY <2>1, AccruedBook
      <4> DEFINE u == chargedBy(o, factorUntil(o, block))
                 f == factorUntil(o, block)
      <4>2. /\ u \in CTokenStorage /\ u.accountBorrows = o.accountBorrows
            /\ u.borrowIndex = (f * o.borrowIndex) \div expScale + o.borrowIndex
            /\ (f * o.borrowIndex) \div expScale \in Nat
        BY <2>1, <4>1, ChargedParts
      <4> HIDE DEF u, f
      <4>3. o.borrowIndex <= u.borrowIndex
        <5>1. o.borrowIndex \in Nat
          BY <2>1 DEF CTokenStorage
        <5> QED  BY <4>2, <5>1
      <4>4. validSnapshots(u)
        BY <2>1, <4>2, <4>3, SnapshotsLast
      <4> QED  BY <4>1, <4>2, <4>4, BookTyped DEF u
    <3> HIDE DEF b
    <3> QED  BY <2>4, <2>5, <3>1 DEF Ledger!Book
  <2>7. Ledger!write(m, b)
    BY <2>2, <2>6, OneBookBecomes
  <2>8. books = [k \in Markets |-> books[k]]
    BY DEF books
  <2> QED  BY <1>0, <2>1, <2>2, <2>7, <2>8 DEF Ledger!write
<1> QED  BY <1>2, <1>3, <1>4, <1>5

\* A repayment of nothing takes no tokens.
LEMMA NothingSeized ==
  ASSUME IndInv, NEW ct, NEW m \in Markets, NEW c \in Markets, ct[c] \in CTokenStorage,
         seizeTokensDefined(ct, m, c), NEW amount \in Nat
  PROVE  amount = 0 => liquidateCalculateSeizeTokens(ct, m, c, amount) = 0
<1> DEFINE numerator == mul_Exp(comptroller.liquidationIncentiveMantissa, price[m])
           divisor   == seizeDenominator(ct, c)
           ratio     == div_Exp(numerator, divisor)
<1>1. /\ comptroller.liquidationIncentiveMantissa \in Nat
      /\ price[m] \in Nat /\ price[c] \in Nat
  BY DEF IndInv, TypeOK, ComptrollerTypeOK, ComptrollerStorage
<1>2. exchangeRateStored(ct[c]) \in Nat
  BY ExchangeRateNat DEF seizeTokensDefined
<1>3. numerator \in Nat /\ divisor \in Nat /\ divisor # 0
  BY <1>1, <1>2, MulExpNat DEF seizeDenominator, seizeTokensDefined
<1>4. liquidateCalculateSeizeTokens(ct, m, c, amount) = mul_ScalarTruncate(ratio, amount)
  BY DEF liquidateCalculateSeizeTokens
<1> HIDE DEF numerator, divisor
<1>5. ratio \in Nat
  BY <1>3, DivExpNat
<1> HIDE DEF ratio
<1>6. \A z \in Nat : z * 0 = 0
  OBVIOUS
<1>7. 0 \div expScale = 0
  BY ExpScaleAssumption
<1> QED  BY <1>4, <1>5, <1>6, <1>7 DEF mul_ScalarTruncate, truncate

LEMMA LiquidateEntry ==
  ASSUME IndInv, OpenInv, NEW m \in Markets, NEW c \in Markets, NEW liquidator \in Accounts,
         NEW borrower \in Accounts, NEW amount \in Nat,
         LiquidateBorrow(m, c, liquidator, borrower, amount)
  PROVE  Ledger!Liquidate(m, c, liquidator, borrower)
<1> DEFINE both   == [ctoken EXCEPT ![m] = accrued(m), ![c] = accrued(c)]
           actual == received(m, amount)
           repaid == [both EXCEPT ![m] = repayBorrowFresh(both[m], borrower, actual)]
           tokens == liquidateCalculateSeizeTokens(repaid, m, c, actual)
           rate   == seizeRate(repaid, m, c, amount)
           share  == mul_Exp(tokens, protocolSeizeShareMantissa)
           worth  == mul_ScalarTruncate(rate, share)
           taken  == seizeInternal(repaid[c], liquidator, borrower, tokens, rate)
<1>1. /\ borrower # liquidator
      /\ canAccrue(ctoken[m], block) /\ canAccrue(ctoken[c], block)
      /\ canRepay(both[m], borrower, actual)
      /\ seizeTokensDefined(repaid, m, c) /\ exchangeRateDefined(repaid[c])
      /\ repaid[c].accountTokens[borrower] >= tokens
      /\ seizeRateDefined(repaid, m, c, amount)
      /\ repaid[c].totalSupply >= share
      /\ ctoken' = [repaid EXCEPT ![c] = taken] /\ block' = block
      /\ canPay(m, liquidator, amount) /\ underlying' = paid(m, liquidator, amount)
  BY DEF LiquidateBorrow, seizeTokensDefined
<1>2. /\ block \in Nat /\ liquidator \in Holders /\ borrower \in Holders
      /\ actual \in Nat /\ actual \in 0 .. amount /\ ctoken \in [Markets -> CTokenStorage]
      /\ expScale \in Nat /\ expScale # 0
  BY AccountsAreHolders, ReceivedPart, ExpScaleAssumption DEF IndInv, TypeOK
<1>3. /\ accrued(m) \in CTokenStorage /\ validMarket(accrued(m), block) /\ validSnapshots(accrued(m))
      /\ accrued(m).accrualBlockNumber = block /\ books[m] = bookOf(accrued(m))
      /\ accrued(c) \in CTokenStorage /\ validMarket(accrued(c), block) /\ validSnapshots(accrued(c))
      /\ accrued(c).accrualBlockNumber = block /\ books[c] = bookOf(accrued(c))
  BY <1>1, MarketAccrued
<1>4. /\ both[m] = accrued(m) /\ DOMAIN both = Markets
      /\ \A k \in Markets : both[k] = IF k \in {m, c} THEN accrued(k) ELSE ctoken[k]
  BY <1>2
<1> HIDE DEF both
<1> DEFINE t == repayBorrowFresh(accrued(m), borrower, actual)
<1>5. canRepay(accrued(m), borrower, actual)
  BY <1>1, <1>4
<1>6. validMarket(t, block) /\ t \in CTokenStorage /\ validSnapshots(t)
  BY <1>2, <1>3, <1>5, RepayValid DEF validMarket
<1>7. /\ bookOf(t) = Ledger!settled(books[m], borrower, actual)
      /\ Ledger!canSettle(books[m], borrower, actual) /\ t.accrualBlockNumber = block
  BY <1>2, <1>3, <1>5, <1>6, SettleBook
<1>8. /\ DOMAIN repaid = Markets
      /\ \A k \in Markets : repaid[k] = IF k = m THEN t ELSE both[k]
  BY <1>4
<1> HIDE DEF t, repaid, actual
<1> DEFINE r == repaid[c]
           b == IF c = m THEN bookOf(t) ELSE books[c]
<1>9. r \in CTokenStorage /\ validMarket(r, block) /\ validSnapshots(r) /\ r.accrualBlockNumber = block
  BY <1>3, <1>4, <1>6, <1>7, <1>8
<1>10. b = bookOf(r)
  BY <1>3, <1>4, <1>8
<1>11. tokens \in Nat /\ rate \in Nat
  BY <1>1, <1>2, <1>9, SeizeTokensNat, SeizeRateNat
<1>12. actual = 0 => tokens = 0
  BY <1>1, <1>2, <1>9, NothingSeized
<1>13. rate <= exchangeRateStored(r) \/ r.totalSupply = 0
  <2> SUFFICES ASSUME r.totalSupply # 0 PROVE rate <= exchangeRateStored(r)
    OBVIOUS
  <2>1. pool(r) \in Nat
    <3>1. r.cash + r.totalBorrows >= r.totalReserves
      BY <1>1 DEF exchangeRateDefined
    <3> HIDE DEF r
    <3> QED  BY <1>9, <3>1, PoolInt
  <2> QED  BY <1>1, <1>2, <1>9, <2>1, SeizeRateBound
<1> HIDE DEF tokens, rate
<1>14. tokens <= r.accountTokens[borrower] /\ r.accountTokens[borrower] \in Nat
  <2>1. r.accountTokens[borrower] \in Nat
    BY <1>2, <1>9 DEF CTokenStorage
  <2> QED  BY <1>1, <1>11, <2>1
<1>15. exchangeRateStored(r) \in Nat /\ r.totalSupply \in Nat /\ r.totalSupply >= share
  BY <1>1, <1>9, ExchangeRateNat, PoolInt
<1>16. taken = seizeInternal(r, liquidator, borrower, tokens, rate)
  OBVIOUS
<1> HIDE DEF r
<1>17. /\ share \in Nat /\ worth \in Nat
       /\ tokensSeized(r, seizeInternal(r, liquidator, borrower, tokens, rate),
                       borrower, liquidator, tokens, share, worth)
  BY <1>1, <1>2, <1>9, <1>11, <1>14, SeizeEffect
<1>18. share <= tokens
  BY <1>17 DEF tokensSeized
<1> HIDE DEF taken
<1>19. taken \in CTokenStorage /\ validSnapshots(taken)
  <2>1. validMarket(seizeInternal(r, liquidator, borrower, tokens, rate), block)
    BY <1>1, <1>2, <1>9, <1>11, <1>14, <1>15, SeizeValid
  <2> QED  BY <1>16, <2>1 DEF validMarket
<1>20. /\ bookOf(taken) = Ledger!seized(b, borrower, liquidator, tokens, share, worth)
       /\ taken.accrualBlockNumber = block
  BY <1>1, <1>2, <1>9, <1>10, <1>11, <1>16, <1>19, SeizeBook
<1> HIDE DEF share, worth
<1>21. worth \in 0 .. Ledger!worth(b, share)
  <2>1. Ledger!worth(b, share) = mul_ScalarTruncate(exchangeRateStored(r), share)
    BY <1>10, PriceOfBook
  <2>2. worth = mul_ScalarTruncate(rate, share)
    BY DEF worth, share
  <2>3. mul_ScalarTruncate(exchangeRateStored(r), share) \in Nat
    BY <1>15, <1>17, ScalarTruncateNat
  <2>4. worth <= mul_ScalarTruncate(exchangeRateStored(r), share)
    <3>1. CASE r.totalSupply = 0
      <4>1. share = 0
        BY <1>15, <1>17, <3>1
      <4>2. \A z \in Nat : z * 0 = 0
        OBVIOUS
      <4>3. rate * share = exchangeRateStored(r) * share
        BY <1>11, <1>15, <4>1, <4>2
      <4> QED  BY <1>17, <2>2, <4>3 DEF mul_ScalarTruncate, truncate
    <3>2. CASE rate <= exchangeRateStored(r)
      BY <1>2, <1>11, <1>15, <1>17, <2>2, <3>2, FractionMonotone DEF mul_ScalarTruncate, truncate
    <3> QED  BY <1>13, <3>1, <3>2
  <2> QED  BY <1>17, <2>1, <2>3, <2>4
<1>22. tokens \in 0 .. b.tokens[borrower] /\ share \in 0 .. tokens
  <2>1. b.tokens = r.accountTokens
    BY <1>10, BookParts
  <2> HIDE DEF b
  <2> QED  BY <1>11, <1>14, <1>17, <1>18, <2>1
<1>23. books' = [books EXCEPT ![m] = bookOf(t), ![c] = bookOf(taken)]
  <2> DEFINE old(k) == bookOf(accrueInterest(ctoken[k], block))
             new(k) == bookOf(accrueInterest(ctoken'[k], block))
             p == bookOf(t)
             q == bookOf(taken)
  <2>1. books = [k \in Markets |-> old(k)] /\ books' = [k \in Markets |-> new(k)]
    BY <1>1 DEF books, accrued
  <2>2. accrueInterest(t, block) = t /\ accrueInterest(taken, block) = taken
    BY <1>6, <1>7, <1>19, <1>20, AccruedNow
  <2>3. \A k \in Markets : ctoken'[k] = IF k = c THEN taken ELSE IF k = m THEN t ELSE ctoken[k]
    BY <1>1, <1>4, <1>8
  <2>4. \A k \in Markets : new(k) = IF k = c THEN q ELSE IF k = m THEN p ELSE old(k)
    BY <2>2, <2>3
  <2> HIDE DEF old, new, p, q
  <2>5. books' = [books EXCEPT ![m] = p, ![c] = q]
    BY <2>1, <2>4
  <2> QED  BY <2>5 DEF p, q
<1>24. amount \in 0 .. underlying[m][liquidator] /\ Ledger!pay(m, liquidator, amount)
  BY <1>1, <1>2, Payments
<1> DEFINE settledBook == Ledger!settled(books[m], borrower, actual)
           d == IF c = m THEN settledBook ELSE books[c]
           takenBook == Ledger!seized(d, borrower, liquidator, tokens, share, worth)
<1>25. d = b /\ settledBook = bookOf(t) /\ takenBook = bookOf(taken)
  BY <1>7, <1>20
<1> HIDE DEF b, d, settledBook, takenBook
<1>26. /\ books' = [books EXCEPT ![m] = settledBook, ![c] = takenBook]
       /\ tokens \in 0 .. d.tokens[borrower] /\ worth \in 0 .. Ledger!worth(d, share)
  BY <1>21, <1>22, <1>23, <1>25
<1> QED  BY <1>1, <1>2, <1>7, <1>12, <1>22, <1>24, <1>26
         DEF Ledger!Liquidate, settledBook, d, takenBook

\* A listing is a deposit for the Comptroller.
LEMMA SeedEntry ==
  ASSUME IndInv, OpenInv, NEW m \in Markets, NEW msgValue \in Nat, SupportMarket(m, msgValue)
  PROVE  \E payer \in Holders : Ledger!Deposit(m, payer, ComptrollerAddress)
<1> DEFINE s == accrued(m)
           payer == IF m \in EtherMarkets THEN Admin ELSE ComptrollerAddress
           amount == IF m \in EtherMarkets THEN msgValue ELSE seedAmount(ctoken[m])
<1>1. /\ ~isListed(m) /\ canAccrue(ctoken[m], block) /\ canPay(m, payer, amount)
      /\ ctoken' = [ctoken EXCEPT ![m] = mintFresh(s, ComptrollerAddress, received(m, amount))]
      /\ underlying' = paid(m, payer, amount) /\ block' = block
  BY DEF SupportMarket
<1>2. ctoken[m].totalSupply = 0 /\ ctoken[m] \in CTokenStorage
  BY <1>1, MarketsSound DEF IndInv, UnlistedIsInert
<1>3. amount \in Nat
  BY <1>2, SeedAmountNat DEF exchangeRateDefined
<1>4. payer \in Holders /\ ComptrollerAddress \in Holders
  BY AccountsAreHolders
<1>5. s.totalSupply = 0 /\ s.initialExchangeRateMantissa # 0
  <2>1. s \in CTokenStorage
    BY <1>1, AccruedSound
  <2>2. s.totalSupply = ctoken[m].totalSupply
    BY <1>1, AccruedSound
  <2> HIDE DEF s
  <2> QED  BY <1>2, <2>1, <2>2 DEF CTokenStorage
<1>6. exchangeRateDefined(s) /\ exchangeRateStored(s) # 0
  BY <1>5 DEF exchangeRateDefined, exchangeRateStored
<1> HIDE DEF payer, amount
<1>7. Ledger!Deposit(m, payer, ComptrollerAddress)
  BY <1>1, <1>3, <1>4, <1>6, DepositEntry
<1> QED  BY <1>4, <1>7

LEMMA RedeemEntry ==
  ASSUME IndInv, OpenInv, NEW m \in Markets, NEW h \in Accounts, NEW n \in Nat, Redeem(m, h, n)
  PROVE  Ledger!Withdraw(m, h)
<1> DEFINE rate == exchangeRateStored(accrued(m))
           x == mul_ScalarTruncate(rate, n)
<1>1. canAccrue(ctoken[m], block) /\ exchangeRateDefined(accrued(m)) /\ RedeemFresh(m, h, n, x)
  BY DEF Redeem
<1>2. rate \in Nat
  BY <1>1, AccruedSound, ExchangeRateNat
<1>3. x \in Nat
  BY <1>2, ScalarTruncateNat
<1> QED  BY <1>1, <1>3, WithdrawEntry

LEMMA RedeemUnderlyingEntry ==
  ASSUME IndInv, OpenInv, NEW m \in Markets, NEW h \in Accounts, NEW x \in Nat, RedeemUnderlying(m, h, x)
  PROVE  Ledger!Withdraw(m, h)
<1> DEFINE rate == exchangeRateStored(accrued(m))
           n == div_Exp(x, rate)
<1>1. /\ canAccrue(ctoken[m], block) /\ exchangeRateDefined(accrued(m)) /\ rate # 0
      /\ RedeemFresh(m, h, n, x)
  BY DEF RedeemUnderlying
<1>2. rate \in Nat
  BY <1>1, AccruedSound, ExchangeRateNat
<1>3. n \in Nat
  BY <1>1, <1>2, DivExpNat
<1> QED  BY <1>1, <1>3, WithdrawEntry

\* A deposit of the minter for itself
LEMMA MintEntry ==
  ASSUME IndInv, OpenInv, NEW m \in Markets, NEW h \in Accounts, NEW amount \in Nat, Mint(m, h, amount)
  PROVE  Ledger!Deposit(m, h, h)
<1>1. /\ canAccrue(ctoken[m], block) /\ exchangeRateDefined(accrued(m)) /\ exchangeRateStored(accrued(m)) # 0
      /\ canPay(m, h, amount) /\ underlying' = paid(m, h, amount)
      /\ ctoken' = [ctoken EXCEPT ![m] = mintFresh(accrued(m), h, received(m, amount))] /\ block' = block
  BY DEF Mint
<1>2. h \in Holders
  BY AccountsAreHolders
<1> QED  BY <1>1, <1>2, DepositEntry

\* The entries of the ledger, one by one
entry(m, c, h, g) ==
  \/ Ledger!Withdraw(m, h) \/ Ledger!Lend(m, h) \/ Ledger!ToReserves(m, h) \/ Ledger!FromReserves(m, h)
  \/ Ledger!Gift(m, h) \/ Ledger!Deposit(m, h, g) \/ Ledger!Settle(m, h, g) \/ Ledger!Move(m, h, g)
  \/ Ledger!Liquidate(m, c, h, g)

LEMMA EntriesAreSteps ==
  ASSUME NEW m \in Markets, NEW c \in Markets, NEW h \in Holders, NEW g \in Holders, entry(m, c, h, g)
  PROVE  Ledger!LedgerNext
BY DEF entry, Ledger!LedgerNext

\* The books after a step: an entry, or as they were
kept == Ledger!LedgerNext \/ UNCHANGED <<books, underlying>>

\* Every step of the markets is one of the ledger.
LEMMA StepsAreEntries ==
  ASSUME IndInv, OpenInv, [Next]_vars
  PROVE  kept
<1>0. /\ \A m \in Markets : Suppliers[m] \subseteq Accounts /\ Borrowers[m] \subseteq Accounts
      /\ Amounts \subseteq Nat /\ UintMax \in Nat /\ Donations \subseteq Nat
      /\ TokenAmounts \subseteq Nat /\ TransferAmounts \subseteq Nat /\ Approvals \subseteq Nat
      /\ ReserveFactors \subseteq Nat /\ ReserveAmounts \subseteq Nat
      /\ RateModels \subseteq InterestRateModel
  BY MoneyMarketAssumption, CTokenAssumption
<1>a. Accounts \subseteq Holders /\ ComptrollerAddress \in Holders /\ Admin \in Holders
  BY AccountsAreHolders
<1>e. ASSUME NEW m \in Markets, NEW c \in Markets, NEW h \in Holders, NEW g \in Holders, entry(m, c, h, g)
      PROVE  kept
  BY <1>e, EntriesAreSteps DEF kept
<1>n. ASSUME UNCHANGED <<books, underlying>>
      PROVE  kept
  BY <1>n DEF kept
<1>1. ASSUME NEW m \in Markets, NEW a \in Suppliers[m], SupplierStep(m, a)
      PROVE  kept
  <2>0. a \in Accounts /\ a \in Holders
    BY <1>0, <1>a
  <2>1. ASSUME NEW amount \in Amounts, Mint(m, a, amount) PROVE kept
    <3>1. Ledger!Deposit(m, a, a)
      BY <1>0, <2>0, <2>1, MintEntry
    <3> QED  BY <1>e, <2>0, <3>1 DEF entry
  <2>2. ASSUME NEW amount \in Amounts, RedeemUnderlying(m, a, amount) PROVE kept
    <3>1. Ledger!Withdraw(m, a)
      BY <1>0, <2>0, <2>2, RedeemUnderlyingEntry
    <3> QED  BY <1>e, <2>0, <3>1 DEF entry
  <2>3. ASSUME NEW tokens \in TokenAmounts, Redeem(m, a, tokens) PROVE kept
    <3>1. Ledger!Withdraw(m, a)
      BY <1>0, <2>0, <2>3, RedeemEntry
    <3> QED  BY <1>e, <2>0, <3>1 DEF entry
  <2>4. ASSUME NEW tokens \in TransferAmounts, NEW src \in Accounts, NEW dst \in Accounts,
               Transfer(m, a, src, dst, tokens)
        PROVE  kept
    <3>1. Ledger!Move(m, src, dst)
      BY <1>0, <2>0, <2>4, MoveEntry
    <3> QED  BY <1>a, <1>e, <3>1 DEF entry
  <2>5. ASSUME NEW amount \in Approvals, NEW spender \in Accounts, Approve(m, a, spender, amount)
        PROVE  kept
    <3>1. spender \in Holders /\ amount \in Nat
      BY <1>0, <1>a
    <3>2. UNCHANGED <<books, underlying>>
      BY <2>0, <2>5, <3>1, NoEntry
    <3> QED  BY <1>n, <3>2
  <2>6. ASSUME NEW amount \in Donations, Donate(m, a, amount) PROVE kept
    <3>1. Ledger!Gift(m, a)
      BY <1>0, <2>0, <2>6, GiftEntry
    <3> QED  BY <1>e, <2>0, <3>1 DEF entry
  <2>7. ASSUME NEW amount \in Donations, AddReserves(m, a, amount) PROVE kept
    <3>1. Ledger!ToReserves(m, a)
      BY <1>0, <2>0, <2>7, ToReservesEntry
    <3> QED  BY <1>e, <2>0, <3>1 DEF entry
  <2> QED  BY <1>1, <2>1, <2>2, <2>3, <2>4, <2>5, <2>6, <2>7 DEF SupplierStep
<1>2. ASSUME NEW m \in Markets, NEW b \in Borrowers[m], BorrowerStep(m, b)
      PROVE  kept
  <2>0. b \in Accounts /\ b \in Holders
    BY <1>0, <1>a
  <2>1. ASSUME NEW amount \in Amounts, Borrow(m, b, amount) PROVE kept
    <3>1. Ledger!Lend(m, b)
      BY <1>0, <2>0, <2>1, LendEntry
    <3> QED  BY <1>e, <2>0, <3>1 DEF entry
  <2>2. ASSUME NEW amount \in Amounts \cup {UintMax}, NEW payer \in Accounts, RepayBorrow(m, payer, b, amount)
        PROVE  kept
    <3>1. Ledger!Settle(m, payer, b)
      BY <1>0, <2>0, <2>2, SettleEntry
    <3> QED  BY <1>a, <1>e, <2>0, <3>1 DEF entry
  <2>3. ASSUME NEW amount \in Amounts, NEW liquidator \in Accounts, NEW c \in Markets,
               LiquidateBorrow(m, c, liquidator, b, amount)
        PROVE  kept
    <3>1. Ledger!Liquidate(m, c, liquidator, b)
      BY <1>0, <2>0, <2>3, LiquidateEntry
    <3> QED  BY <1>a, <1>e, <2>0, <3>1 DEF entry
  <2> QED  BY <1>2, <2>1, <2>2, <2>3 DEF BorrowerStep
<1>3. ASSUME NEW a \in Accounts, MembershipStep(a)
      PROVE  kept
  <2>1. UNCHANGED <<ctoken, underlying, block>>
    BY <1>3 DEF MembershipStep, marketVars
  <2> QED  BY <1>n, <2>1, SameBooks
<1>4. ASSUME NEW m \in Markets, AccrueInterest(m) \/ AdminMarketStep(m)
      PROVE  kept
  <2>1. CASE AccrueInterest(m)
    <3>1. UNCHANGED <<books, underlying>>
      BY <2>1, NoEntry
    <3> QED  BY <1>n, <3>1
  <2>2. ASSUME NEW value \in Amounts, SupportMarket(m, value) PROVE kept
    <3>1. PICK payer \in Holders : Ledger!Deposit(m, payer, ComptrollerAddress)
      BY <1>0, <2>2, SeedEntry
    <3> QED  BY <1>a, <1>e, <3>1 DEF entry
  <2>3. ASSUME NEW factor \in ReserveFactors, SetReserveFactor(m, factor) PROVE kept
    <3>1. UNCHANGED <<books, underlying>>
      BY <1>0, <2>3, NoEntry
    <3> QED  BY <1>n, <3>1
  <2>4. ASSUME NEW amount \in ReserveAmounts, ReduceReserves(m, amount) PROVE kept
    <3>1. Ledger!FromReserves(m, Admin)
      BY <1>0, <2>4, FromReservesEntry
    <3> QED  BY <1>a, <1>e, <3>1 DEF entry
  <2>5. ASSUME NEW irm \in RateModels, SetInterestRateModel(m, irm) PROVE kept
    <3>1. UNCHANGED <<books, underlying>>
      BY <1>0, <2>5, NoEntry
    <3> QED  BY <1>n, <3>1
  <2> QED  BY <1>4, <2>1, <2>2, <2>3, <2>4, <2>5 DEF AdminMarketStep
<1>5. CASE AdminComptrollerStep
  <2>1. UNCHANGED <<ctoken, underlying, block>>
    BY <1>5 DEF AdminComptrollerStep, marketVars
  <2> QED  BY <1>n, <2>1, SameBooks
<1>6. CASE NextBlock
  BY <1>6, InterestEntry DEF kept, Ledger!LedgerNext
<1>7. CASE UNCHANGED vars
  BY <1>n, <1>7, SameBooks DEF vars
<1> QED  BY <1>1, <1>2, <1>3, <1>4, <1>5, <1>6, <1>7 DEF Next

\* A market nobody borrowed from, whose tokens are the first holder's
justOpened(s, h) ==
  /\ s \in CTokenStorage /\ validSnapshots(s) /\ s.accrualBlockNumber = 0
  /\ s.totalBorrows = 0 /\ s.totalReserves = 0
  /\ \A k \in Holders : s.accountBorrows[k].principal = 0
  /\ s.totalSupply = div_Exp(s.cash, s.initialExchangeRateMantissa)
  /\ s.accountTokens[h] = s.totalSupply /\ \A k \in Holders \ {h} : s.accountTokens[k] = 0

LEMMA FirstBooks ==
  ASSUME block = 0, underlying \in [Markets -> [Holders -> Nat]],
         NEW h \in Holders, \A m \in Markets : justOpened(ctoken[m], h)
  PROVE  Ledger!LedgerInit
<1>1. ASSUME NEW m \in Markets
      PROVE  LET b == books[m]
             IN  /\ b \in Ledger!Book
                 /\ b.lent = 0 /\ b.reserves = 0 /\ b.owed = Ledger!nothing
                 /\ b.supply = (b.cash * expScale) \div b.firstPrice
                 /\ b.tokens = [Ledger!nothing EXCEPT ![h] = b.supply]
  <2> DEFINE s == ctoken[m]
             b == bookOf(s)
  <2>1. justOpened(s, h)
    BY <1>1
  <2>2. books[m] = bookOf(accrueInterest(s, block))
    BY <1>1 DEF books, accrued
  <2> HIDE DEF s
  <2>3. books[m] = b
    BY <2>1, <2>2, AccruedNow DEF justOpened
  <2>4. b \in Ledger!Book
    BY <2>1, BookTyped DEF justOpened
  <2>5. b.owed = Ledger!nothing
    <3>1. \A k \in Holders : borrowBalanceStored(s, k) = 0
      BY <2>1 DEF borrowBalanceStored, justOpened
    <3>2. b.owed = [k \in Holders |-> borrowBalanceStored(s, k)]
      BY BookParts
    <3> HIDE DEF b
    <3> QED  BY <3>1, <3>2 DEF Ledger!nothing
  <2>6. /\ b.lent = 0 /\ b.reserves = 0 /\ b.tokens = s.accountTokens
        /\ b.supply = s.totalSupply /\ b.supply = (b.cash * expScale) \div b.firstPrice
    BY <2>1, BookParts DEF justOpened, div_Exp
  <2>7. b.tokens = [Ledger!nothing EXCEPT ![h] = b.supply]
    <3>1. s.accountTokens \in [Holders -> Nat]
      BY <2>1 DEF justOpened, CTokenStorage
    <3>2. \A k \in Holders : s.accountTokens[k] = IF k = h THEN b.supply ELSE 0
      BY <2>1, <2>6 DEF justOpened
    <3> HIDE DEF b
    <3> QED  BY <2>6, <3>1, <3>2 DEF Ledger!nothing
  <2> QED  BY <2>3, <2>4, <2>5, <2>6, <2>7
<1>2. books \in [Markets -> Ledger!Book]
  <2>1. books = [m \in Markets |-> books[m]]
    BY DEF books
  <2> QED  BY <1>1, <2>1
<1> QED  BY <1>1, <1>2 DEF Ledger!LedgerInit

LEMMA InitialBooks ==
  ASSUME Init
  PROVE  Ledger!LedgerInit
<1> DEFINE h == ComptrollerAddress
<1>1. h \in Holders /\ block = 0 /\ underlying \in [Markets -> [Holders -> Nat]]
  BY AccountsAreHolders, MoneyMarketAssumption DEF Init
<1>2. ASSUME NEW m \in Markets
      PROVE  justOpened(ctoken[m], h)
  <2> DEFINE rate == initialExchangeRate[m]
             s == initialize(rate, initialModel[m], 0)
  <2>1. ctoken[m] = s
    BY <1>2 DEF Init
  <2>2. rate \in Nat \ {0} /\ initialModel[m] \in InterestRateModel /\ 0 \in Nat
    BY MoneyMarketAssumption
  <2> HIDE DEF rate
  <2>3. validMarket(s, 0) /\ s.totalSupply = 0 /\ \A k \in Holders : s.accountBorrows[k].principal = 0
    BY <2>2, InitializeValid
  <2>4. /\ s.cash = 0 /\ s.initialExchangeRateMantissa = rate /\ s.accrualBlockNumber = 0
        /\ s.totalBorrows = 0 /\ s.totalReserves = 0 /\ \A k \in Holders : s.accountTokens[k] = 0
    BY DEF initialize
  <2> HIDE DEF s
  <2>5. div_Exp(0, rate) = 0
    <3>1. 0 * expScale = 0 /\ 0 \div rate = 0
      BY <2>2, ExpScaleAssumption
    <3> QED  BY <3>1 DEF div_Exp
  <2> QED  BY <1>1, <2>1, <2>3, <2>4, <2>5 DEF justOpened, validMarket
<1> HIDE DEF h
<1> QED  BY <1>1, <1>2, FirstBooks

LEMMA DeployedBooks ==
  ASSUME NEW cf, NEW rf, NEW etherSeed, DeployedWith(cf, rf, etherSeed), DeployedInit(cf, rf, etherSeed)
  PROVE  Ledger!LedgerInit
<1> DEFINE h == ComptrollerAddress
<1>1. h \in Holders /\ block = 0 /\ underlying \in [Markets -> [Holders -> Nat]]
  BY AccountsAreHolders, MoneyMarketAssumption DEF DeployedInit
<1>2. ASSUME NEW m \in Markets
      PROVE  justOpened(ctoken[m], h)
  <2> DEFINE rate  == initialExchangeRate[m]
             fresh == initialize(rate, initialModel[m], 0)
             x == received(m, firstSeed(m, etherSeed))
             s == seededMarket(m, firstSeed(m, etherSeed), rf[m])
             n == div_Exp(x, rate)
  <2>1. ctoken[m] = s
    BY <1>2 DEF DeployedInit, seededMarket, firstSeed
  <2>2. firstSeed(m, etherSeed) \in Nat /\ rf[m] \in 0 .. reserveFactorMaxMantissa
    BY FirstSeedNat DEF DeployedWith
  <2>3. x \in Nat
    BY <2>2, ReceivedNat
  <2>4. validMarket(s, 0) /\ \A k \in Holders : s.accountBorrows[k].principal = 0
    BY <2>2, SeededMarketValid
  <2>5. rate \in Nat \ {0} /\ initialModel[m] \in InterestRateModel /\ 0 \in Nat
    BY MoneyMarketAssumption
  <2>6. s = [[fresh EXCEPT !.cash = @ + x, !.totalSupply = @ + n, !.accountTokens[h] = @ + n]
               EXCEPT !.reserveFactorMantissa = rf[m]]
    BY DEF seededMarket, mintFresh, exchangeRateStored, initialize
  <2>7. n \in Nat
    BY <2>3, <2>5, DivExpNat
  <2> HIDE DEF x, n, rate, s
  <2>8. fresh \in CTokenStorage
    BY <2>5, InitializeValid DEF validMarket
  <2>9. /\ fresh.cash = 0 /\ fresh.initialExchangeRateMantissa = rate /\ fresh.accrualBlockNumber = 0
        /\ fresh.totalBorrows = 0 /\ fresh.totalReserves = 0 /\ \A k \in Holders : fresh.accountTokens[k] = 0
        /\ fresh.totalSupply = 0
    BY DEF initialize
  <2> HIDE DEF fresh
  <2>10. /\ s.cash = x /\ s.initialExchangeRateMantissa = rate /\ s.accrualBlockNumber = 0
         /\ s.totalBorrows = 0 /\ s.totalReserves = 0 /\ s.totalSupply = n
         /\ s.accountTokens[h] = n /\ \A k \in Holders \ {h} : s.accountTokens[k] = 0
    BY <1>1, <2>3, <2>6, <2>7, <2>8, <2>9 DEF CTokenStorage
  <2> QED  BY <2>1, <2>4, <2>10 DEF justOpened, validMarket, n
<1> HIDE DEF h
<1> QED  BY <1>1, <1>2, FirstBooks

\* From any state of both invariants on, every step is an entry or none.
LEMMA EntriesFrom ==
  ASSUME SeedIsEnough
  PROVE  IndInv /\ OpenInv /\ [][Next]_vars => [][Ledger!LedgerNext]_<<books, underlying>>
<1>1. IndInv /\ OpenInv /\ [Next]_vars => [Ledger!LedgerNext]_<<books, underlying>>
  BY StepsAreEntries DEF kept
<1> QED  BY <1>1, OpenFrom, PTL

\* If every listing mints a token, the markets keep the books of
\* LendingLedger: tokens are sold and bought back at the price of the book alone,
\* rounded against the one who asks, a debt is made by a loan and settled by
\* what arrives, a liquidator gets tokens only of a debtor whose debt it pays,
\* and blocks charge interest and do nothing else.
THEOREM MarketsAreLedgers ==
  ASSUME SeedIsEnough
  PROVE  Spec => MarketsKeepTheBooks
<1>1. Init => IndInv /\ OpenInv /\ Ledger!LedgerInit
  BY InitEstablishes, InitOpen, InitialBooks
<1> QED  BY <1>1, EntriesFrom, PTL DEF Spec, MarketsKeepTheBooks, Ledger!LedgerSpec

\* The same of the markets as deploy/ leaves them, whatever the factors and
\* the Ether they are listed with.
THEOREM DeployedMarketsAreLedgers ==
  ASSUME SeedIsEnough, NEW cf, NEW rf, NEW etherSeed, DeployedWith(cf, rf, etherSeed)
  PROVE  DeployedInit(cf, rf, etherSeed) /\ [][Next]_vars => MarketsKeepTheBooks
<1>1. DeployedInit(cf, rf, etherSeed) => IndInv /\ OpenInv /\ Ledger!LedgerInit
  BY DeployedEstablishes, DeployedOpen, DeployedBooks
<1> QED  BY <1>1, EntriesFrom, PTL DEF MarketsKeepTheBooks, Ledger!LedgerSpec
=============================================================================
