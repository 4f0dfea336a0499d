-------------------------- MODULE MarketCommands --------------------------
(***************************************************************************)
(* The commands on markets, the Comptroller and what they depend on        *)
(* (scenario/src/Event: CToken, CTokenDelegate, Comptroller,               *)
(* ComptrollerImpl, Unitroller, Erc20, InterestRateModel, PriceOracle,     *)
(* PriceOracleProxy, Maximillion).  Per file: what its handlers do, and    *)
(* its table of commands.                                                  *)
(***************************************************************************)
EXTENDS ContractBuilders

\* cTokens: what users do,
tokenHandlers ==
    LET i == Invokes("CToken") IN
    [accrueInterest |-> i, mint |-> i, redeem |-> i, redeemUnderlying |-> i, borrow |-> i,
     repayBorrow |-> i, repayBorrowBehalf |-> i, liquidateBorrow |-> i, seize |-> i]

\* what the admin and a malicious cToken do,
tokenAdminHandlers ==
    LET i == Invokes("CToken") IN
    [evilSeize |-> Invokes("CEvil"), setPendingAdmin |-> i, acceptAdmin |-> i,
     addReserves |-> i, reduceReserves |-> i, setReserveFactor |-> i,
     setInterestRateModel |-> i, setComptroller |-> i, sweepToken |-> Invokes("CErc20")]

\* and what only some kinds of cToken have.  Become and resign take the ABI of
\* CErc20Delegate at the cToken's address, whatever the session knows of it.
tokenVariantHandlers ==
    [becomeImplementation |-> Invokes("none"), resignImplementation |-> Invokes("none"),
     setImplementation |-> Invokes("CErc20Delegator"), donate |-> Invokes("CEtherScenario"),
     setCTokenMock |-> Invokes("CErc20Scenario")]

tokenReports ==
    [verify |-> Prints, printMinters |-> Reads("CToken"), printBorrowers |-> Reads("CToken"),
     printLiquidity |-> Reads("CToken")]

tokenCommands ==
    LET h == tokenHandlers IN
    [AccrueInterest |-> h.accrueInterest, Mint |-> h.mint, Redeem |-> h.redeem,
     RedeemUnderlying |-> h.redeemUnderlying, Borrow |-> h.borrow,
     RepayBorrow |-> h.repayBorrow, RepayBorrowBehalf |-> h.repayBorrowBehalf,
     Liquidate |-> h.liquidateBorrow, Seize |-> h.seize]

tokenAdminCommands ==
    LET h == tokenAdminHandlers IN
    [EvilSeize |-> h.evilSeize, ReduceReserves |-> h.reduceReserves,
     AddReserves |-> h.addReserves, SetPendingAdmin |-> h.setPendingAdmin,
     AcceptAdmin |-> h.acceptAdmin, SetReserveFactor |-> h.setReserveFactor,
     SetInterestRateModel |-> h.setInterestRateModel, SweepToken |-> h.sweepToken,
     SetComptroller |-> h.setComptroller]

tokenVariantCommands ==
    LET h == tokenVariantHandlers
        r == tokenReports IN
    [BecomeImplementation |-> h.becomeImplementation,
     ResignImplementation |-> h.resignImplementation,
     SetImplementation |-> h.setImplementation, Donate |-> h.donate, Mock |-> h.setCTokenMock,
     Minters |-> r.printMinters, Borrowers |-> r.printBorrowers,
     Liquidity |-> r.printLiquidity, Decode |-> Prints]

cTokenCommands ==
    CTokenBuilder \cup {On("CToken", tokenReports.verify)} \cup
    UNION {Table("CToken", tokenCommands), Table("CToken", tokenAdminCommands),
           Table("CToken", tokenVariantCommands)}

cTokenDelegateCommands ==
    Variants("CTokenDelegate", CTokenDelegates) \cup {On("CTokenDelegate", Prints)}
-----------------------------------------------------------------------------
\* The Comptroller.  SetPaused finds the pause function of an action and then
\* calls another that a contract does not have, comptroller[action].  SupportMarket
\* returns from a dry run.  Send bypasses `invoke` and `addAction`.
riskHandlers ==
    LET i == Invokes("Comptroller") IN
    [setPaused |-> Throws, setMaxAssets |-> Invokes("ComptrollerG1"),
     setLiquidationIncentive |-> i, supportMarket |-> InvokesLive("Comptroller"),
     unlistMarket |-> Invokes("ComptrollerScenario"), enterMarkets |-> i, exitMarket |-> i,
     setPriceOracle |-> i, setCollateralFactor |-> i, setCloseFactor |-> i]

\* The methods of a fixed COMP rate are those of former Comptrollers.
compHandlers ==
    LET i == Invokes("Comptroller")
        retired == Invokes("Retired") IN
    [fastForward |-> Invokes("ComptrollerScenario"), sendAny |-> SendsUnrecorded("none"),
     addCompMarkets |-> retired, dropCompMarket |-> retired,
     refreshCompSpeeds |-> Invokes("ComptrollerScenario"), claimComp |-> i,
     claimCompInMarkets |-> i, updateContributorRewards |-> i, grantComp |-> i,
     setCompRate |-> retired, setCompSpeed |-> retired, setCompSpeeds |-> i,
     setContributorCompSpeed |-> i]

\* Admin and guardians: the handover is the proxy's.
guardianHandlers ==
    LET i == Invokes("Comptroller") IN
    [printLiquidity |-> Reads("Comptroller"), setPendingAdmin |-> Invokes("Unitroller"),
     acceptAdmin |-> Invokes("Unitroller"), setPauseGuardian |-> i, setGuardianPaused |-> i,
     setGuardianMarketPaused |-> i, setMarketBorrowCaps |-> i, setBorrowCapGuardian |-> i]

riskCommands ==
    LET h == riskHandlers IN
    [SetPaused |-> h.setPaused, SupportMarket |-> h.supportMarket, UnList |-> h.unlistMarket,
     EnterMarkets |-> h.enterMarkets, ExitMarket |-> h.exitMarket,
     SetMaxAssets |-> h.setMaxAssets, LiquidationIncentive |-> h.setLiquidationIncentive,
     SetPriceOracle |-> h.setPriceOracle, SetCollateralFactor |-> h.setCollateralFactor,
     SetCloseFactor |-> h.setCloseFactor]

guardianCommands ==
    LET h == guardianHandlers IN
    [SetPendingAdmin |-> h.setPendingAdmin, AcceptAdmin |-> h.acceptAdmin,
     SetPauseGuardian |-> h.setPauseGuardian, SetGuardianPaused |-> h.setGuardianPaused,
     SetGuardianMarketPaused |-> h.setGuardianMarketPaused,
     FastForward |-> compHandlers.fastForward, Liquidity |-> h.printLiquidity,
     Decode |-> Prints, Send |-> compHandlers.sendAny]

compCommandsOfComptroller ==
    LET h == compHandlers IN
    [AddCompMarkets |-> h.addCompMarkets, DropCompMarket |-> h.dropCompMarket,
     RefreshCompSpeeds |-> h.refreshCompSpeeds, ClaimComp |-> h.claimComp,
     ClaimCompInMarkets |-> h.claimCompInMarkets,
     UpdateContributorRewards |-> h.updateContributorRewards, GrantComp |-> h.grantComp,
     SetCompRate |-> h.setCompRate, SetCompSpeed |-> h.setCompSpeed,
     SetCompSpeeds |-> h.setCompSpeeds, SetContributorCompSpeed |-> h.setContributorCompSpeed]

capCommands ==
    [SetMarketBorrowCaps |-> guardianHandlers.setMarketBorrowCaps,
     SetBorrowCapGuardian |-> guardianHandlers.setBorrowCapGuardian]

comptrollerCommands ==
    ComptrollerImplBuilder \cup
    UNION {Table("Comptroller", riskCommands), Table("Comptroller", guardianCommands),
           Table("Comptroller", compCommandsOfComptroller), Table("Comptroller", capCommands)}
-----------------------------------------------------------------------------
\* Implementations become the Unitroller's.  The first generation's _become and
\* Recome's take five arguments, the third's the COMP rate and markets.
becomeEarlyHandlers ==
    [mergeABI |-> Merges, becomeG1 |-> Becomes("ComptrollerG1"),
     recome |-> Recomes("ComptrollerG1"), becomeG2 |-> Becomes("Comptroller"),
     becomeG3 |-> Becomes("Retired")]

becomeHandlers ==
    [becomeG4 |-> Becomes("Comptroller"), becomeG5 |-> Becomes("Comptroller"),
     becomeG6 |-> Becomes("Comptroller"), become |-> Becomes("Comptroller"), verify |-> Prints]

becomeEarlyCommands ==
    LET h == becomeEarlyHandlers IN
    [Verify |-> becomeHandlers.verify, BecomeG1 |-> h.becomeG1, BecomeG2 |-> h.becomeG2,
     BecomeG3 |-> h.becomeG3, BecomeG4 |-> becomeHandlers.becomeG4]

becomeCommands ==
    LET h == becomeHandlers IN
    [BecomeG5 |-> h.becomeG5, BecomeG6 |-> h.becomeG6, Become |-> h.become,
     MergeABI |-> becomeEarlyHandlers.mergeABI, Recome |-> becomeEarlyHandlers.recome]

comptrollerImplCommands ==
    ComptrollerImplBuilder \cup
    Table("ComptrollerImpl", becomeEarlyCommands) \cup Table("ComptrollerImpl", becomeCommands)

unitrollerHandlers ==
    [verifyUnitroller |-> Prints, acceptAdmin |-> Invokes("Unitroller"),
     setPendingAdmin |-> Invokes("Unitroller"), setPendingImpl |-> Invokes("Unitroller")]

unitrollerCommands ==
    LET h == unitrollerHandlers IN
    Variants("Unitroller", UnitrollerContract) \cup
    Table("Unitroller", [Verify |-> h.verifyUnitroller, AcceptAdmin |-> h.acceptAdmin,
                         SetPendingAdmin |-> h.setPendingAdmin,
                         SetPendingImpl |-> h.setPendingImpl])
-----------------------------------------------------------------------------
\* Underlying tokens, some of which can be told to fail, pause or take a fee.
erc20Handlers ==
    LET i == Invokes("EIP20Interface") IN
    [verifyErc20 |-> Prints, approve |-> i, faucet |-> Invokes("FaucetToken"), transfer |-> i,
     transferFrom |-> i, setFail |-> Invokes("EvilToken"), setPaused |-> Invokes("WBTCToken"),
     setFee |-> Invokes("FeeToken")]

erc20Commands ==
    LET h == erc20Handlers IN
    Variants("Erc20", Erc20s) \cup Variants("Erc20", SpecialErc20s) \cup
    Table("Erc20", [Verify |-> h.verifyErc20, Approve |-> h.approve, Faucet |-> h.faucet,
                    Transfer |-> h.transfer, TransferFrom |-> h.transferFrom,
                    SetFail |-> h.setFail, Pause |-> h.setPaused, SetFee |-> h.setFee])

interestRateModelCommands ==
    Variants("InterestRateModel", InterestRateModels) \cup
    Variants("InterestRateModel", LaterInterestRateModels) \cup {On("InterestRateModel", Prints)}

priceOracleHandlers ==
    [setPriceOracleFn |-> setPriceOracle, setPrice |-> Invokes("SimplePriceOracle"),
     setDirectPrice |-> Invokes("SimplePriceOracle"), verifyPriceOracle |-> Prints]

priceOracleCommands ==
    LET h == priceOracleHandlers IN
    Variants("PriceOracle", PriceOracles) \cup
    Table("PriceOracle", [Set |-> h.setPriceOracleFn, SetPrice |-> h.setPrice,
                          SetDirectPrice |-> h.setDirectPrice, Verify |-> h.verifyPriceOracle])

priceOracleProxyHandlers ==
    [verifyPriceOracleProxy |-> Prints, setSaiPrice |-> Invokes("PriceOracleProxy")]

priceOracleProxyCommands ==
    LET h == priceOracleProxyHandlers IN
    Variants("PriceOracleProxy", PriceOracleProxies) \cup
    Table("PriceOracleProxy", [Verify |-> h.verifyPriceOracleProxy,
                               SetSaiPrice |-> h.setSaiPrice])

maximillionHandlers ==
    [verifyMaximillion |-> Prints, repayBehalf |-> Invokes("Maximillion")]

maximillionCommands ==
    LET h == maximillionHandlers IN
    Variants("Maximillion", MaximillionContract) \cup
    Table("Maximillion", [Verify |-> h.verifyMaximillion, RepayBehalf |-> h.repayBehalf])
=============================================================================
