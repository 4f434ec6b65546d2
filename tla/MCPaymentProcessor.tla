-------------------------- MODULE MCPaymentProcessor --------------------------
EXTENDS PaymentProcessor, TLC

\* Nothing tells threads, payments or keys apart, and ImplementsLedger is about
\* single steps, the same for every renaming.
Symmetric == Permutations(Threads) \union Permutations(Ids) \union Permutations(Keys)
==============================================================================
