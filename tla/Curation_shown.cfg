SPECIFICATION Spec
CONSTANTS
  Cards <- MCCards
  Txs = {t1, t2}
  Nobody = nobody
  Patches <- MCPatches
  Exclusions = {"children"}
  Orders <- MCOrders
  Queue = {2}
  Revocable = {1}
  MaxPatches = 2
  MaxEntries = 50
SYMMETRY TxSymmetry
VIEW UpToIds
INVARIANTS TypeOK RulingsStand JournalIsTrue RetriesAreStable BatchesNeverBlockEachOther
