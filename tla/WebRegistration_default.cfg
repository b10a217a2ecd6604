SPECIFICATION FairSpec
CONSTANTS
  ann = ann
  bob = bob
  Requests = {r1, r2}
  Values = {ann, bob}
  NoValue = none
  Codes = {t1, t2}
  NoCode = nocode
  Payloads <- MCPayloads
  Configs <- MCDefault
  Legacy = ann
  MaxAttempts = 2
  MaxSubmissions = 2
  MaxScans = 2
INVARIANTS TypeOK ShownTicketsOpen OneRowPerEmail
PROPERTIES NothingIsErased EveryRequestIsAnswered
