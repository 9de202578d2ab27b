SPECIFICATION Spec
CONSTANTS
  ann = ann
  bob = bob
  m1 = m1
  m2 = m2
  User = {ann, bob}
  Editor = {}
  Reactor = {bob}
  Msg = {m1, m2}
  Sender <- BothByAnn
  Kind <- AllText
  Parent <- SecondQuotesFirst
  Text = {draft}
  Draft = draft
  Blank = blank
  Emoji = {like}
  None = None
  Handler = {h1, h2}
SYMMETRY Symmetry
INVARIANTS
  ToldReactionIsStored
  RejectedOnlyIfWiped
