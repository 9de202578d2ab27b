SPECIFICATION Spec
CONSTANTS
  ann = ann
  bob = bob
  m1 = m1
  m2 = m2
  User = {ann, bob}
  Editor = {ann, bob}
  Reactor = {}
  Msg = {m1}
  Sender <- BothByAnn
  Kind <- AllText
  Parent <- NoQuotes
  Text = {draft, edit}
  Draft = draft
  Blank = blank
  Emoji = {like}
  None = None
  Handler = {h1, h2}
SYMMETRY Symmetry
INVARIANTS
  DeletedIsBlank
