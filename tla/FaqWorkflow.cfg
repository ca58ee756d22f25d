SPECIFICATION Spec
CONSTANTS
  f1 = f1
  f2 = f2
  Faqs <- MCFaqs
  Texts = {q1, q2}
  Marked = {q2}
  Sources = {s1}
  Categories = {k1}
  Requests = {r1, r2}
  Fields = {"question", "source_url"}
  MaxVersion <- MCMaxVersion
  NULL = NULL
SYMMETRY Symmetry
INVARIANT PublishedWasReviewed
PROPERTIES MisplacedNeedsOverlap ImplementsEditorial
