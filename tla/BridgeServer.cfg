\* Two threads on one session.  The identifiers tried are an ordinary one and
\* words of other routes.
SPECIFICATION Spec
CONSTANTS
  Threads = {t1, t2}
  Size = 1
  Deaths = 2
  Queries = 1
  None = None
  Names = {"id", "eligibility", "by-biz", "read-all", "meta", "run", "templates",
           "detail", "pick", "compare", "overview"}
INVARIANTS
  SessionsAccounted
  RowsAreMine
  EveryRouteServes
PROPERTIES
  Answered
