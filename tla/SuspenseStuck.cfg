SPECIFICATION Spec
CONSTANTS
  top = top
  app = app
  provider = provider
  aside = aside
  panel = panel
  reader = reader
  sorry = sorry
  stage = stage
  owner = owner
  shield = shield
  view = view
  text = text
  note = note
  inside = inside
  fallback = fallback
  spinner = spinner
  Roots = {stage}
  Places = {top, app, provider, aside, panel, reader, sorry, stage, owner, shield, view, text, note, inside, fallback, spinner}
  Tag <- MCTag
  Kids <- MCKids
  Fallback <- MCFallback
  Boundaries = {app}
  Consumers = {reader}
  Constant = {panel, reader}
  Throwing = {app, reader}
  BadHosts = {aside}
  Hidden = {panel}
  Suspending = {view}
  Levels = {1, 2}
  Never = 3
  MaxUpdates <- MCMaxUpdates
  MaxErrors = 1
INVARIANT FallbackIsRetried
CHECK_DEADLOCK FALSE
