CONSTANT ReportSteps <- Boundaries
SPECIFICATION EventsSpec
INVARIANT QueriesExact
PROPERTY ImplementsEvents
