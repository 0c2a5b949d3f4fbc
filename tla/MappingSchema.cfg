CONSTANTS
  Dialects <- MCDialects
  Default = "postgres"
  Names <- MCNames
  Fold <- MCFold
  Types <- MCTypes
  TypeOf <- MCTypeOf
  Requests <- MCRequests
  None = None
  SchemaError = SchemaError
  Careful = TRUE
SPECIFICATION SchemaSpec
INVARIANTS CachesAgree
PROPERTIES CatalogSpec
